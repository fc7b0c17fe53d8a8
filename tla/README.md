# Verification of the Stale-State Firewall

This directory models the enforcement core of the firewall in TLA+, checks it with
TLC and proves its most important properties with TLAPS. Paths below are relative
to the root of the repository.

The firewall stands between an agent and the tools that change the world. An agent
submits an *intent* that declares which state it relied on. The firewall fetches the
current state, classifies the declared state, decides, and only then, under a
single-use authorization, runs the external *executor*.

## 1. Inventory

| component | state | operations | interacts with |
|---|---|---|---|
| enforcement boundary, `src/application/execute-action.ts` | none of its own: locals of each call, alive across about twenty `await`s | `executeAction`, `executeApprovedAction`, `executeConditionally` | validation, stores, providers, executors |
| validation, `validate-action.ts` | none | save the action, evaluate, decide, save the decision | stores, evaluator, decision engine |
| revalidation, `revalidate-action.ts` | none | verdicts recomputed on adopted snapshots | freshness engine |
| dependency evaluation, `engine/dependency-evaluator.ts` | none | one fetch after another, full or conditional | providers, freshness engine |
| freshness, `engine/staleness.ts`, `engine/freshness.ts` | none (pure) | age, drift, five strategies | |
| decision, `engine/decision-engine.ts` | none (pure) | basis, outcome tables, safety floor, modes | |
| policy resolution, `engine/policy-resolver.ts`, `resolved-policy.ts` | none (pure) | risk, matching, defaults | |
| stores, `storage/` | actions, decisions, authorizations, escalations, executions, snapshots, audit chain | claim, consume, save, resolve, append | all calls, several processes with sqlite |
| SDK, `sdk/firewall.ts` | the wiring | `execute`, `executeApproved`, `resolveEscalation`, `check` | reviewers and agents |
| audit, `audit/audit-engine.ts` | the hash chain in the store | `append`, `verify` | |
| providers, `providers/` | the resource map (memory), remembered ETags (GitHub) | `getState`, `getConditional`, `conditionalExecute` | the outside world |
| configuration, `config/`, `engine/preconditions.ts` | the file, then the policy core of the context | normalise, validate, load the external file, resolve, start | the engines, which assume what validation promises |
| command line, `cli/run.ts` | the configuration file, the sqlite file | `init`, `check`, `policy validate`, `state`, `action`, `audit`, `doctor` | stores, ledger; scripts act on its exit codes |
| protected tools, `sdk/protected-tool.ts`, `domain/recovery.ts` | none | one attempt of an agent, its result or `BlockedActionError` with guidance | agents, which retry as they are guided |
| events, redaction, logging, telemetry | | | |

What is hard here, and hard to test:

* **interleaving.** Every `await` lets other calls run. Guards read the store long
  before the claim uses what they read.
* **time.** The world moves between validation, claim and effect; authorizations
  expire; a deadline abandons an executor that keeps running.
* **failure.** Fetches fail one by one; a conditional operation may raise after it was
  applied; a process may die with a live authorization in the shared file.
* **protocol.** The same action id is retried, escalated, approved, rejected,
  submitted with other contents.
* **combination.** Policies, defaults, risks, modes and strategies combine freely, and each of
  them is written by hand in a file.
* **delivery.** A mutation may be applied and its answer lost, or arrive after its sender gave
  up and tried again; nothing links two attempts but the guidance between them.
* **sharing.** Any number of processes open, migrate and append to one sqlite file.

`PROJECT.json` lists each hazard at its line, with the properties that address it, and
each component with what is modelled of it.

## 2. Modules

```
Freshness  <-  Decision  <-  DecisionFlow              MCDecisionFlow
  ^    ^        ^     ^      DecisionLemmas, DecisionFlowProofs
  |    |        |     |
  |    |        |   PolicyResolution  <-  Configuration     MCConfiguration
  |    |        |                             |            ConfigurationProofs
  |    |        |                       Preconditions
  |    |        |
  |    |      ExecuteAction --implements--> AuthorizationGate
  |    |      MCExecuteAction, ExecuteActionProofs
  |    |
  |   Observation                                        MCObservation, ObservationProofs
 GitHubProvider                                        MCGitHubProvider
 GitHubProviderProofs

AuditChain  <-  SharedStore                            MCSharedStore
                SharedStoreProofs (both)

ProtectedAgent                                         MCProtectedAgent, ProtectedAgentProofs
```

**Freshness** holds the freshness engine as operators: `EvaluateFreshness` with the
drift checks that come before every strategy, and `RecomputeFreshness`, the adoption of
a fetched snapshot. A simple strategy is a hybrid with one component. `Null` is -1;
versions, hashes and timestamps are naturals.

**Decision** holds `decide()`: `Decide` composes basis, tables, floor, fail-closed rule and
STRICT mode; `Recorded` is what OBSERVE mode makes of it. The decision depends on the
*set* of verdicts, which is how it is written.

**Observation** follows one declared dependency while the clock advances, the resource
changes and the provider comes and goes. `Providers` says which signals a snapshot
carries and how a conditional request is answered: not at all, with the provider's own
hash (memory), or with the claim's (HTTP 304). Preconditions are routed to the
dependency exactly when the strategy has the preconditions component.

**DecisionFlow** is the pair of decisions an action can get: at validation, and once more
after REVALIDATE, when fetched dependencies get new verdicts and the others keep theirs.

**ExecuteAction** is the enforcement boundary. State and code:

| variable | code |
|---|---|
| `pc`, `local` | where a call stands between two awaits, and its local variables |
| `req` | the arguments of `execute` / `executeApproved`: intent, executor, policy |
| `outcome` | how the promise settled: executed, not executed, or which error |
| `actions`, `decisions`, `authorization`, `escalation`, `execution` | the tables of the store |
| `review` | a reviewer inside `resolveEscalation` |
| `executor`, `world`, `clock` | external executor of a call, authoritative versions, time |
| `atClaim` | history: the world when the authorization was granted |

| action | code from await to await |
|---|---|
| `Submit`, `EscalationGuard`, `ApprovalGuard`, `AuthorizationGuard` | the guards before validation |
| `Propose`, `Fetch`, `Validate` | `saveAction`, one provider fetch, decision and `saveDecision` |
| `ConsumedGuard`, `Revalidate`, `Escalate` | the checks after validation, the REVALIDATE flow, `saveEscalation` |
| `Gate`, `GateEscalate` | conditional execution required but unavailable |
| `Claim`, `Recheck` | `claimAuthorization`; the best-effort recheck and the start of the executor |
| `ExecutorSucceeds`, `ExecutorReportsFailure`, `ConditionRefused`, `ConditionalFault`, `DeadlineReached` | what ends the race with the deadline |
| `SaveExecution`, `Consume`, `Reassess` | settlement in the order of the path, and the new decision after a refusal |
| `ExecutorApplies`, `ExecutorRefuses`, `ExecutorFails` | the external executor, also after its call gave up on it |
| `ReadEscalation`, `ResolveEscalation` | the two halves of `resolveEscalation` |
| `Mutate`, `Tick` | the world, time |
| `StoreFails`, `Crash` | a store operation that raises and ends its call; the death of a process, or its exit while a call waits for its executor (`MayExit`) |

Policy, mode and executor come with each request, so one state space holds calls under
different policies and calls of an OBSERVE firewall next to enforced ones.

**AuthorizationGate** is the abstract specification: an action id has one holder, only the
holder starts an executor, once, and only a holder that started one gives the id up.
`ExecuteAction` implements it under the mapping in `SingleUse`.

**PolicyResolution** picks the policy of an intent and the final risk. The intent is fixed,
so each dimension of a matcher is its relation to the intent: absent, a match or a miss.
The loop over the policies is one action per round (`Scan`), which makes its invariant
worth stating.

**Configuration** composes with it: an operator's file goes through `Normalize`, `Validate`,
`LoadPoliciesFile`, `BuildPolicyCore` and `OpenStore`, and what runs then decides which policies
`PolicyResolution` scans. `ValidateConfig` is the conjunction of one operator per section; the
sections whose content other definitions read (policies, defaults, risk defaults) are records of
written values, the others are functions from their fields to absent, good or bad. The words of
the file exist in a second spelling ("ALLOW", "critical", "STRICT") that normalisation forgives.
**Preconditions** holds the operators of preconditions, with the values on which they throw.

**SharedStore** composes with AuditChain: every command of the CLI is a session of a process
that opens the file (`SetJournalMode`, `EnsureMigrationsTable`, `SelectApplied`, one
`BeginMigration` .. `CommitMigration` per missing version), does the work of its command against
the ledger, and exits. `configuration`, `journal` and `schema` are the files, `work` is the schema
as the migrating transaction sees it, `session` where each process stands. `Die` may come at any
point. With the memory store the sessions are concurrent `check()` calls of one process.

**ProtectedAgent** is the loop around the firewall: agents observe one HTTP resource, submit an
action through a protected tool, are answered, and do what the recovery guidance says. Some tools
have `conditionalRun`, some only `run`. `deployment` fixes which version signal the resource sends,
how its server treats `If-Match`, and whether the policy denies refuted claims or adopts what
validation found (`on_invalid: revalidate`, or OBSERVE mode); `late` holds requests whose sender has
given up. Reads may come out of a cache. What happens inside one execution is ExecuteAction's
subject; here it is its verdict, its request and its result.

**GitHubProvider** follows one GitHub resource of any kind. `Fetch` is `getState` and
`getConditional` at once, because both send the declared version as `If-None-Match`
first. The agent is honest: `Observe` (`inspectState`) gives it what the provider
answered, with or without the time, and it cites that; the ghost `seen` is the resource
as it last read it. The outside world changes the resource (`NewHead`, `NewState`,
`Edit`, `NewReview`), the repository object around it, and fails requests.

**AuditChain** is the ledger in either store. With sqlite an append is `Begin` (the
immediate transaction), `ReadLast`, `Commit` or `Rollback`, by any process, which may die
at any step; in memory it is one step. `EditRow`, `DeleteRow` and `SwapRows` change the
stored rows, behind the back of the program; `VerifyOk` and `FirstBreak` are what
`verify()` returns. Its actions are checked inside SharedStore.

Modules named `MC...` give TLC its values. Operators named `Mutant...` are plausible wrong
versions of the definition that follows them, each breaking a property.

### Abstractions

* Snapshots, audit events, metrics and events are left out of ExecuteAction: nothing in
  the flow reads them back. A snapshot is its version; content follows the version.
* `Operations` stands for tool, operation and target together, `Arguments` for the
  redacted canonical arguments, `Holds` for the routed preconditions of a resource.
* A call without an action id has an id of its own.
* Dependencies of one intent are distinct. Policy, defaults and risk come resolved; a risk that is
  undefined (Configuration) decides as MEDIUM does.
* Reading the clock and the store operation that follows in the same turn are one action.
  The three reads of `ApprovalGuard` are one action: records read later never change.
* The clock stops at `MaxTime`, which stands for any later time: `DeadlineReached` is
  enabled there whatever the deadline.
* Executors are trusted when they report or raise a clean failure, as the code states at
  its trust boundary. The code takes a legacy error whose text contains "deadline" for a
  breach of the deadline; that text is not modelled.
* Operations of the memory store do not fail. Those on a sqlite file may raise at any step of a call
  (`StoreFails`); a write that raises has written nothing.
* A crash ends one process of several over a sqlite file; a crash of the memory store
  leaves nothing to check.
* `PolicyNotFoundError` and configuration errors come before any state change;
  PolicyResolution has the first as a final state, Configuration the others.
* Configuration fixes the intent, as PolicyResolution does. A key the schema does not know is the
  field `unlisted`; a duration is its value, absent or malformed. Values whose type is wrong in a
  way that makes normalisation itself raise are left out.
* SharedStore takes one statement for the tables of the first migration, which are all created
  "if not exists". The lock of the file is one; readers never wait (WAL).
* ProtectedAgent counts faults and stale reads together (`MaxFaults`). An agent that was once told
  of an unknown outcome looks for its own change whenever it observes; the read in which it looks is
  the read it acts on, as in `dogfood/harness/scenarios/13-adoption-agent-workflow.mjs`. Each
  attempt has an action id of its own. Policies that switch the recheck of the plain path off are
  left out.
* The hash of the audit chain is ideal: a hash is the sequence of what was hashed. Event
  types and payloads are one opaque body. An append that gives up on a busy database loses
  its event, as the code does. Rows are changed from outside to other well-formed rows: on one whose
  JSON does not parse `verify` throws (`storage/sqlite/store.ts:697`).
* Globs are match or miss; GitHub's metadata is the two fields preconditions read here
  (status and reviews). A GitHub 404, a rate limit and a timeout are the same failure, as
  they are for the evaluator. Agents of GitHubProvider declare no content hash.

## 3. Runs

Passing runs, with their bounds:

| run | instance | shows |
|---|---|---|
| `observation` | 36 claims, 6 policies, 4 providers, 2 changes, time 0..4 | drift is never graded on age, 304 answers prove what they say, revalidation launders no invariant, waiting never improves a verdict |
| `decision_flow` | 2 dependencies, 4 risks, 3 modes, 7 tables, 2 defaults | the safety floors and the end of revalidation |
| `execution` | 2 calls of one id, 2 resources, one change each, failing fetches, best effort and conditional, observed and not | drift before the claim is caught, effects land on the declared version, recorded results and refusals are true |
| `race` | 3 processes, one id, one sqlite file, store errors and crashes anywhere | one holder, settled afterwards, ids of unsettled attempts frozen, implements the gate |
| `escalation` | 3 calls, 1 reviewer, sqlite, escalation by decision and by the gate, OBSERVE | approvals cover what runs, records cite the decisions that made them, resolutions are final |
| `liveness` | 2 calls, executors that answer, hang or fail, store errors anywhere; the process of one call is kept alive, that of the other may exit while it waits | every call ends, every execution is recorded or its caller told of the store, with the exit as the one exception; an id that was executed is never executed again by a later call |
| `configuration` | each section of a file alone out of the ordinary, and every combination of the words of the dangerous defaults; up to 3 policies, given as object or path; 5 metadata values per precondition; 4 risk defaults, one with a rule that names no level | nothing is allowed on refuted state, nor on uncertain state unacknowledged; what runs is in the domain of the engines, but for the risk such a rule leaves undefined; the scan keeps the documented precedence; the selected policy never lowers the risk |
| `shared_store` | 2 processes, any command, a new or an old file, 3 records, both stores, one change from outside, death anywhere | a ledger nobody changed verifies, a change is located, migrations are atomic, opening recovers from every crash, verdicts and exit codes are true |
| `protected_agent` | a conditional and a plain agent, 7 deployments (6 servers under a policy that denies refuted claims, 1 under one that adopts), 1 change by others, 2 faults or stale reads | a change is applied to what was authorized, and where refuted claims are denied to what was observed and at most once; guidance is true, recovery ends |
| `github_provider` | 7 kinds, with and without ETags, 2 changes, 1 of the repository, time 0..2 | confirmed means unchanged, unchanged is confirmed, preconditions pass only on GitHub's word |

Two calls are enough for every race between a reader and a writer of one record; a third is
there where a property relates a holder, a competitor and a latecomer. One change of the
world suffices for a stale version, two for a version that comes after a stale one, and the
clock needs one step beyond a deadline (`race` has windows that close at once). A single action id carries all the contention: calls
of different ids share nothing but the world. Three policies put one candidate before and one
after the best, or two that tie.

Calls that are interchangeable are declared symmetric in the safety runs of ExecuteAction;
the liveness run uses no symmetry.

Runs that end in a violation state what the documentation, a comment or a message says and
the code does not do:

| run | statement | what happens |
|---|---|---|
| `at_most_one_execution` | `AtMostOneExecution` | the consumed guard is passed before the other call consumes |
| `external_policies_are_enforced` | `ExternalPoliciesAreEnforced` | `init()` keeps the inline policies only |

### Further differences met while modelling

The models follow the code. Where the text beside it says something else, no property takes
the side of the text; these places are:

* `application/execute-action.ts:512-514`: a store error after the effect leaves the id frozen or consumed,
  and its caller with a `StorageError`, for which `domain/recovery.ts` has no guidance: it does not say
  that the effect may have happened. `NotExecutedMeansNoEffect` leaves that error out.
* `application/execute-action.ts:90`: an authorization past its window is reported as expired with
  "nothing was executed and no side effect occurred" (`domain/recovery.ts:145`) also while its
  executor runs or has applied its effect.
* `providers/github/github-provider.ts:439`: the conditional request about a deployment asks the
  repository object. An agent that cites the ETag it was answered with gets FRESH after the deployment
  was replaced, although the state is folded into the version "so drift is detectable by version
  comparison" (368-369). `ConfirmedMeansUnchanged` leaves deployments out.
* `providers/http/http-provider.ts:96`: `fetch` follows redirects. A mutation that was applied and
  answered 303 is followed by a GET that still carries `If-Match`; its 412 is reported as "Server
  refused the stale operation; no side effect occurred" (103). `GuidanceIsTrue` and
  `AppliedAtMostOnce` leave such servers out; the model has them (`Redirected`).
* `http-provider.ts:222-229`: a version configured from a body field or another header is sent as
  `If-Match` and matches no ETag: every attempt is refused. It fails closed, and never ends, so
  `RecoveryTerminates` is about ETags.
* `domain/recovery.ts:88-99`: the guidance after a failed plain execution says that nothing was
  executed; after a lost answer it was. `GuidanceIsTrue` is about conditional tools.
* `domain/recovery.ts:130-134`: "inspect", then "fresh observation": with two reads a late request may
  arrive between them, and the agent repeats a change it has made. The model takes one read for both.
* `execute-action.ts:139-187`, `240`: under `on_invalid: revalidate`, or in OBSERVE mode, the call that
  finds drift may adopt it and forward the version it has just fetched. `EffectLandsOnObserved` then
  holds of the version authorized, not of the one observed, and a late request of the agent's own
  is drift like any other: the change is applied twice. `AppliedAtMostOnce` says "where refuted
  claims are denied"; the model has the other policies, and breaks it there.
* `execute-action.ts:966-968`: the timer of the deadline is unref'd. Where an executor hangs and nothing
  else keeps the process, node exits before the deadline: the call does not end, nothing is recorded,
  and nobody is told. Both liveness properties name the exit as their exception (`ExitedEarly`).
* `config/validation.ts:707`: a `risk_defaults` rule without `risk` is accepted, kept by
  `config/normalize.ts:86` and returned by `policy-resolver.ts:68`, although its type demands a level
  (`domain/policy.ts:127`). Every comparison with the undefined risk is false: a matcher's floor
  matches, the floor for CRITICAL is lost, and the sqlite store refuses the action
  (`storage/sqlite/store.ts:56`). `EngineAssumptionsHold` names the case.
* `policy-resolver.ts:62-63`: the risk of an intent overrides a higher `risk_defaults` rule, as
  `docs/policies.md:87` says. `PolicyNeverLowersRisk` is about policy and floor only.
* `config/normalize.ts:84-88`: unknown fields of `risk_defaults` are dropped before validation could
  refuse them (`docs/policies.md:93`, "unknown fields at every level"); unknown fields below
  `providers.http.resources.*.conditional` are not looked at.
* `config/validation.ts:673`: matchers are compared as text, so the same matcher with its keys in
  another order is accepted twice (`docs/policies.md:99`). The first declared wins.
* `config/validation.ts:118-125`: a `ttl` of zero and a deadline beyond the range of timers pass
  validation and fail in resolution, as a ConfigurationError (exit code 2 instead of 1).
* `engine/resolved-policy.ts:94`: a `max_age` of zero is refused for the strategy `ttl` only. A hybrid
  whose one component is the age passes with it, and no claim about it is ever FRESH.
* `config/loader.ts:80-86`: an external file is validated before it is normalised, so a spelling
  accepted inline is refused there.
* `storage/sqlite/store.ts:163-165`: `journal_mode` is set before `busy_timeout`, and 187 reads the
  applied versions outside the transaction: of two processes that open a new file at the same time
  one may fail. `UncontendedOpenSucceeds` says that nothing but such a race fails.
* `cli/run.ts:216-234`: a lost audit event ends `ssf check` with exit code 1, as a denial does.
* `engine/staleness.ts:81`: an age equal to the maximum is STALE; the comment at 75-76 says AGING.
* `engine/freshness.ts:78`: a future-dated claim is UNKNOWN even if its version drifted, which
  `docs/freshness.md:23-25` classifies as INVALID.
* `providers/http/http-provider.ts:186`: a 304 echoes the declared content hash.
* `application/execute-action.ts:443`: no check compares the window with the clock after the
  guards, so an execution may start late (`docs/revalidation.md:80`).
* `execute-action.ts:412`: the recheck denies in OBSERVE mode too (comment at 278).
* `revalidate-action.ts:40`: the new decision after a refused condition may rest on verdicts an
  outage kept from being refreshed (header, lines 20-21).
* `execute-action.ts:574`: approved arguments are compared with the first action recorded under
  the id (comment at 569).
* `execute-action.ts:191`: a policy that escalates refuted state lets an approved call execute on
  INVALID (`docs/revalidation.md:65`: an approval "does not bypass INVALID state").
* `execute-action.ts:72`, `83`: an id rejected after the guard was passed still executes.
* `sdk/firewall.ts:236-241`: of two reviewers the second may replace the first.
* `audit/audit-engine.ts:6-7`: `verify` finds every deletion but one at the end, which
  `docs/limitations.md` says; `DamageIsLocated` is stated accordingly.
* `providers/github/github-provider.ts:135`: `getState` answers a declared ETag with a 304 without
  metadata, so preconditions on an unchanged issue fail, although "the firewall forces a full
  fetch whenever preconditions are routed" (`docs/limitations.md:31`); a conditional answer about
  a pull request has no `review_status`.
* `github-provider.ts:389`, `532`: a full fetch versions a release by its id, a conditional request by
  its ETag, so the documented version (`docs/providers.md:196`) is refuted.
* `github-provider.ts:410`, `402`: branches, CI statuses and files are dated by the client clock under
  `time_source: server`, so claims about them that carry a time are refuted; the comment in
  `engine/freshness.ts:115-117` excludes client timestamps for that reason.

`UnchangedIsConfirmed` names the kinds it holds for because of the last three. They all fail
closed.

### Fairness

`FairSpec` assumes that time passes and that each continuation the runtime owes a submitted
call eventually runs while its process lives: the event loop does so, store operations settle,
fetches settle or time out (a provider of the user's own is taken to settle too). Nothing is assumed
of executors, reviewers, agents or the world, and `Answer` steps are not fair: the deadline alone
must end a call whose executor hangs. Its timer is unref'd, so the deadline is owed only where
something else keeps the process: the constant `KeptAlive` names these calls. For the others the
exit of the process is a step that is owed as well (`MayExit` in `Owed`), so that either the
deadline or the exit comes, and the code does not say which. Weak fairness is enough, because the
step a call owes stays enabled until it is taken. Store errors are not fair, and the liveness run
has no crashes but that exit.

`AgentFairness` assumes the same of each agent: it takes its next step, and a request that nothing
befalls is answered; an open connection keeps its process alive. Faults, changes by others, stale
reads and late arrivals are not fair.

## 4. Proofs

All theorems hold for every value of the constants under the assumptions named in the
modules (`DecisionFlowAssumption`, `ObservationAssumption`, `ExecuteActionAssumption`,
`AuditChainAssumption`, `PolicyResolutionAssumption`, `ConfigurationAssumption`,
`GitHubAssumption`, `ProtectedAgentAssumption`): any number of calls, action ids, resources,
processes, records, requests, reviewers, agents, policies and changes. These assumptions say what
the values are and nothing of how many; further hypotheses are part of the theorem and named below.

* **Decisions.** `DecisionLemmas` shows that `Decide` is its last stages applied to some
  outcome of the tables (`DecideStages`); `FloorHolds` and `StrictHolds` follow from those stages
  alone, which is why no table can break them. `DecisionFlowProofs` relates verdicts to the
  effective basis (`EffectiveBasisFacts`) and derives the four properties from
  `FlowInv == TypeOK /\ what was never fetched is UNKNOWN`.
* **Observation.** A verdict is a function of the claim, the policy and what was fetched, and
  content follows the version; so what the four invariants need is the type invariant and what the
  operators of Freshness do (`DriftIsNeverUsable`, `FreshIsUnanimous`, `FullFetchOfMoved`).
  `WaitingIsMonotone` is an action property: with the clock alone each component of a verdict can
  only get worse (`OlderIsNoBetter`, `ComponentsOnlyAge`), and the rank of a verdict is monotone in
  its components (`VerdictsOnlyAge`). A claim dated in the future is the one exception, and the
  property says so.
* **Types of ExecuteAction.** `TypeOK` is not inductive: a recomputed verdict has a type only if
  the call has a verdict for each dependency, and the cursor must stay in range. `Typed` adds
  `CallsTyped`: calls past validation hold a verdict for each of their dependencies.
  `TypedStep` goes group by group through the actions.
* **The gate.** Every step of a call is one of five kinds for the gate (`CallGateStep`): it
  passes, claims, starts the executor, releases, or answers. `GateInv == Typed /\
  HolderOwnsAuthorization /\ StartedInTime` is inductive: a claim needs an action id without
  live authorization, so it cannot take one from a holder; only the holder releases.
  `StartedInTime` (no executor before its claim) makes the start happen once. From it follow
  `SingleInFlight`, `ExecutorStartsUnderOwnAuthorization`, `UnsettledAttemptFreezes` and the refinement
  `ImplementsGate`, step kind by step kind.

The other results about ExecuteAction split a step once (`NextSteps`): it is taken for one call
(`StepFor`), and then every other call, its records and its executor stay as they were
(`OthersKeep`), or it is taken by a reviewer, the world or the clock (`Surroundings`). What is left
is one call at a time, with an inductive invariant for each question:

* **Records** (`RecordInv`). `ResultKnown` relates the result a call is about to save, or has saved,
  to the state of its executor from the moment the race with the deadline ends; `OutcomeTold` relates
  the settled promise to it; `Released` says that a call past its settlement holds nothing. The
  properties speak about final states only and say nothing of the steps of settlement, so none of
  them is inductive. Theorems: `RecordsAreTrue`, `RefusalsHaveNoEffect`, `EndsSettled`.
* **Citations** (`CiteInv`). The record of an authorization is replaced by the next claim of its id and
  decisions are saved at two stages, so the argument goes through the call that owns the record: past
  its claim a call stays there and its decisions stay (`PastClaim`), and what a call is about
  to cite it has saved (`Cites`). An escalation is rewritten by a reviewer from what the reviewer
  read, possibly long ago; `ReviewSees` says that a reviewer with a verdict saw an escalation.
  Theorems: `AuthorizationsCite`, `EscalationsCite`.
* **Drift** (`DriftInv`). Versions only grow (`WorldGrows`), so `PastIsKnown`: what a call fetched is
  no later than the world at its claim, and that is no later than now. A recheck that compares equal is
  squeezed between the two, whatever happened in between. Theorem: `DriftIsCaught`.
* **Refuted claims** (`RefuteInv`). Where the outcome of invalid state is deny, a call past its guards
  has a declared version equal to the snapshot (`RefutedStops`, from `InvalidIsDenied`), and the
  condition of the executor is the declared version. Proving it showed that the property as first
  stated was false: a future-dated claim is graded UNKNOWN before its version is compared
  (`engine/freshness.ts:78`), so its condition states a version nobody saw refuted. The instances TLC
  checks have no such claims; `EffectLandsOnDeclaredVersion` now names the exception (`FutureDated`).
* **Approvals** (`ApprovalInv`). A call past `ApprovalGuard` is covered by an approved escalation of
  its operation and dependencies, and stays covered because resolved escalations stay
  (`ResolvedStays`). That holds for the sqlite store with one reviewer, the hypotheses of
  `ApprovalsCover` and `ResolutionsStand`: the memory store overwrites a resolved escalation when
  the id escalates again, and a second reviewer resolves on what was read earlier (section 3). The
  runs have the same two limits for the same reason.
* **Replays** (`GrantInv`). An action property about a call that is submitted for an executed id is
  proved as an invariant from that moment on: the call and every other call of its id are `Doomed`,
  not on the way to another claim, and an id that was granted an authorization keeps
  a record of it (`GrantStays`). Theorem: `ReplaysNeverExecute`.

The remaining components:

* **The audit chain.** `ChainInv == TypeOK /\ LockHeld /\ UntouchedLogVerifies` is inductive.
  `LockHeld` says that the process in a transaction is the one that holds the lock, and that
  what it read last still is the end of the ledger; so the record it commits continues an
  intact chain.
  A change from outside is located because hashes tell their contents apart (`HashTells`) and a
  record's hash is longer than the one it continues (`HashGrows`): the edited row no longer
  has its own hash, and behind a deleted or swapped row another hash is expected. Nothing before the
  row has changed, so it is the first break; and since appends link to the last row whatever happened
  to the others (`InsertLinks`), `DamageIsLocated` is inductive together with `ChainInv`
  (`LocationStays`), for the ledger alone and for the file that sessions share.
* **The shared store.** The ledger's invariant carries over, because a step of SharedStore is a step of
  the ledger or leaves it alone (`SharedLedgerVerifies`). `MigrationsAreAtomic` is not inductive: a
  commit makes the file what the transaction has. The strengthening says what that is: a session
  that migrates holds the lock, and its schema is the one on disk with the statements it has
  executed so far; so a commit adds every statement of its version, and a rollback none.
  What commands tell their callers rests on `SessionInv`, one clause for each way a command could be
  wrong. `TaskOK`: a session has the store it claims and the work of its command, and for `ssf
  check` the list of what is left agrees with the events committed (`CheckProgress`), so the
  end of the list means two events (`ZeroIsAllowed`). `DamageSeen`: damage there was when a verifying
  command started is still there, and located (`VerdictsAreTrue`). `Undisturbed`: a process that opens the
  store and has met nobody is alone, and nobody has recorded the version it migrates; then every part
  its statements create is missing from the file (`NoConflict`, with `MigrationsAreAtomic`).
  `WriterWorks`: the lock is held by a process at work, never by a dead one, so a process that is
  alone never times out (`UncontendedOpens`).
* **Policies.** `BestSoFar` is the loop invariant of the scan: before the cursor, `best` is the first
  of the most specific candidates, and `bestScore` its score. At the end of the loop it is
  `ScanKeepsPrecedence`. `PolicyNeverLowersRisk` adds that the risk is the maximum of two risks
  (`MaxRiskBounds`) and that a selected policy matched, so that its floor is at most the base risk.
  It compares with the base risk, whatever its source; an undefined one is the case of a rule
  without a level (`BaseRiskType`, `RankFollows`).
  Both are proved for PolicyResolution alone and for the policies of any file that starts.
* **The configuration.** `StartupInvariant` relates the stages: the file is the normalisation of what
  was written, past validation it is accepted, past resolution it is resolvable, and what runs is
  its resolution, over which the invariant of the scan holds. From it follow two statements about
  every file: `AllowNeedsAcknowledgment`, because resolution picks between the two names of a
  default as validation did (`DefaultsDoNotAllow`), and `EnginesGetTheirDomain`, section by section
  (`FreshnessResolves`, `DeadlineResolves`, `PreconditionEvaluates`), with the exception it states: the
  risk of an intent that a rule without a level matches first may have no rank.
* **The GitHub provider.** `AnswerInvariant == TypeOK /\ History /\ ClaimCitesSeen`. `History`: the
  agent read an earlier state of the resource, and the page tells its states apart (a page seen
  before is the page now only if nothing the version stands for changed). `ClaimCitesSeen`: a
  declared version is one of the versions of what the agent read, whichever request answered it.
  Signals of one origin are injective and signals of two origins differ (`SignalsAreInjective`), so
  an answer that confirms the claim (`FetchCites`, `FreshNeedsVersion`) is about what was read:
  `ConfirmedMeansUnchanged`. `History` is what makes a 304 mean anything: without it an ETag could
  stand for two states. The converse, `Unrefuted`, needs the times as well: `DatedInvariant` adds
  `TimesPast`, that nothing is dated in the future and that a dated claim is no older than the update
  time the agent read; otherwise an unchanged resource could look changed after its observation.
* **Protected tools.** `IInv == TypeOK /\ GuidanceInv /\ BasisInv /\ OnceInv`. `GuidanceInv`: what the
  caller of a tool is told of the effect agrees with it while an answer is on its way and after, and
  a denial is told only to an attempt without a request on its way. `BasisInv`: a request states what
  was authorized, also a late one (`Conditioned`), so a mutation that a server accepted under it is at
  the revision authorized; under a policy that denies refuted claims (`Denying`) that is the revision
  observed. `OnceInv` needs the same hypothesis: once a change is applied, every request of that
  agent, on its way or to come, rests on a revision the change has left behind, and the agent is
  `Aware` that it has to look. The awareness is what keeps a fresh observation from making the change
  acceptable a second time. A policy that adopts makes a basis of any revision, without a fresh
  observation, and both arguments end there.

Some theorems state what no run checks separately: `SingleInFlight`,
`ExecutorStartsUnderOwnAuthorization` and the type invariants are steps towards, or consequences of,
properties that the runs do check.

Only model-checked: liveness (`EveryCallEnds`, `EveryExecutionIsRecorded`,
`RecoveryTerminates`), which is beyond the prover. Theorems state all the other invariants and
action properties of the passing runs.

## 5. Plan

1. *Done:* freshness, decisions, the enforcement boundary and its gate, the audit chain, policy
   resolution, the GitHub provider's answers; configuration and preconditions, the command line over
   a shared store with its migrations, protected tools against HTTP servers.
2. Models: the two requests of a GitHub fetch as two steps, and `conditionalExecute` of files; freshness overrides per dependency.
3. Proofs: the refinement of an abstract append-only ledger by AuditChain; what `ssf check` leaves in the
   ledger when it fails half-way.

### Not modelled

* `redaction/`, `logging/`, `telemetry/`, `cli/output.ts`: output that nothing in the program reads
  back. What redaction means for approvals is the set `Arguments` of ExecuteAction.
* `domain/events.ts`: a synchronous dispatcher without state of its own but its handlers; nothing in
  the repository subscribes to change what the firewall does.
* `engine/hashing.ts`: canonical JSON is taken to be injective, and hashes to be ideal.
* The parsing of command line arguments, of durations and of globs: a value is what parsing makes of it.
* The dogfood harness, the benchmarks, the examples: programs that use or measure the firewall. The
  agent and the servers of the dogfood runs are the environment of ProtectedAgent.
