--------------------------- MODULE ProtectedAgent ---------------------------
(***************************************************************************)
(* Agents that change one HTTP resource through createProtectedTool and    *)
(* follow the recovery guidance they get (src/sdk/protected-tool.ts,       *)
(* src/domain/recovery.ts, src/providers/http/http-provider.ts), against   *)
(* the servers of dogfood/scripts/sandbox-http-server.mjs.  A request may  *)
(* be answered, lost, or handled long after its sender gave up on it; each *)
(* attempt is a new action, so nothing in the store links two attempts.    *)
(*                                                                         *)
(* What happens inside one execution (claims, deadlines, records) is the   *)
(* subject of ExecuteAction; here an execution is its verdict, its request *)
(* and the guidance the agent is given.                                    *)
(***************************************************************************)
EXTENDS Naturals, FiniteSets

CONSTANTS
    Agents,         \* each wants one change of its own made to the resource, once
    Conditional,    \* the agents whose tool has conditionalRun; the others have only run
    Deployments,    \* the version signal of the server, how it treats a mutation, and whether
                    \* the policy denies refuted claims or adopts what it finds instead
    MaxChanges,     \* changes made by others
    MaxFaults       \* faults of the network, the server and the agent's patience

ASSUME ProtectedAgentAssumption ==
    /\ Conditional \subseteq Agents
    /\ Deployments \subseteq [signal : {"etag", "weak", "field", "modified", "none"},
                               kind : {"honours", "ignores", "see_other"},
                               refuted : {"denied", "adopted"}]
    /\ MaxChanges \in Nat
    /\ MaxFaults \in Nat

VARIABLES
    deployment, \* the server, and the policy on refuted claims: fixed by their operators
    revision,   \* of the resource; every mutation makes a new one
    mutations,  \* the agents' mutations that were applied
    late,       \* requests on their way whose sender has given up
    agent,      \* what each agent is doing and believes
    changes,    \* made by others so far
    faults      \* so far

vars == <<deployment, revision, mutations, late, agent, changes, faults>>

-----------------------------------------------------------------------------
(* Version signals and the condition of a mutation. *)

\* snapshotFrom: the configured extraction, else the ETag, else Last-Modified, else
\* nothing.  Last-Modified counts seconds: two revisions may fall into one.
VersionOf(signal, rev) ==
    CASE signal = "none" -> <<>>
      [] signal = "modified" -> <<signal, rev \div 2>>
      [] OTHER -> <<signal, rev>>

MutantReadsAgain(a) == VersionOf(deployment.signal, revision)

\* buildExpectedState, and protected-tool's conditionalRun: the version forwarded as
\* If-Match is the authorized one.  `seen` is what the agent observed, `authorized` what
\* the validation fetched.  Without a version the header says "null", which no server
\* takes for a current version.
ForwardedVersion(a) == VersionOf(deployment.signal, agent[a].authorized)

\* The server: If-Match compares ETags, strongly.
IfMatchHolds(version) == version = <<"etag", revision>>

\* What validateAction compares when it fetched revision rev: the version, or without one
\* the content hash.
Drifted(a, rev) ==
    IF deployment.signal = "none" THEN agent[a].seen # rev
    ELSE VersionOf(deployment.signal, agent[a].seen) # VersionOf(deployment.signal, rev)

-----------------------------------------------------------------------------
(* Guidance. *)

\* side_effect_possible of RETRY_SEMANTICS and HUMAN_REVIEW_GUIDANCE, for the kinds that
\* reach the caller of a tool.
SideEffectPossible(kind) == kind = "unknown_execution_outcome"

\* A fault of a conditional execution is reported like one of a plain execution.
MutantReportsFailure(a, answer) ==
    CASE answer = "2xx" -> "success"
      [] answer = "refused" -> "condition_failed"
      [] answer = "fault" -> "provider_failure"
      [] answer = "deadline" -> "unknown_execution_outcome"

\* A deadline is reported like an answer that says nothing happened.
MutantReportsRefusal(a, answer) ==
    CASE answer = "2xx" -> "success"
      [] answer \in {"refused", "deadline"} -> "condition_failed"
      [] answer = "fault" -> "unknown_execution_outcome"

\* The result of an execution: conditionalExecute maps the answer of the server, and
\* executeConditionally or the plain path of executeAction maps that.
Outcome(a, answer) ==
    CASE answer = "2xx" -> "success"
      [] answer = "refused" -> "condition_failed"
      [] answer = "fault" ->
            IF a \in Conditional THEN "unknown_execution_outcome" ELSE "provider_failure"
      [] answer = "deadline" -> "unknown_execution_outcome"

\* BlockedActionError without an execution result.
BlockedGuidance(decision) == IF decision = "ESCALATE" THEN "human_review" ELSE "policy_blocked"

MutantRerunsWhenBlocked(told) ==
    CASE told = "success" -> "done"
      [] told = "human_review" -> "held"
      [] told \in {"provider_failure", "policy_blocked"} -> "submit"
      [] OTHER -> "observe"

\* The next_steps: after a provider failure re-run the action as it is, after an unknown
\* outcome, a refusal or a block observe the resource first.
NextStep(told) ==
    CASE told = "success" -> "done"
      [] told = "human_review" -> "held"
      [] told = "provider_failure" -> "submit"
      [] OTHER -> "observe"

-----------------------------------------------------------------------------
(* State. *)

\* `applied` and `serial` are history: whether the request of the current attempt was
\* applied, and which one it is once the attempt gave it up (0 before).
Starting ==
    [pc |-> "observe", seen |-> 0, authorized |-> 0, inspects |-> FALSE, version |-> <<>>,
     answer |-> "none", applied |-> FALSE, serial |-> 0, told |-> "none"]

AgentInit ==
    /\ deployment \in Deployments
    /\ revision = 1
    /\ mutations = {}
    /\ late = {}
    /\ agent = [a \in Agents |-> Starting]
    /\ changes = 0
    /\ faults = 0

At(a, pc) == agent[a].pc = pc

\* `serial` names the request that the attempt leaves on its way, if any.
Tell(a, told, serial) ==
    agent' = [agent EXCEPT ![a].pc = "told", ![a].told = told, ![a].answer = "none",
                           ![a].version = <<>>, ![a].authorized = 0, ![a].serial = serial]

MayFault == faults < MaxFaults /\ faults' = faults + 1

World == <<deployment, revision, mutations, late, changes>>

OwnMutations(a) == {m \in mutations : m.agent = a}

\* A read is answered with the current revision, or with an older one out of a cache of
\* the service; how often that happens is bounded like the faults.
Reads(rev) ==
    \/ rev = revision /\ UNCHANGED faults
    \/ rev \in 1..(revision - 1) /\ MayFault

-----------------------------------------------------------------------------
(* One attempt: observe, submit, send, be answered, be told. *)

\* The agent reads the resource; if an earlier outcome was unknown, it looks for its own
\* change in what it read.
Observe(a) ==
    /\ At(a, "observe")
    /\ \E rev \in 1..revision :
           /\ Reads(rev)
           /\ LET found == \E m \in OwnMutations(a) : m.at < rev
              IN  agent' = [agent EXCEPT
                      ![a].pc = IF agent[a].inspects /\ found THEN "done" ELSE "submit",
                      ![a].seen = rev]
    /\ UNCHANGED World

\* executeAction up to the authorization: validation finds the resource as the agent
\* declared it, or it finds another version, which a policy with on_invalid: revalidate,
\* or the OBSERVE mode, makes the basis of the decision in the same call.
Authorize(a) ==
    /\ At(a, "submit")
    /\ \E rev \in 1..revision :
           /\ Reads(rev)
           /\ Drifted(a, rev) => deployment.refuted = "adopted"
           /\ agent' = [agent EXCEPT ![a].pc = "send", ![a].authorized = rev]
    /\ UNCHANGED World

Blocked(a) == \E d \in {"DENY", "REVALIDATE", "ESCALATE"} : Tell(a, BlockedGuidance(d), 0)

\* Another version blocks the action if the policy denies refuted claims, and may block it
\* if it does not: the preconditions are evaluated again on what was found.
Block(a) ==
    /\ At(a, "submit")
    /\ \E rev \in 1..revision : Reads(rev) /\ Drifted(a, rev)
    /\ Blocked(a)
    /\ UNCHANGED World

\* Validation cannot fetch the resource.  Where that is let pass there is no version to
\* forward, and the plain path ends at the recheck.
FetchFails(a) ==
    /\ At(a, "submit")
    /\ MayFault
    /\ Blocked(a)
    /\ UNCHANGED World

\* Before the plain path the state is fetched again and compared with the authorized one.
\* (Policies that switch this off are not modelled.)
Recheck(a) ==
    /\ At(a, "send")
    /\ a \notin Conditional
    /\ \E rev \in 1..revision : Reads(rev) /\ rev # agent[a].authorized
    /\ Tell(a, BlockedGuidance("DENY"), 0)
    /\ UNCHANGED World

RecheckFails(a) ==
    /\ At(a, "send")
    /\ a \notin Conditional
    /\ MayFault
    /\ Tell(a, BlockedGuidance("DENY"), 0)
    /\ UNCHANGED World

\* A plain tool sends its request without a condition, when the recheck finds what was
\* authorized.
Send(a) ==
    /\ At(a, "send")
    /\ IF a \in Conditional THEN UNCHANGED faults ELSE Reads(agent[a].authorized)
    /\ agent' = [agent EXCEPT
           ![a].pc = "wait",
           ![a].version = IF a \in Conditional THEN ForwardedVersion(a) ELSE <<"any">>]
    /\ UNCHANGED World

Accepts(version) == version = <<"any">> \/ deployment.kind = "ignores" \/ IfMatchHolds(version)

Apply(a, seen, authorized) ==
    /\ revision' = revision + 1
    /\ mutations' = mutations \cup
           {[agent |-> a, seen |-> seen, authorized |-> authorized, at |-> revision]}

\* The server handles the request and its answer arrives.
Answered(a) ==
    /\ At(a, "wait")
    /\ agent[a].answer = "none"
    /\ IF Accepts(agent[a].version)
       THEN /\ Apply(a, agent[a].seen, agent[a].authorized)
            /\ agent' = [agent EXCEPT ![a].applied = TRUE, ![a].answer = "2xx"]
       ELSE /\ agent' = [agent EXCEPT ![a].answer = "refused"]
            /\ UNCHANGED <<revision, mutations>>
    /\ UNCHANGED <<deployment, late, changes, faults>>

\* An applied mutation that is answered 303 makes fetch follow with a GET that still
\* carries If-Match, and no longer matches.
Redirected(a) ==
    /\ deployment.kind = "see_other"
    /\ a \in Conditional
    /\ At(a, "wait")
    /\ agent[a].answer = "none"
    /\ Accepts(agent[a].version)
    /\ MayFault
    /\ Apply(a, agent[a].seen, agent[a].authorized)
    /\ agent' = [agent EXCEPT ![a].applied = TRUE, ![a].answer = "refused"]
    /\ UNCHANGED <<deployment, late, changes>>

\* The connection fails or the server answers 5xx, before or after it acts.
Fails(a) ==
    /\ At(a, "wait")
    /\ agent[a].answer = "none"
    /\ MayFault
    /\ \/ /\ Accepts(agent[a].version)
          /\ Apply(a, agent[a].seen, agent[a].authorized)
          /\ agent' = [agent EXCEPT ![a].applied = TRUE, ![a].answer = "fault"]
       \/ /\ agent' = [agent EXCEPT ![a].answer = "fault"]
          /\ UNCHANGED <<revision, mutations>>
    /\ UNCHANGED <<deployment, late, changes>>

Learn(a) ==
    /\ At(a, "wait")
    /\ agent[a].answer # "none"
    /\ Tell(a, Outcome(a, agent[a].answer), 0)
    /\ UNCHANGED <<World, faults>>

\* The deadline passes, or for a conditional mutation the timeout of the provider, which
\* is told in the same way.  The request stays on its way.
GiveUp(a) ==
    /\ At(a, "wait")
    /\ MayFault
    /\ IF agent[a].answer # "none"
       THEN late' = late /\ Tell(a, Outcome(a, "deadline"), 0)
       ELSE /\ late' = late \cup {[agent |-> a, seen |-> agent[a].seen,
                                   authorized |-> agent[a].authorized,
                                   version |-> agent[a].version, serial |-> faults']}
            /\ Tell(a, Outcome(a, "deadline"), faults')
    /\ UNCHANGED <<deployment, revision, mutations, changes>>

\* A request that was given up arrives; nobody waits for the answer.
ArriveLate(r) ==
    /\ late' = late \ {r}
    /\ IF Accepts(r.version)
       THEN /\ Apply(r.agent, r.seen, r.authorized)
            /\ agent' = [agent EXCEPT
                   ![r.agent].applied = @ \/ agent[r.agent].serial = r.serial]
       ELSE UNCHANGED <<revision, mutations, agent>>
    /\ UNCHANGED <<deployment, changes, faults>>

\* What the agent does with what it was told.  That an outcome was unknown is remembered
\* for all later attempts.
Recover(a) ==
    /\ At(a, "told")
    /\ LET told == agent[a].told
       IN  agent' = [agent EXCEPT
               ![a].pc = NextStep(told), ![a].told = "none", ![a].applied = FALSE,
               ![a].serial = 0,
               ![a].seen = IF NextStep(told) = "submit" THEN @ ELSE 0,
               ![a].inspects = @ \/ SideEffectPossible(told)]
    /\ UNCHANGED <<World, faults>>

\* Someone else changes the resource.
Change ==
    /\ changes < MaxChanges
    /\ changes' = changes + 1
    /\ revision' = revision + 1
    /\ UNCHANGED <<deployment, mutations, late, agent, faults>>

Finished == \A a \in Agents : agent[a].pc \in {"done", "held"}

Step(a) ==
    Observe(a) \/ Authorize(a) \/ Block(a) \/ Recheck(a) \/ Send(a) \/ Answered(a)
        \/ Learn(a) \/ Recover(a)

Fault(a) == FetchFails(a) \/ RecheckFails(a) \/ Redirected(a) \/ Fails(a) \/ GiveUp(a)

AgentNext ==
    \/ \E a \in Agents : Step(a) \/ Fault(a)
    \/ \E r \in late : ArriveLate(r)
    \/ Change
    \/ Finished /\ UNCHANGED vars

\* Agents go on, and a request that nothing befalls is answered: the open connection keeps
\* the process alive, the deadline of the code bounds the wait, and MaxFaults the number of
\* deadlines that pass.  Nothing is assumed of faults, changes and late requests.
AgentFairness == \A a \in Agents : WF_vars(Step(a))

AgentSpec == AgentInit /\ [][AgentNext]_vars /\ AgentFairness

-----------------------------------------------------------------------------
(* Properties. *)

\* Where refuted claims are denied, an agent that follows its guidance, and looks for its
\* change once an outcome was unknown, has it applied at most once by a server that honours
\* If-Match: also when a request it gave up arrives between two attempts, and when the
\* attempt after that is refused or blocked with guidance that says nothing happened.
\* (Where what is found is adopted, the arrival is a drift like any other, and the second
\* attempt is authorized on top of it.)
AppliedAtMostOnce ==
    deployment.kind = "honours" /\ deployment.refuted = "denied" =>
        \A a \in Conditional : Cardinality(OwnMutations(a)) <= 1

\* Such a server applies a conditional mutation to the very revision that was authorized,
\* whatever the signal, however late the request arrives; and where refuted claims are
\* denied, that is the revision the agent observed when it decided on the change.
EffectLandsOnObserved ==
    deployment.kind = "honours" =>
        \A m \in mutations : m.agent \in Conditional =>
            /\ m.authorized = m.at
            /\ deployment.refuted = "denied" => m.seen = m.at

\* What an agent is told is true of its attempt: a success was applied, and guidance that
\* denies a side effect is given only when there is none, and no request of the attempt is
\* left on its way that could still make one.
\* (The code trusts the word of a plain tool that fails: the guidance after its failure is
\* not covered.  Nor is a server that answers an applied mutation with a redirect.)
GuidanceIsTrue ==
    \A a \in Agents :
        At(a, "told") =>
            LET told == agent[a].told
            IN  /\ told = "success" => agent[a].applied
                /\ (/\ told # "success"
                    /\ ~SideEffectPossible(told)
                    /\ a \in Conditional \/ told # "provider_failure"
                    /\ deployment.kind # "see_other")
                   => /\ ~agent[a].applied
                      /\ \A r \in late : r.agent = a => r.serial # agent[a].serial

\* When the resource carries an ETag, following the guidance ends: with the change made
\* or with a human asked.
RecoveryTerminates ==
    deployment.signal = "etag" => \A a \in Agents : <>(agent[a].pc \in {"done", "held"})

=============================================================================
