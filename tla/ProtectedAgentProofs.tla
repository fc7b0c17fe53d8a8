------------------------- MODULE ProtectedAgentProofs -------------------------
(***************************************************************************)
(* Proofs about ProtectedAgent: what an agent is told is true of its       *)
(* attempt, and against a server that honours If-Match a conditional       *)
(* mutation lands on the authorized revision; where refuted claims are     *)
(* denied, on the one the agent observed, and only once.                   *)
(***************************************************************************)
EXTENDS ProtectedAgent, Sequences, FiniteSetTheorems, TLAPS

-----------------------------------------------------------------------------
(* The type invariant. *)

Signals == {"etag", "weak", "field", "modified", "none"}

\* No version, the unconditional request, or what a signal says of a revision.
Versions == {<<>>, <<"any">>} \cup (Signals \X Nat)

Tellings == {"none", "success", "condition_failed", "unknown_execution_outcome",
             "provider_failure", "human_review", "policy_blocked"}

Attempts ==
    [pc : {"observe", "submit", "send", "wait", "told", "done", "held"},
     seen : Nat, authorized : Nat, inspects : BOOLEAN, version : Versions,
     answer : {"none", "2xx", "refused", "fault"}, applied : BOOLEAN, serial : Nat,
     told : Tellings]

TypeOK ==
    /\ deployment \in [signal : Signals, kind : {"honours", "ignores", "see_other"},
                      refuted : {"denied", "adopted"}]
    /\ revision \in Nat
    /\ mutations \subseteq [agent : Agents, seen : Nat, authorized : Nat, at : Nat]
    /\ late \subseteq [agent : Agents, seen : Nat, authorized : Nat, version : Versions,
                      serial : Nat]
    /\ agent \in [Agents -> Attempts]
    /\ changes \in Nat
    /\ faults \in Nat

-----------------------------------------------------------------------------
(* The inductive invariants. *)

\* What the caller of a tool is told, and what it may believe of the attempt.  An attempt
\* that leaves a request on its way was told that its outcome is unknown.
GuidanceInv ==
    /\ \A r \in late : r.serial # 0
    /\ \A a \in Agents :
        /\ agent[a].serial # 0 =>
               agent[a].pc = "told" /\ agent[a].told = "unknown_execution_outcome"
        /\ agent[a].pc # "wait" => agent[a].answer = "none"
        /\ agent[a].pc \in {"observe", "submit", "send"} => ~agent[a].applied
        /\ agent[a].pc = "wait" =>
               /\ agent[a].answer = "none" => ~agent[a].applied
               /\ agent[a].answer = "2xx" => agent[a].applied
               /\ (agent[a].answer = "refused" /\ deployment.kind # "see_other")
                      => ~agent[a].applied
        /\ agent[a].pc = "told" =>
               /\ agent[a].told = "success" => agent[a].applied
               /\ (/\ agent[a].told \in {"condition_failed", "human_review", "policy_blocked"}
                   /\ deployment.kind # "see_other") => ~agent[a].applied
               /\ a \in Conditional => agent[a].told # "provider_failure"
               /\ agent[a].told # "none"

\* A condition that an ETag comparison accepts at one revision only.
Conditioned(version, rev) ==
    version \in {<<>>, <<"etag", rev>>} \/ version \in (Signals \ {"etag"}) \X Nat

Denying == deployment.refuted = "denied"

\* Every conditional request states what was authorized; where refuted claims are denied,
\* an authorized attempt did not drift, and the request states what its agent observed.
BasisInv ==
    /\ Denying => \A a \in Agents : agent[a].pc = "send" => ~Drifted(a, agent[a].authorized)
    /\ \A a \in Conditional : agent[a].pc = "wait" =>
           /\ Conditioned(agent[a].version, agent[a].authorized)
           /\ Denying => Conditioned(agent[a].version, agent[a].seen)
    /\ \A r \in late : r.agent \in Conditional =>
           /\ Conditioned(r.version, r.authorized)
           /\ Denying => Conditioned(r.version, r.seen)
    /\ deployment.kind = "honours" =>
           \A m \in mutations : m.agent \in Conditional =>
               m.authorized = m.at /\ (Denying => m.seen = m.at)

\* The agent has to look for its change, will be told to, or knows that it is done.
Aware(a) ==
    \/ agent[a].inspects
    \/ agent[a].pc = "done"
    \/ agent[a].pc = "told" /\ agent[a].told \in {"success", "unknown_execution_outcome"}
    \/ agent[a].pc = "wait" /\ agent[a].answer \in {"2xx", "fault"}

\* What AppliedAtMostOnce asks of the deployment.
Careful == deployment.kind = "honours" /\ Denying

\* Once a change of an agent is applied, all its requests and attempts rest on
\* revisions that the change has left behind.
OnceInv ==
    /\ \A m \in mutations : m.at < revision
    /\ \A r \in late : r.seen <= revision
    /\ \A a \in Agents : agent[a].seen <= revision
    /\ Careful =>
           /\ \A m, n \in mutations :
                  (m.agent = n.agent /\ m.agent \in Conditional) => m = n
           /\ \A m \in mutations : m.agent \in Conditional =>
                  /\ Aware(m.agent)
                  /\ agent[m.agent].pc # "done" => agent[m.agent].seen <= m.at
           /\ \A r \in late : r.agent \in Conditional =>
                  /\ Aware(r.agent)
                  /\ \A m \in mutations : m.agent = r.agent => r.seen <= m.at

-----------------------------------------------------------------------------
(* The types. *)

\* What a signal says of a revision is a version, and never the wildcard.
LEMMA VersionOfType ==
    ASSUME NEW signal \in Signals, NEW rev \in Nat
    PROVE  VersionOf(signal, rev) \in {<<>>} \cup (Signals \X Nat)
<1>1. rev \div 2 \in Nat
  OBVIOUS
<1> HIDE DEF Signals
<1>2. signal \in Signals /\ "modified" \in Signals
  BY DEF Signals
<1> QED
  BY <1>1, <1>2 DEF VersionOf

\* Fields of an attempt can change together.
LEMMA AttemptFields ==
    ASSUME NEW s \in Attempts
    PROVE  /\ \A pc \in {"done", "submit"}, rev \in Nat :
                  [s EXCEPT !.pc = pc, !.seen = rev] \in Attempts
           /\ \A rev \in Nat : [s EXCEPT !.pc = "send", !.authorized = rev] \in Attempts
           /\ \A version \in Versions : [s EXCEPT !.pc = "wait", !.version = version] \in Attempts
           /\ \A told \in Tellings, serial \in Nat :
                  [s EXCEPT !.pc = "told", !.told = told, !.answer = "none",
                            !.version = <<>>, !.authorized = 0, !.serial = serial] \in Attempts
           /\ \A pc \in {"done", "held", "submit", "observe"}, seen \in Nat, inspects \in BOOLEAN :
                  [s EXCEPT !.pc = pc, !.told = "none", !.applied = FALSE, !.serial = 0,
                            !.seen = seen, !.inspects = inspects] \in Attempts
<1> USE DEF Attempts
<1>1. \A pc \in {"done", "submit"}, rev \in Nat : [s EXCEPT !.pc = pc, !.seen = rev] \in Attempts
  OBVIOUS
<1>2. \A rev \in Nat : [s EXCEPT !.pc = "send", !.authorized = rev] \in Attempts
  OBVIOUS
<1>3. \A version \in Versions : [s EXCEPT !.pc = "wait", !.version = version] \in Attempts
  OBVIOUS
<1>4. \A told \in Tellings, serial \in Nat :
          [s EXCEPT !.pc = "told", !.told = told, !.answer = "none",
                    !.version = <<>>, !.authorized = 0, !.serial = serial] \in Attempts
  <2>1. <<>> \in Versions
    BY DEF Versions
  <2> QED
    BY <2>1
<1>5. \A pc \in {"done", "held", "submit", "observe"}, seen \in Nat, inspects \in BOOLEAN :
          [s EXCEPT !.pc = pc, !.told = "none", !.applied = FALSE, !.serial = 0,
                    !.seen = seen, !.inspects = inspects] \in Attempts
  <2>1. "none" \in Tellings
    BY DEF Tellings
  <2> QED
    BY <2>1
<1> HIDE DEF Attempts
<1> QED
  BY <1>1, <1>2, <1>3, <1>4, <1>5, Zenon

\* The deadline is told as an unknown outcome, and names the request if it is on its way.
LEMMA GiveUpTells ==
    ASSUME TypeOK, NEW a \in Agents, GiveUp(a)
    PROVE  /\ agent[a].pc = "wait"
           /\ faults' \in Nat \ {0}
           /\ \E serial \in Nat : Tell(a, "unknown_execution_outcome", serial)
<1>1. faults' \in Nat \ {0}
  BY DEF GiveUp, MayFault, TypeOK
<1>2. Outcome(a, "deadline") = "unknown_execution_outcome"
  BY DEF Outcome
<1> QED
  BY <1>1, <1>2 DEF GiveUp, At

\* The steps of one agent change nothing of another.
LEMMA OthersRest ==
    ASSUME TypeOK, NEW a \in Agents, Step(a) \/ Fault(a)
    PROVE  /\ agent' \in [Agents -> Attempts]
           /\ \A b \in Agents \ {a} : agent'[b] = agent[b]
<1>0. agent[a] \in Attempts
  BY DEF TypeOK
<1> USE DEF TypeOK
<1>1. CASE Observe(a)
  <2>1. PICK rev \in 1..revision, pc \in {"done", "submit"} :
            agent' = [agent EXCEPT ![a] = [agent[a] EXCEPT !.pc = pc, !.seen = rev]]
    BY <1>1 DEF Observe
  <2>2. rev \in Nat
    BY <2>1
  <2>3. [agent[a] EXCEPT !.pc = pc, !.seen = rev] \in Attempts
    BY <1>0, <2>2, AttemptFields
  <2> QED
    BY <2>1, <2>3
<1>2. CASE Authorize(a)
  <2>1. PICK rev \in 1..revision :
            agent' = [agent EXCEPT ![a] = [agent[a] EXCEPT !.pc = "send", !.authorized = rev]]
    BY <1>2 DEF Authorize
  <2>2. rev \in Nat
    BY <2>1
  <2>3. [agent[a] EXCEPT !.pc = "send", !.authorized = rev] \in Attempts
    BY <1>0, <2>2, AttemptFields
  <2> QED
    BY <2>1, <2>3
<1>3. ASSUME NEW told \in Tellings, NEW serial \in Nat, Tell(a, told, serial)
      PROVE  agent' \in [Agents -> Attempts] /\ \A b \in Agents \ {a} : agent'[b] = agent[b]
  <2> DEFINE new == [agent[a] EXCEPT !.pc = "told", !.told = told, !.answer = "none",
                                     !.version = <<>>, !.authorized = 0, !.serial = serial]
  <2>1. new \in Attempts
    BY <1>0, AttemptFields
  <2>2. agent' = [agent EXCEPT ![a] = new]
    BY <1>3 DEF Tell
  <2> HIDE DEF new
  <2> QED
    BY <2>1, <2>2
<1>4. CASE Block(a) \/ FetchFails(a)
  BY <1>3, <1>4 DEF Block, FetchFails, Blocked, BlockedGuidance, Tellings
<1>5. CASE Recheck(a) \/ RecheckFails(a)
  BY <1>3, <1>5 DEF Recheck, RecheckFails, BlockedGuidance, Tellings
<1>6. CASE Send(a)
  <2>0. agent[a].authorized \in Nat /\ deployment.signal \in Signals
    BY <1>0 DEF Attempts
  <2>1. ForwardedVersion(a) \in Versions /\ <<"any">> \in Versions
    <3>1. VersionOf(deployment.signal, agent[a].authorized) \in {<<>>} \cup (Signals \X Nat)
      BY <2>0, VersionOfType
    <3> QED
      BY <3>1 DEF ForwardedVersion, Versions
  <2>2. PICK version \in Versions :
            agent' = [agent EXCEPT ![a] = [agent[a] EXCEPT !.pc = "wait", !.version = version]]
    BY <1>6, <2>1 DEF Send
  <2>3. [agent[a] EXCEPT !.pc = "wait", !.version = version] \in Attempts
    BY <1>0, AttemptFields
  <2> QED
    BY <2>2, <2>3
<1>7. CASE Answered(a)
  BY <1>7 DEF Answered, Attempts
<1>8. CASE Learn(a)
  <2>1. agent[a].answer \in {"none", "2xx", "refused", "fault"}
    BY <1>0 DEF Attempts
  <2>2. Outcome(a, agent[a].answer) \in Tellings
    BY <1>8, <2>1 DEF Learn, At, Outcome, Tellings
  <2> QED
    BY <1>3, <1>8, <2>2 DEF Learn
<1>9. CASE Recover(a)
  <2>1. NextStep(agent[a].told) \in {"done", "held", "submit", "observe"}
    BY DEF NextStep
  <2>2. SideEffectPossible(agent[a].told) \in BOOLEAN
    BY DEF SideEffectPossible
  <2> DEFINE told == agent[a].told
             seen == IF NextStep(told) = "submit" THEN agent[a].seen ELSE 0
             inspects == agent[a].inspects \/ SideEffectPossible(told)
             new == [agent[a] EXCEPT !.pc = NextStep(told), !.told = "none",
                                     !.applied = FALSE, !.serial = 0, !.seen = seen,
                                     !.inspects = inspects]
  <2>3. agent' = [agent EXCEPT ![a] = new]
    BY <1>9 DEF Recover
  <2>4. seen \in Nat /\ inspects \in BOOLEAN
    BY <1>0, <2>2 DEF Attempts
  <2> HIDE DEF told, seen, inspects
  <2>5. NextStep(told) \in {"done", "held", "submit", "observe"}
    BY <2>1 DEF told
  <2>6. new \in Attempts
    BY <1>0, <2>4, <2>5, AttemptFields
  <2> HIDE DEF new
  <2> QED
    BY <2>3, <2>6
<1>10. CASE Redirected(a)
  BY <1>10 DEF Redirected, Attempts
<1>11. CASE Fails(a)
  BY <1>11 DEF Fails, Attempts
<1>12. CASE GiveUp(a)
  BY <1>3, <1>12, GiveUpTells DEF Tellings
<1> QED
  BY <1>1, <1>2, <1>4, <1>5, <1>6, <1>7, <1>8, <1>9, <1>10, <1>11, <1>12
     DEF Step, Fault

\* A late request that arrives changes nothing of an attempt but what was applied, and
\* that only for the attempt that gave it up.
LEMMA ArriveFields ==
    ASSUME TypeOK, NEW r \in late, ArriveLate(r)
    PROVE  /\ agent' \in [Agents -> Attempts]
           /\ \A a \in Agents :
                  /\ agent'[a].pc = agent[a].pc
                  /\ agent'[a].seen = agent[a].seen
                  /\ agent'[a].authorized = agent[a].authorized
                  /\ agent'[a].inspects = agent[a].inspects
                  /\ agent'[a].version = agent[a].version
                  /\ agent'[a].answer = agent[a].answer
                  /\ agent'[a].serial = agent[a].serial
                  /\ agent'[a].told = agent[a].told
                  /\ agent[a].applied => agent'[a].applied
                  /\ agent[a].serial # r.serial => agent'[a].applied = agent[a].applied
<1>1. CASE agent' = agent
  BY <1>1 DEF TypeOK
<1>2. CASE agent' = [agent EXCEPT ![r.agent].applied = @ \/ agent[r.agent].serial = r.serial]
  <2>1. r.agent \in Agents /\ agent \in [Agents -> Attempts]
    BY DEF TypeOK
  <2> DEFINE applied == agent[r.agent].applied \/ agent[r.agent].serial = r.serial
             new == [agent[r.agent] EXCEPT !.applied = applied]
  <2>2. applied \in BOOLEAN
    BY <2>1 DEF Attempts
  <2>3. agent' = [agent EXCEPT ![r.agent] = new]
    BY <1>2
  <2>4. agent[r.agent].serial # r.serial => applied = agent[r.agent].applied
    BY <2>1 DEF Attempts
  <2>5. agent[r.agent].applied => applied
    OBVIOUS
  <2> HIDE DEF applied
  <2> QED
    BY <2>1, <2>2, <2>3, <2>4, <2>5 DEF Attempts
<1> QED
  BY <1>1, <1>2 DEF ArriveLate

\* Every step keeps the types.
LEMMA TypeInductive == TypeOK /\ [AgentNext]_vars => TypeOK'
<1> SUFFICES ASSUME TypeOK, [AgentNext]_vars PROVE TypeOK'
  OBVIOUS
<1>1. ASSUME NEW a \in Agents, Step(a) \/ Fault(a) PROVE TypeOK'
  <2>1. agent' \in [Agents -> Attempts]
    BY <1>1, OthersRest
  <2>2. deployment' = deployment
    BY <1>1 DEF Step, Fault, Observe, Authorize, Block, Recheck, Send, Answered,
        Learn, Recover, FetchFails, RecheckFails, Redirected, Fails, GiveUp, World
  <2>3. changes' = changes
    BY <1>1 DEF Step, Fault, Observe, Authorize, Block, Recheck, Send, Answered,
        Learn, Recover, FetchFails, RecheckFails, Redirected, Fails, GiveUp, World
  <2>4. faults' \in Nat
    BY <1>1 DEF Step, Fault, Observe, Authorize, Block, Recheck, Send, Answered,
        Learn, Recover, FetchFails, RecheckFails, Redirected, Fails, GiveUp, World, Reads,
        MayFault, TypeOK
  <2>5. /\ revision' \in Nat
        /\ mutations' \subseteq [agent : Agents, seen : Nat, authorized : Nat, at : Nat]
    <3>1. agent[a].seen \in Nat /\ agent[a].authorized \in Nat
      BY DEF TypeOK, Attempts
    <3>2. UNCHANGED <<revision, mutations>> \/ Apply(a, agent[a].seen, agent[a].authorized)
      BY <1>1 DEF Step, Fault, Observe, Authorize, Block, Recheck, Send, Answered,
          Learn, Recover, FetchFails, RecheckFails, Redirected, Fails, GiveUp, World
    <3> QED
      BY <3>1, <3>2 DEF TypeOK, Apply
  <2>6. late' \subseteq [agent : Agents, seen : Nat, authorized : Nat, version : Versions,
                      serial : Nat]
    <3>1. CASE GiveUp(a)
      <4>1. faults' \in Nat
        BY <2>4
      <4> QED
        BY <3>1, <4>1 DEF GiveUp, TypeOK, Attempts
    <3>2. CASE ~GiveUp(a)
      BY <1>1, <3>2 DEF Step, Fault, Observe, Authorize, Block, Recheck, Send,
          Answered, Learn, Recover, FetchFails, RecheckFails, Redirected, Fails, World, TypeOK
    <3> QED
      BY <3>1, <3>2
  <2> QED
    BY <2>1, <2>2, <2>3, <2>4, <2>5, <2>6 DEF TypeOK
<1>2. ASSUME NEW r \in late, ArriveLate(r) PROVE TypeOK'
  BY <1>2, ArriveFields DEF ArriveLate, Apply, TypeOK
<1>3. CASE Change
  BY <1>3 DEF Change, TypeOK
<1>4. CASE UNCHANGED vars
  BY <1>4 DEF vars, TypeOK
<1> QED
  BY <1>1, <1>2, <1>3, <1>4 DEF AgentNext

-----------------------------------------------------------------------------
(* Guidance. *)

\* Recovering from what it was told, an agent starts a new attempt.
LEMMA RecoverFields ==
    ASSUME TypeOK, NEW a \in Agents, Recover(a)
    PROVE  /\ agent[a].pc = "told"
           /\ agent'[a].pc = NextStep(agent[a].told)
           /\ agent'[a].pc \in {"done", "held", "submit", "observe"}
           /\ agent'[a].answer = agent[a].answer
           /\ agent'[a].serial = 0
           /\ agent'[a].applied = FALSE
           /\ agent'[a].inspects = (agent[a].inspects \/ SideEffectPossible(agent[a].told))
<1>1. NextStep(agent[a].told) \in {"done", "held", "submit", "observe"}
  BY DEF NextStep
<1> QED
  BY <1>1 DEF Recover, At, TypeOK, Attempts

\* Telling an agent something ends its attempt and leaves what was applied.
LEMMA TellFields ==
    ASSUME TypeOK, NEW a \in Agents, NEW told \in Tellings, NEW serial \in Nat,
           Tell(a, told, serial)
    PROVE  /\ agent'[a].pc = "told"
           /\ agent'[a].told = told
           /\ agent'[a].answer = "none"
           /\ agent'[a].seen = agent[a].seen
           /\ agent'[a].applied = agent[a].applied
           /\ agent'[a].inspects = agent[a].inspects
           /\ agent'[a].serial = serial
BY DEF Tell, TypeOK, Attempts

\* Only a request that its sender gives up joins the late ones.
LEMMA GivenUp ==
    ASSUME TypeOK, NEW a \in Agents, Step(a) \/ Fault(a), NEW r \in late' \ late
    PROVE  /\ GiveUp(a)
           /\ agent[a].pc = "wait"
           /\ r.agent = a
           /\ r.seen = agent[a].seen
           /\ r.authorized = agent[a].authorized
           /\ r.version = agent[a].version
           /\ r.serial # 0
           /\ agent'[a].pc = "told"
           /\ agent'[a].told = "unknown_execution_outcome"
<1>1. CASE GiveUp(a)
  <2>1. agent'[a].pc = "told" /\ agent'[a].told = "unknown_execution_outcome"
    BY <1>1, GiveUpTells, TellFields DEF Tellings
  <2> QED
    BY <1>1, <2>1, GiveUpTells DEF GiveUp
<1>2. CASE ~GiveUp(a)
  BY <1>2 DEF Step, Fault, Observe, Authorize, Block, Recheck, Send, Answered,
      Learn, Recover, FetchFails, RecheckFails, Redirected, Fails, World
<1> QED
  BY <1>1, <1>2

\* Every step keeps what agents are told true of their attempts.
LEMMA GuidanceInductive == TypeOK /\ GuidanceInv /\ [AgentNext]_vars => GuidanceInv'
<1> SUFFICES ASSUME TypeOK, GuidanceInv, [AgentNext]_vars PROVE GuidanceInv'
  OBVIOUS
<1>1. ASSUME NEW a \in Agents, Step(a) \/ Fault(a) PROVE GuidanceInv'
  <2>1. \A b \in Agents \ {a} : agent'[b] = agent[b]
    BY <1>1, OthersRest
  <2>2. deployment' = deployment
    BY <1>1 DEF Step, Fault, Observe, Authorize, Block, Recheck, Send, Answered,
        Learn, Recover, FetchFails, RecheckFails, Redirected, Fails, GiveUp, World
  <2> DEFINE True(b) ==
        /\ agent[b].serial # 0 =>
               agent[b].pc = "told" /\ agent[b].told = "unknown_execution_outcome"
        /\ agent[b].pc # "wait" => agent[b].answer = "none"
        /\ agent[b].pc \in {"observe", "submit", "send"} => ~agent[b].applied
        /\ agent[b].pc = "wait" =>
               /\ agent[b].answer = "none" => ~agent[b].applied
               /\ agent[b].answer = "2xx" => agent[b].applied
               /\ (agent[b].answer = "refused" /\ deployment.kind # "see_other")
                      => ~agent[b].applied
        /\ agent[b].pc = "told" =>
               /\ agent[b].told = "success" => agent[b].applied
               /\ (/\ agent[b].told \in {"condition_failed", "human_review", "policy_blocked"}
                   /\ deployment.kind # "see_other") => ~agent[b].applied
               /\ b \in Conditional => agent[b].told # "provider_failure"
               /\ agent[b].told # "none"
  <2>3. True(a)
    BY DEF GuidanceInv
  <2>4. True(a)'
    <3>1. CASE Observe(a)
      BY <3>1, <2>3 DEF Observe, At, TypeOK, Attempts
    <3>2. CASE Authorize(a)
      BY <3>2, <2>3 DEF Authorize, At, TypeOK, Attempts
    <3>3. ASSUME NEW told \in Tellings, Tell(a, told, 0), agent[a].pc \in {"submit", "send"},
                 \/ told \in {"human_review", "policy_blocked", "unknown_execution_outcome"}
                 \/ told = "provider_failure" /\ a \notin Conditional
          PROVE  True(a)'
      BY <3>3, <2>2, <2>3, TellFields
    <3>4. CASE Block(a) \/ FetchFails(a)
      BY <3>3, <3>4 DEF Block, FetchFails, Blocked, BlockedGuidance, Tellings, At
    <3>5. CASE Recheck(a) \/ RecheckFails(a)
      BY <3>3, <3>5 DEF Recheck, RecheckFails, BlockedGuidance, Tellings, At
    <3>6. CASE Send(a)
      BY <3>6, <2>3 DEF Send, At, TypeOK, Attempts
    <3>7. CASE Answered(a)
      BY <3>7, <2>2, <2>3 DEF Answered, At, TypeOK, Attempts
    <3>8. CASE Learn(a)
      <4>1. Outcome(a, agent[a].answer) \in Tellings
        BY <3>8 DEF Learn, At, Outcome, Tellings, TypeOK, Attempts
      <4>2. agent[a].pc = "wait" /\ agent[a].answer \in {"2xx", "refused", "fault"}
        BY <3>8 DEF Learn, At, TypeOK, Attempts
      <4> QED
        BY <3>8, <4>1, <4>2, <2>2, <2>3, TellFields DEF Learn, Outcome
    <3>9. CASE Recover(a)
      BY <3>9, <2>2, <2>3, RecoverFields
    <3>10. CASE Redirected(a)
      BY <3>10, <2>2, <2>3 DEF Redirected, At, TypeOK, Attempts
    <3>11. CASE Fails(a)
      BY <3>11, <2>2, <2>3 DEF Fails, At, TypeOK, Attempts
    <3>12. CASE GiveUp(a)
      BY <3>12, <2>2, <2>3, GiveUpTells, TellFields DEF Tellings
    <3> QED
      BY <1>1, <3>1, <3>2, <3>4, <3>5, <3>6, <3>7, <3>8, <3>9, <3>10, <3>11, <3>12
         DEF Step, Fault
  <2>5. \A b \in Agents : True(b)'
    BY <2>1, <2>2, <2>4 DEF GuidanceInv
  <2>6. \A r \in late' : r.serial # 0
    BY <1>1, GivenUp DEF GuidanceInv
  <2> QED
    BY <2>5, <2>6 DEF GuidanceInv
<1>2. ASSUME NEW r \in late, ArriveLate(r) PROVE GuidanceInv'
  <2>1. deployment' = deployment /\ late' \subseteq late
    BY <1>2 DEF ArriveLate
  <2>2. r.serial # 0
    BY DEF GuidanceInv
  <2> QED
    BY <1>2, <2>1, <2>2, ArriveFields DEF GuidanceInv
<1>3. CASE Change
  BY <1>3 DEF Change, GuidanceInv
<1>4. CASE UNCHANGED vars
  BY <1>4 DEF vars, GuidanceInv
<1> QED
  BY <1>1, <1>2, <1>3, <1>4 DEF AgentNext

-----------------------------------------------------------------------------
(* Conditions. *)

\* A conditional tool forwards a condition on what was authorized, and, under an ETag, an
\* authorized revision that is not drifted is the observed one.
LEMMA ForwardedIsConditioned ==
    ASSUME TypeOK, NEW a \in Agents
    PROVE  /\ Conditioned(ForwardedVersion(a), agent[a].authorized)
           /\ ~Drifted(a, agent[a].authorized) =>
                  Conditioned(ForwardedVersion(a), agent[a].seen)
<1>1. deployment.signal \in Signals /\ agent[a].seen \in Nat /\ agent[a].authorized \in Nat
  BY DEF TypeOK, Attempts
<1>2. CASE deployment.signal = "etag"
  <2>1. ForwardedVersion(a) = <<"etag", agent[a].authorized>>
    BY <1>2 DEF ForwardedVersion, VersionOf
  <2>2. ~Drifted(a, agent[a].authorized) => ForwardedVersion(a) = <<"etag", agent[a].seen>>
    BY <1>2 DEF Drifted, ForwardedVersion, VersionOf
  <2> QED
    BY <2>1, <2>2 DEF Conditioned
<1>3. CASE deployment.signal # "etag"
  <2>1. ForwardedVersion(a) \in {<<>>} \cup (Signals \X Nat)
    BY <1>1, VersionOfType DEF ForwardedVersion
  <2>2. CASE ForwardedVersion(a) = <<>>
    BY <2>2 DEF Conditioned
  <2>3. CASE ForwardedVersion(a) # <<>>
    <3>1. ForwardedVersion(a) \in Signals \X Nat
      BY <2>1, <2>3
    <3>2. ForwardedVersion(a)[1] = deployment.signal
      BY <1>1, <2>3 DEF ForwardedVersion, VersionOf
    <3> QED
      BY <1>3, <3>1, <3>2 DEF Conditioned
  <2> QED
    BY <2>2, <2>3
<1> QED
  BY <1>2, <1>3

\* A server that honours If-Match accepts a conditioned request at that revision only.
LEMMA AcceptedWhereSeen ==
    ASSUME TypeOK, deployment.kind = "honours", NEW rev \in Nat, NEW version \in Versions,
           Conditioned(version, rev), Accepts(version)
    PROVE  rev = revision
<1>1. Len(<<>>) = 0 /\ Len(<<"any">>) = 1
  OBVIOUS
<1>2. version = <<>> \/ version \in Signals \X Nat
  BY DEF Conditioned, Signals
<1>3. version # <<"any">>
  <2>1. version \in Signals \X Nat => Len(version) = 2
    OBVIOUS
  <2> QED
    BY <1>1, <1>2, <2>1
<1>4. version = <<"etag", revision>>
  BY <1>3 DEF Accepts, IfMatchHolds
<1>5. version # <<>>
  <2>1. Len(version) = 2
    BY <1>4
  <2> QED
    BY <1>1, <2>1
<1>6. version[1] = "etag" /\ version[2] = revision
  BY <1>4
<1>7. version = <<"etag", rev>>
  BY <1>5, <1>6 DEF Conditioned
<1> QED
  BY <1>6, <1>7

\* The resource is mutated, if at all, by the request the agent waits for.
LEMMA Mutating ==
    ASSUME TypeOK, NEW a \in Agents, Step(a) \/ Fault(a)
    PROVE  /\ deployment' = deployment
           /\ \/ UNCHANGED <<revision, mutations>>
              \/ /\ agent[a].pc = "wait"
                 /\ agent[a].answer = "none"
                 /\ Accepts(agent[a].version)
                 /\ Apply(a, agent[a].seen, agent[a].authorized)
                 /\ agent'[a].pc = "wait"
                 /\ agent'[a].answer \in {"2xx", "refused", "fault"}
                 /\ agent'[a].answer = "refused" => deployment.kind = "see_other"
                 /\ late' = late
<1>1. CASE Answered(a)
  BY <1>1 DEF Answered, At, TypeOK, Attempts
<1>2. CASE Redirected(a)
  BY <1>2 DEF Redirected, At, TypeOK, Attempts
<1>3. CASE Fails(a)
  BY <1>3 DEF Fails, At, TypeOK, Attempts
<1>4. CASE ~Answered(a) /\ ~Redirected(a) /\ ~Fails(a)
  BY <1>4 DEF Step, Fault, Observe, Authorize, Block, Recheck, Send, Learn,
      Recover, FetchFails, RecheckFails, GiveUp, World
<1> QED
  BY <1>1, <1>2, <1>3, <1>4

\* From submission to the answer an agent keeps what it observed and authorized.
LEMMA SubmissionSteps ==
    ASSUME TypeOK, NEW a \in Agents, Step(a) \/ Fault(a)
    PROVE  /\ agent'[a].pc = "send" =>
                  /\ agent[a].pc = "submit"
                  /\ agent'[a].seen = agent[a].seen
                  /\ Denying => ~Drifted(a, agent'[a].authorized)
           /\ agent'[a].pc = "wait" =>
                  /\ agent'[a].seen = agent[a].seen
                  /\ agent'[a].authorized = agent[a].authorized
                  /\ \/ agent[a].pc = "wait" /\ agent'[a].version = agent[a].version
                     \/ /\ agent[a].pc = "send"
                        /\ a \in Conditional => agent'[a].version = ForwardedVersion(a)
<1> USE DEF At, TypeOK, Attempts
<1>1. CASE Observe(a)
  BY <1>1 DEF Observe
<1>2. CASE Authorize(a)
  BY <1>2 DEF Authorize, Denying, Drifted
<1>3. ASSUME NEW told \in Tellings, NEW serial \in Nat, Tell(a, told, serial)
      PROVE  agent'[a].pc = "told"
  BY <1>3, TellFields
<1>4. CASE Block(a) \/ FetchFails(a)
  BY <1>3, <1>4 DEF Block, FetchFails, Blocked, BlockedGuidance, Tellings
<1>5. CASE Recheck(a) \/ RecheckFails(a)
  BY <1>3, <1>5 DEF Recheck, RecheckFails, BlockedGuidance, Tellings
<1>6. CASE Send(a)
  BY <1>6 DEF Send
<1>7. CASE Answered(a)
  BY <1>7 DEF Answered
<1>8. CASE Learn(a)
  <2>1. Outcome(a, agent[a].answer) \in Tellings
    BY <1>8 DEF Learn, Outcome, Tellings
  <2> QED
    BY <1>3, <1>8, <2>1 DEF Learn
<1>9. CASE Recover(a)
  BY <1>9 DEF Recover, NextStep
<1>10. CASE Redirected(a)
  BY <1>10 DEF Redirected
<1>11. CASE Fails(a)
  BY <1>11 DEF Fails
<1>12. CASE GiveUp(a)
  BY <1>3, <1>12, GiveUpTells DEF Tellings
<1> QED
  BY <1>1, <1>2, <1>4, <1>5, <1>6, <1>7, <1>8, <1>9, <1>10, <1>11, <1>12
     DEF Step, Fault

\* Every step keeps the conditions of requests tied to what their agents observed.
LEMMA BasisInductive == TypeOK /\ BasisInv /\ [AgentNext]_vars => BasisInv'
<1> SUFFICES ASSUME TypeOK, BasisInv, [AgentNext]_vars PROVE BasisInv'
  OBVIOUS
<1>0. Conditional \subseteq Agents
  BY ProtectedAgentAssumption
<1>1. ASSUME NEW a \in Agents, Step(a) \/ Fault(a) PROVE BasisInv'
  <2>1. \A b \in Agents \ {a} : agent'[b] = agent[b]
    BY <1>1, OthersRest
  <2>2. deployment' = deployment
    BY <1>1, Mutating
  <2>3. ASSUME Denying, NEW b \in Agents, agent'[b].pc = "send"
        PROVE  ~Drifted(b, agent[b].authorized)'
    <3>1. CASE b = a
      BY <1>1, <2>2, <2>3, <3>1, SubmissionSteps DEF Drifted
    <3>2. CASE b # a
      BY <2>1, <2>2, <2>3, <3>2 DEF BasisInv, Drifted
    <3> QED
      BY <3>1, <3>2
  <2>4. ASSUME NEW b \in Conditional, agent'[b].pc = "wait"
        PROVE  /\ Conditioned(agent'[b].version, agent'[b].authorized)
               /\ Denying => Conditioned(agent'[b].version, agent'[b].seen)
    <3>1. CASE b = a
      BY <1>1, <2>4, <3>1, SubmissionSteps, ForwardedIsConditioned DEF BasisInv
    <3>2. CASE b # a
      BY <1>0, <2>1, <2>4, <3>2 DEF BasisInv
    <3> QED
      BY <3>1, <3>2
  <2>5. ASSUME NEW r \in late', r.agent \in Conditional
        PROVE  /\ Conditioned(r.version, r.authorized)
               /\ Denying => Conditioned(r.version, r.seen)
    <3>1. CASE r \in late
      BY <2>5, <3>1 DEF BasisInv
    <3>2. CASE r \notin late
      BY <1>1, <2>5, <3>2, GivenUp DEF BasisInv
    <3> QED
      BY <3>1, <3>2
  <2>6. ASSUME deployment.kind = "honours", NEW m \in mutations', m.agent \in Conditional
        PROVE  m.authorized = m.at /\ (Denying => m.seen = m.at)
    <3>1. CASE m \in mutations
      BY <2>6, <3>1 DEF BasisInv
    <3>2. CASE m \notin mutations
      <4>1. /\ agent[a].pc = "wait" /\ Accepts(agent[a].version)
            /\ m = [agent |-> a, seen |-> agent[a].seen,
                    authorized |-> agent[a].authorized, at |-> revision]
        BY <1>1, <3>2, Mutating DEF Apply
      <4>2. /\ Conditioned(agent[a].version, agent[a].authorized)
            /\ Denying => Conditioned(agent[a].version, agent[a].seen)
        BY <2>6, <4>1 DEF BasisInv
      <4>3. /\ agent[a].version \in Versions
            /\ agent[a].seen \in Nat /\ agent[a].authorized \in Nat
        BY DEF TypeOK, Attempts
      <4> QED
        BY <2>6, <4>1, <4>2, <4>3, AcceptedWhereSeen
    <3> QED
      BY <3>1, <3>2
  <2>7. Denying' = Denying
    BY <2>2 DEF Denying
  <2> QED
    BY <2>2, <2>3, <2>4, <2>5, <2>6, <2>7 DEF BasisInv
<1>2. ASSUME NEW r \in late, ArriveLate(r) PROVE BasisInv'
  <2>1. deployment' = deployment /\ late' \subseteq late
    BY <1>2 DEF ArriveLate
  <2>3. Denying' = Denying
    BY <2>1 DEF Denying
  <2>4. \A b \in Agents :
            /\ agent'[b].pc = agent[b].pc /\ agent'[b].seen = agent[b].seen
            /\ agent'[b].authorized = agent[b].authorized
            /\ agent'[b].version = agent[b].version
    BY <1>2, ArriveFields
  <2>2. ASSUME deployment.kind = "honours", NEW m \in mutations', m.agent \in Conditional
        PROVE  m.authorized = m.at /\ (Denying => m.seen = m.at)
    <3>1. CASE m \in mutations
      BY <2>2, <3>1 DEF BasisInv
    <3>2. CASE m \notin mutations
      <4>1. /\ Accepts(r.version)
            /\ m = [agent |-> r.agent, seen |-> r.seen,
                    authorized |-> r.authorized, at |-> revision]
        BY <1>2, <3>2 DEF ArriveLate, Apply
      <4>2. /\ Conditioned(r.version, r.authorized)
            /\ Denying => Conditioned(r.version, r.seen)
        BY <2>2, <4>1 DEF BasisInv
      <4>3. r.version \in Versions /\ r.seen \in Nat /\ r.authorized \in Nat
        BY DEF TypeOK
      <4> QED
        BY <2>2, <4>1, <4>2, <4>3, AcceptedWhereSeen
    <3> QED
      BY <3>1, <3>2
  <2> QED
    BY <1>0, <2>1, <2>2, <2>3, <2>4 DEF BasisInv, Drifted
<1>3. CASE Change
  BY <1>3 DEF Change, BasisInv, Drifted, Denying
<1>4. CASE UNCHANGED vars
  BY <1>4 DEF vars, BasisInv, Drifted, Denying
<1> QED
  BY <1>1, <1>2, <1>3, <1>4 DEF AgentNext

-----------------------------------------------------------------------------
(* Once. *)

\* What an agent that changed the resource, or may yet, knows it never forgets.
LEMMA AwareKept ==
    ASSUME TypeOK, GuidanceInv, Careful,
           NEW a \in Conditional, Step(a) \/ Fault(a), Aware(a)
    PROVE  Aware(a)'
<1>0. a \in Agents
  BY ProtectedAgentAssumption
<1> USE DEF At, TypeOK, Attempts
<1>1. CASE Observe(a)
  BY <1>0, <1>1 DEF Observe, Aware
<1>2. CASE Authorize(a)
  BY <1>0, <1>2 DEF Authorize, Aware
<1>3. ASSUME NEW told \in Tellings, NEW serial \in Nat, Tell(a, told, serial), agent[a].inspects
      PROVE  Aware(a)'
  BY <1>0, <1>3, TellFields DEF Aware
<1>4. CASE Block(a) \/ FetchFails(a)
  BY <1>3, <1>4 DEF Block, FetchFails, Blocked, BlockedGuidance, Tellings, Aware
<1>5. CASE Recheck(a) \/ RecheckFails(a)
  BY <1>5 DEF Recheck, RecheckFails
<1>6. CASE Send(a)
  BY <1>0, <1>6 DEF Send, Aware
<1>7. CASE Answered(a)
  BY <1>0, <1>7 DEF Answered, Aware
<1>8. CASE Learn(a)
  <2>1. Outcome(a, agent[a].answer) \in Tellings
    BY <1>0, <1>8 DEF Learn, Outcome, Tellings
  <2>2. agent[a].inspects \/ agent[a].answer \in {"2xx", "fault"}
    BY <1>8 DEF Learn, Aware
  <2> QED
    BY <1>0, <1>8, <2>1, <2>2, TellFields DEF Learn, Outcome, Aware
<1>9. CASE Recover(a)
  BY <1>0, <1>9, RecoverFields DEF NextStep, SideEffectPossible, Aware
<1>10. CASE Redirected(a)
  BY <1>10 DEF Redirected, Careful
<1>11. CASE Fails(a)
  BY <1>0, <1>11 DEF Fails, Aware
<1>12. CASE GiveUp(a)
  BY <1>0, <1>12, GiveUpTells, TellFields DEF Tellings, Aware
<1> QED
  BY <1>1, <1>2, <1>4, <1>5, <1>6, <1>7, <1>8, <1>9, <1>10, <1>11, <1>12
     DEF Step, Fault

\* What an agent rests on changes only when it observes; one that looks for its change
\* and goes on has read a revision that the change had not made yet.
LEMMA SeenSteps ==
    ASSUME TypeOK, NEW a \in Agents, Step(a) \/ Fault(a)
    PROVE  \/ agent'[a].seen \in {0, agent[a].seen}
           \/ /\ agent[a].pc = "observe"
              /\ agent'[a].seen <= revision
              /\ UNCHANGED <<revision, mutations>>
              /\ (agent[a].inspects /\ agent'[a].pc # "done") =>
                     \A m \in OwnMutations(a) : ~(m.at < agent'[a].seen)
<1> USE DEF At, TypeOK, Attempts
<1>1. CASE Observe(a)
  BY <1>1 DEF Observe, World
<1>2. CASE Authorize(a)
  BY <1>2 DEF Authorize
<1>3. ASSUME NEW told \in Tellings, NEW serial \in Nat, Tell(a, told, serial)
      PROVE  agent'[a].seen = agent[a].seen
  BY <1>3, TellFields
<1>4. CASE Block(a) \/ FetchFails(a)
  BY <1>3, <1>4 DEF Block, FetchFails, Blocked, BlockedGuidance, Tellings
<1>5. CASE Recheck(a) \/ RecheckFails(a)
  BY <1>3, <1>5 DEF Recheck, RecheckFails, BlockedGuidance, Tellings
<1>6. CASE Send(a)
  BY <1>6 DEF Send
<1>7. CASE Answered(a)
  BY <1>7 DEF Answered
<1>8. CASE Learn(a)
  <2>1. Outcome(a, agent[a].answer) \in Tellings
    BY <1>8 DEF Learn, Outcome, Tellings
  <2> QED
    BY <1>3, <1>8, <2>1 DEF Learn
<1>9. CASE Recover(a)
  BY <1>9 DEF Recover
<1>10. CASE Redirected(a)
  BY <1>10 DEF Redirected
<1>11. CASE Fails(a)
  BY <1>11 DEF Fails
<1>12. CASE GiveUp(a)
  BY <1>3, <1>12, GiveUpTells DEF Tellings
<1> QED
  BY <1>1, <1>2, <1>4, <1>5, <1>6, <1>7, <1>8, <1>9, <1>10, <1>11, <1>12
     DEF Step, Fault

\* Step <1>1 is the heart of it: an accepted request of an agent is its first, and leaves
\* everything the agent still rests on behind.
LEMMA OnceInductive ==
    TypeOK /\ GuidanceInv /\ BasisInv /\ OnceInv /\ [AgentNext]_vars => OnceInv'
<1> SUFFICES ASSUME TypeOK, GuidanceInv, BasisInv, OnceInv, [AgentNext]_vars PROVE OnceInv'
  OBVIOUS
<1>0. /\ Conditional \subseteq Agents
      /\ revision \in Nat
      /\ \A b \in Agents : agent[b].seen \in Nat
      /\ \A m \in mutations : m.at \in Nat /\ m.agent \in Agents
      /\ \A r \in late : r.seen \in Nat /\ r.agent \in Agents
  BY ProtectedAgentAssumption DEF TypeOK, Attempts
<1>1. ASSUME NEW a \in Agents, NEW seen \in Nat, NEW authorized \in Nat,
             Apply(a, seen, authorized),
             \A b \in Agents : agent'[b].seen = agent[b].seen,
             \A b \in Agents \ {a} : agent'[b].pc = agent[b].pc,
             Careful =>
                 /\ a \in Conditional =>
                        /\ seen = revision
                        /\ Aware(a)'
                        /\ \A m \in mutations : m.agent = a => seen <= m.at,
             late' \subseteq late, Careful' = Careful,
             Careful => \A b \in Conditional : Aware(b) => Aware(b)'
      PROVE  OnceInv'
  <2> DEFINE new == [agent |-> a, seen |-> seen, authorized |-> authorized, at |-> revision]
  <2>1. mutations' = mutations \cup {new} /\ revision' = revision + 1
    BY <1>1 DEF Apply
  <2>2. /\ \A m \in mutations' : m.at < revision'
        /\ \A r \in late' : r.seen <= revision'
        /\ \A b \in Agents : agent'[b].seen <= revision'
    BY <1>0, <1>1, <2>1 DEF OnceInv
  <2>3. ASSUME Careful, NEW m \in mutations', NEW n \in mutations',
               m.agent = n.agent, m.agent \in Conditional
        PROVE  m = n
    <3>1. a \in Conditional => \A k \in mutations : k.agent # a
      BY <1>0, <1>1, <2>3 DEF OnceInv
    <3> QED
      BY <2>1, <2>3, <3>1 DEF OnceInv
  <2>4. ASSUME Careful, NEW m \in mutations', m.agent \in Conditional
        PROVE  /\ Aware(m.agent)'
               /\ agent'[m.agent].pc # "done" => agent'[m.agent].seen <= m.at
    <3>1. CASE m = new
      BY <1>0, <1>1, <2>4, <3>1 DEF OnceInv
    <3>2. CASE m \in mutations /\ m.agent # a
      <4>1. /\ agent'[m.agent].pc = agent[m.agent].pc
            /\ agent'[m.agent].seen = agent[m.agent].seen
        BY <1>0, <1>1, <3>2
      <4> QED
        BY <1>1, <2>4, <3>2, <4>1 DEF OnceInv
    <3>3. CASE m \in mutations /\ m.agent = a
      BY <1>0, <1>1, <2>4, <3>3 DEF OnceInv
    <3> QED
      BY <2>1, <3>1, <3>2, <3>3
  <2>5. ASSUME Careful, NEW r \in late', r.agent \in Conditional
        PROVE  /\ Aware(r.agent)'
               /\ \A m \in mutations' : m.agent = r.agent => r.seen <= m.at
    BY <1>0, <1>1, <2>1, <2>5 DEF OnceInv
  <2> QED
    BY <1>1, <2>2, <2>3, <2>4, <2>5 DEF OnceInv
<1>2. ASSUME NEW a \in Agents, Step(a) \/ Fault(a) PROVE OnceInv'
  <2>1. \A b \in Agents \ {a} : agent'[b] = agent[b]
    BY <1>2, OthersRest
  <2>2. deployment' = deployment /\ Careful' = Careful
    BY <1>2, Mutating DEF Careful, Denying
  <2>3. ASSUME Careful, NEW b \in Conditional, Aware(b)
        PROVE  Aware(b)'
    <3>1. CASE b = a
      BY <1>2, <2>3, <3>1, AwareKept
    <3>2. CASE b # a
      BY <1>0, <2>1, <2>3, <3>2 DEF Aware
    <3> QED
      BY <3>1, <3>2
  <2>4. CASE UNCHANGED <<revision, mutations>>
    <3>1. agent'[a].seen <= revision
      BY <1>0, <1>2, SeenSteps DEF OnceInv
    <3>2. ASSUME Careful, NEW m \in mutations, m.agent \in Conditional,
                 agent'[m.agent].pc # "done"
          PROVE  agent'[m.agent].seen <= m.at
      <4>1. CASE m.agent # a
        BY <1>0, <2>1, <3>2, <4>1 DEF OnceInv
      <4>2. CASE m.agent = a
        <5>1. CASE agent[a].pc # "done" /\ agent'[a].seen \in {0, agent[a].seen}
          BY <1>0, <3>2, <4>2, <5>1 DEF OnceInv
        <5>2. agent[a].pc # "done"
          BY <1>2 DEF Step, Fault, Observe, Authorize, Block, Recheck, Send,
              Answered, Learn, Recover, FetchFails, RecheckFails, Redirected, Fails, GiveUp, At
        <5>3. CASE /\ agent[a].pc = "observe"
                   /\ (agent[a].inspects /\ agent'[a].pc # "done") =>
                          \A k \in OwnMutations(a) : ~(k.at < agent'[a].seen)
          <6>1. agent[a].inspects
            BY <3>2, <4>2, <5>3 DEF OnceInv, Aware
          <6>2. ~(m.at < agent'[a].seen)
            BY <3>2, <4>2, <5>3, <6>1 DEF OwnMutations
          <6>3. agent'[a].seen \in Nat
            BY <1>2, OthersRest DEF Attempts
          <6> QED
            BY <1>0, <4>2, <6>2, <6>3
        <5> QED
          BY <1>2, <5>1, <5>2, <5>3, SeenSteps
      <4> QED
        BY <4>1, <4>2
    <3>3. ASSUME NEW r \in late'
          PROVE  /\ r.seen <= revision
                 /\ (Careful /\ r.agent \in Conditional) =>
                        /\ Aware(r.agent)'
                        /\ \A m \in mutations : m.agent = r.agent => r.seen <= m.at
      <4>1. CASE r \in late
        BY <2>3, <4>1 DEF OnceInv
      <4>2. CASE r \notin late
        BY <1>2, <4>2, GivenUp DEF OnceInv, Aware
      <4> QED
        BY <4>1, <4>2
    <3>4. ASSUME Careful, NEW m \in mutations, m.agent \in Conditional
          PROVE  Aware(m.agent)'
      BY <2>3, <3>4 DEF OnceInv
    <3> QED
      BY <2>1, <2>2, <2>4, <3>1, <3>2, <3>3, <3>4 DEF OnceInv
  <2>5. CASE ~UNCHANGED <<revision, mutations>>
    <3>1. /\ agent[a].pc = "wait"
          /\ Accepts(agent[a].version)
          /\ Apply(a, agent[a].seen, agent[a].authorized)
          /\ agent'[a].pc = "wait"
          /\ agent'[a].answer \in {"2xx", "refused", "fault"}
          /\ agent'[a].answer = "refused" => deployment.kind = "see_other"
          /\ late' = late
      BY <1>2, <2>5, Mutating
    <3>2. agent'[a].seen = agent[a].seen
      BY <1>2, <3>1, SubmissionSteps
    <3>4. agent[a].authorized \in Nat
      BY DEF TypeOK, Attempts
    <3>3. ASSUME Careful, a \in Conditional
          PROVE  /\ agent[a].seen = revision
                 /\ Aware(a)'
                 /\ \A m \in mutations : m.agent = a => agent[a].seen <= m.at
      <4>1. Conditioned(agent[a].version, agent[a].seen)
        BY <3>1, <3>3 DEF BasisInv, Careful
      <4>2. agent[a].version \in Versions
        BY DEF TypeOK, Attempts
      <4>3. agent[a].seen = revision
        BY <1>0, <3>1, <3>3, <4>1, <4>2, AcceptedWhereSeen DEF Careful
      <4>4. agent'[a].answer \in {"2xx", "fault"}
        BY <3>1, <3>3 DEF Careful
      <4> QED
        BY <1>0, <3>1, <3>3, <4>3, <4>4 DEF OnceInv, Aware
    <3> QED
      BY <1>0, <1>1, <2>1, <2>2, <2>3, <3>1, <3>2, <3>3, <3>4
  <2> QED
    BY <2>4, <2>5
<1>3. ASSUME NEW r \in late, ArriveLate(r) PROVE OnceInv'
  <2>1. deployment' = deployment /\ Careful' = Careful /\ late' \subseteq late
    BY <1>3 DEF ArriveLate, Careful, Denying
  <2>5. \A b \in Agents : agent'[b].pc = agent[b].pc /\ agent'[b].seen = agent[b].seen
    BY <1>3, ArriveFields
  <2>2. \A b \in Agents : Aware(b)' <=> Aware(b)
    BY <1>3, ArriveFields DEF Aware
  <2>3. CASE UNCHANGED <<revision, mutations>>
    BY <1>0, <2>1, <2>2, <2>3, <2>5 DEF OnceInv
  <2>4. CASE ~UNCHANGED <<revision, mutations>>
    <3>1. Accepts(r.version) /\ Apply(r.agent, r.seen, r.authorized)
      BY <1>3, <2>4 DEF ArriveLate
    <3>2. ASSUME Careful, r.agent \in Conditional
          PROVE  /\ r.seen = revision
                 /\ Aware(r.agent)'
                 /\ \A m \in mutations : m.agent = r.agent => r.seen <= m.at
      <4>1. Conditioned(r.version, r.seen) /\ r.version \in Versions
        BY <3>2 DEF BasisInv, TypeOK, Careful
      <4>2. r.seen = revision
        BY <1>0, <3>1, <3>2, <4>1, AcceptedWhereSeen DEF Careful
      <4> QED
        BY <1>0, <2>2, <3>2, <4>2 DEF OnceInv
    <3>3. r.authorized \in Nat
      BY DEF TypeOK
    <3> QED
      BY <1>0, <1>1, <2>1, <2>2, <2>5, <3>1, <3>2, <3>3
  <2> QED
    BY <2>3, <2>4
<1>4. CASE Change
  <2>1. revision' = revision + 1 /\ UNCHANGED <<deployment, mutations, late, agent>>
    BY <1>4 DEF Change
  <2>2. Careful' = Careful /\ \A b : Aware(b)' <=> Aware(b)
    BY <2>1 DEF Aware, Careful, Denying
  <2> QED
    BY <1>0, <2>1, <2>2 DEF OnceInv
<1>5. CASE UNCHANGED vars
  BY <1>5 DEF vars, OnceInv, Aware, Careful, Denying
<1> QED
  BY <1>2, <1>3, <1>4, <1>5 DEF AgentNext

-----------------------------------------------------------------------------
(* The theorems. *)

IInv == TypeOK /\ GuidanceInv /\ BasisInv /\ OnceInv

\* The conjunction is an inductive invariant.
LEMMA Invariance == AgentSpec => []IInv
<1>1. AgentInit => IInv
  <2> SUFFICES ASSUME AgentInit PROVE IInv
    OBVIOUS
  <2>1. Starting \in Attempts
    BY DEF Starting, Attempts, Versions, Tellings
  <2>2. TypeOK
    BY <2>1, ProtectedAgentAssumption DEF AgentInit, TypeOK, Signals
  <2>3. Conditional \subseteq Agents
    BY ProtectedAgentAssumption
  <2> QED
    BY <2>2, <2>3 DEF IInv, AgentInit, GuidanceInv, BasisInv, OnceInv, Starting
<1>2. IInv /\ [AgentNext]_vars => IInv'
  BY TypeInductive, GuidanceInductive, BasisInductive, OnceInductive DEF IInv
<1> QED
  BY <1>1, <1>2, PTL DEF AgentSpec

\* conditionalExecute, executeConditionally and the tool pass an answer on such that a
\* told success was applied, and a side effect is denied only if there is none and no
\* request is left to make one; failures of plain tools and redirects excepted.
THEOREM GuidanceTrue == AgentSpec => []GuidanceIsTrue
<1>1. IInv => GuidanceIsTrue
  BY DEF IInv, TypeOK, Attempts, Tellings, GuidanceInv, GuidanceIsTrue, At, SideEffectPossible
<1> QED
  BY <1>1, Invariance, PTL

\* If-Match carries the authorized version: a server that compares it applies the mutation
\* to the authorized revision, for every signal, number of agents, faults and late
\* requests.  Where the policy denies refuted claims, validation lets only what the agent
\* observed through, and the mutation lands there.
THEOREM LandsOnObserved == AgentSpec => []EffectLandsOnObserved
<1>1. IInv => EffectLandsOnObserved
  BY DEF IInv, BasisInv, Denying, EffectLandsOnObserved
<1> QED
  BY <1>1, Invariance, PTL

\* Where the policy denies refuted claims, an agent that follows next_steps through any
\* number of unknown outcomes, refusals and blocks never has its change applied a second
\* time by such a server.  The hypothesis is needed: adopting what it finds, the validation
\* of a second attempt accepts the effect of the first.
THEOREM AppliedOnce == AgentSpec => []AppliedAtMostOnce
<1>1. IInv => AppliedAtMostOnce
  <2> SUFFICES ASSUME IInv, Careful, NEW a \in Conditional
               PROVE  Cardinality(OwnMutations(a)) <= 1
    BY DEF AppliedAtMostOnce, Careful, Denying
  <2>1. \A m, n \in OwnMutations(a) : m = n
    BY DEF IInv, OnceInv, OwnMutations
  <2>2. CASE OwnMutations(a) = {}
    BY <2>2, FS_EmptySet
  <2>3. CASE OwnMutations(a) # {}
    <3>1. PICK m : OwnMutations(a) = {m}
      BY <2>1, <2>3
    <3>2. Cardinality({m}) = 1
      BY FS_Singleton
    <3> QED
      BY <3>1, <3>2
  <2> QED
    BY <2>2, <2>3
<1> QED
  BY <1>1, Invariance, PTL
=============================================================================
