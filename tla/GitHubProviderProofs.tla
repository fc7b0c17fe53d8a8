------------------------- MODULE GitHubProviderProofs -------------------------
(***************************************************************************)
(* Proofs about GitHubProvider: what the provider confirms is what the     *)
(* agent read, and a precondition passes only on what GitHub says, over    *)
(* any number of changes and any mixture of full and conditional answers.  *)
(***************************************************************************)
EXTENDS GitHubProvider, DecisionLemmas

USE GitHubAssumption

-----------------------------------------------------------------------------
(* Freshness. *)

\* A FRESH verdict with a version component found no drift of the version, and an
\* answer that is either "not modified" or carries a version.
LEMMA FreshNeedsVersion ==
    ASSUME NEW current, NEW p \in FreshnessPolicies, NEW passed, NEW now, NEW cl,
           "version" \in p.components,
           EvaluateFreshness(cl, current, p, passed, now) = "FRESH"
    PROVE  /\ current.available
           /\ cl.version # Null
           /\ current.unchanged \/ current.version # Null
           /\ current.version # Null => cl.version = current.version
<1> DEFINE S == {EvaluateComponent(s, cl, current, p, passed, now) : s \in p.components}
<1>1. /\ current.available
      /\ ~ProvenDrift(cl, current, p.skew)
      /\ WorstOf(S) = "FRESH"
  BY DEF EvaluateFreshness
<1>2. p.components \in SUBSET Strategies /\ p.components # {}
  BY DEF FreshnessPolicies
<1>3. S \in SUBSET Classes /\ S # {}
  BY <1>2, EvaluateComponentType
<1>4. EvaluateVersion(cl, current) \in S
  <2>1. EvaluateComponent("version", cl, current, p, passed, now) = EvaluateVersion(cl, current)
    BY DEF EvaluateComponent
  <2> QED
    BY <2>1
<1> HIDE DEF S
<1>5. EvaluateVersion(cl, current) = "FRESH"
  BY <1>1, <1>3, <1>4, WorstOfMember DEF EvaluateVersion, Severity
<1>6. cl.version # Null /\ (current.unchanged \/ current.version # Null)
  BY <1>5 DEF EvaluateVersion
<1> QED
  BY <1>1, <1>6 DEF ProvenDrift, VersionDrift

-----------------------------------------------------------------------------
(* Answers. *)

HeadVersioned == {"pull_request", "branch", "file"}

VersionOf(r) ==
    IF kind \in HeadVersioned THEN Id(r.head)
    ELSE IF etags THEN PageTag(r.page)
    ELSE IF kind = "ci_status" THEN Composite(r.head, r.state)
    ELSE IF kind = "issue" THEN Updated(r.updated_at)
    ELSE Null

\* pickVersion on the body and the headers at the URL of the resource, kind by kind.
LEMMA PickVersionAtResource ==
    ASSUME TypeOK, kind # "deployment"
    PROVE  PickVersion("resource") = VersionOf(resource)
<1>1. resource.head \in Nat /\ resource.page \in Nat
  BY DEF TypeOK, Resources
<1>2. Id(resource.head) # Null /\ PageTag(resource.page) # Null
  BY <1>1 DEF Id, PageTag, Null
<1>3. kind \in Kinds
  BY DEF TypeOK
<1>4. EtagAt("resource") = IF etags THEN PageTag(resource.page) ELSE Null
  BY DEF EtagAt
<1> QED
  BY <1>2, <1>3, <1>4 DEF PickVersion, OrElse, VersionOf, HeadVersioned, Kinds

\* What the versions of a resource can be: the one of its body, or the id of a release.
Cited(version, r) ==
    \/ version = VersionOf(r)
    \/ kind = "release" /\ version = Id(r.head)

\* Every answer about a kind that has a URL is "not modified" or versions the resource.
LEMMA FetchCites ==
    ASSUME TypeOK, kind # "deployment", reachable, NEW version
    PROVE  /\ IsNotModified(version) =>
                  etags /\ version = PageTag(resource.page) /\ Fetch(version) = NotModified
           /\ ~IsNotModified(version) =>
                  ~Fetch(version).unchanged /\ Cited(Fetch(version).version, resource)
           /\ (~IsNotModified(version) /\ version # Null) => Fetch(version).version = VersionOf(resource)
<1>1. UrlFor = "resource"
  BY DEF UrlFor
<1>2. EtagAt("resource") = IF etags THEN PageTag(resource.page) ELSE Null
  BY DEF EtagAt
<1>3. IsNotModified(version) =>
          etags /\ version = PageTag(resource.page) /\ Fetch(version) = NotModified
  BY <1>1, <1>2 DEF IsNotModified, Fetch
<1>4. ~IsNotModified(version) /\ version # Null => Fetch(version) = BuildSnapshot("resource")
  BY <1>1 DEF Fetch
<1>5. ~IsNotModified(version) /\ version = Null => Fetch(version) = FullFetch
  BY DEF Fetch
<1>6. ~BuildSnapshot("resource").unchanged /\ BuildSnapshot("resource").version = VersionOf(resource)
  BY PickVersionAtResource DEF BuildSnapshot
<1>7. ~FullFetch.unchanged /\ Cited(FullFetch.version, resource)
  <2>1. CASE kind = "release"
    BY <2>1 DEF FullFetch, BuildSnapshot, Cited
  <2>2. CASE kind # "release"
    BY <1>6, <2>2 DEF FullFetch, Cited
  <2> QED
    BY <2>1, <2>2
<1> QED
  BY <1>3, <1>4, <1>5, <1>6, <1>7 DEF Cited

\* Versions of one kind of signal are equal only if what they stand for is.
LEMMA SignalsAreInjective ==
    ASSUME NEW r \in Resources, NEW s \in Resources
    PROVE  /\ Id(r.head) = Id(s.head) => r.head = s.head
           /\ PageTag(r.page) = PageTag(s.page) => r.page = s.page
           /\ Composite(r.head, r.state) = Composite(s.head, s.state) => r.head = s.head /\ r.state = s.state
           /\ Updated(r.updated_at) = Updated(s.updated_at) => r.updated_at = s.updated_at
           /\ Id(r.head) # PageTag(s.page)
           /\ Id(r.head) # Null /\ PageTag(r.page) # Null
           /\ PageTag(r.page) # Composite(s.head, s.state)
           /\ PageTag(r.page) # Updated(s.updated_at)
<1>1. /\ r.head \in Nat /\ r.state \in 0..1 /\ r.page \in Nat /\ r.updated_at \in Nat
      /\ s.head \in Nat /\ s.state \in 0..1 /\ s.page \in Nat /\ s.updated_at \in Nat
  BY DEF Resources
<1>2. Id(r.head) = Id(s.head) => r.head = s.head
  BY <1>1 DEF Id
<1>3. PageTag(r.page) = PageTag(s.page) => r.page = s.page
  BY <1>1 DEF PageTag
<1>4. Composite(r.head, r.state) = Composite(s.head, s.state) => r.head = s.head /\ r.state = s.state
  BY <1>1 DEF Composite
<1>5. Updated(r.updated_at) = Updated(s.updated_at) => r.updated_at = s.updated_at
  BY <1>1 DEF Updated
<1>6. Id(r.head) # PageTag(s.page) /\ Id(r.head) # Null /\ PageTag(r.page) # Null
  BY <1>1 DEF Id, PageTag, Null
<1>7. PageTag(r.page) # Composite(s.head, s.state) /\ PageTag(r.page) # Updated(s.updated_at)
  BY <1>1 DEF PageTag, Composite, Updated
<1> QED
  BY <1>2, <1>3, <1>4, <1>5, <1>6, <1>7

-----------------------------------------------------------------------------
(* The invariant. *)

\* The agent read an earlier state of the resource; the page tells states apart.
History ==
    /\ seen.page <= resource.page
    /\ seen.page = resource.page =>
           /\ seen.head = resource.head
           /\ seen.state = resource.state
           /\ seen.updated_at = resource.updated_at

\* A declared version is a version of what the agent read.
ClaimCitesSeen ==
    (claim.version # Null /\ kind # "deployment") => Cited(claim.version, seen)

AnswerInvariant == TypeOK /\ History /\ ClaimCitesSeen

\* Nothing is read and nothing declared yet.
LEMMA InitAnswers == Init => AnswerInvariant
<1> SUFFICES ASSUME Init
             PROVE  AnswerInvariant
  OBVIOUS
<1>1. TypeOK
  BY DEF Init, TypeOK, Resources, Optional, Null
<1>2. History /\ ClaimCitesSeen
  BY DEF Init, History, ClaimCitesSeen
<1> QED
  BY <1>1, <1>2 DEF AnswerInvariant

\* A new head is a resource again, at the same page.
LEMMA NewHeadTyped ==
    ASSUME NEW r \in Resources
    PROVE  LET fields == [r EXCEPT !.head = @ + 1, !.state = 0]
           IN  fields \in Resources /\ fields.page = r.page
<1> DEFINE headed == [r EXCEPT !.head = r.head + 1]
           fields == [headed EXCEPT !.state = 0]
<1>1. r.head + 1 \in Nat /\ 0 \in 0..1
  BY DEF Resources
<1>2. headed \in Resources /\ headed.page = r.page
  BY <1>1 DEF Resources
<1> HIDE DEF headed
<1>3. fields \in Resources /\ fields.page = r.page
  BY <1>1, <1>2 DEF Resources
<1>4. fields = [r EXCEPT !.head = @ + 1, !.state = 0]
  BY DEF headed
<1> QED
  BY <1>3, <1>4

\* A step that leaves the agent alone keeps what it cites; the page only moves on.
LEMMA WorldKeepsAnswers ==
    ASSUME AnswerInvariant, TypeOK', UNCHANGED <<setting, claim, seen>>,
           \/ resource'.page = resource.page + 1
           \/ /\ resource'.page = resource.page
              /\ resource'.head = resource.head
              /\ resource'.state = resource.state
              /\ resource'.updated_at = resource.updated_at
    PROVE  AnswerInvariant'
<1>1. seen \in Resources /\ resource \in Resources
  BY DEF AnswerInvariant, TypeOK
<1>2. seen.page \in Nat /\ resource.page \in Nat
  BY <1>1 DEF Resources
<1>3. History'
  BY <1>2 DEF AnswerInvariant, History
<1>4. ClaimCitesSeen'
  BY DEF AnswerInvariant, ClaimCitesSeen, setting, Cited, VersionOf
<1> QED
  BY <1>3, <1>4 DEF AnswerInvariant

\* Every step keeps to the types.
LEMMA StepTypes == TypeOK /\ [Next]_vars => TypeOK'
<1> SUFFICES ASSUME TypeOK, [Next]_vars
             PROVE  TypeOK'
  OBVIOUS
<1>1. resource \in Resources /\ seen \in Resources /\ clock \in 0..MaxTime /\ MaxTime \in Nat
  BY DEF TypeOK
<1>2. CASE Observe
  <2>1. PICK version \in {Null, claim.version}, dated \in BOOLEAN :
            /\ claim' = [version      |-> Fetch(version).version,
                         content_hash |-> Null,
                         observed_at  |-> IF dated THEN Fetch(version).observed_at ELSE Null]
            /\ seen' = IF Fetch(version).unchanged THEN seen ELSE resource
            /\ UNCHANGED <<setting, resource, repo, reachable, secondary, clock>>
    BY <1>2 DEF Observe
  <2>2. Fetch(version).version \in Optional(Nat) /\ Fetch(version).observed_at \in Optional(0..MaxTime)
    <3>1. \A url : EtagAt(url) \in Optional(Nat)
      BY DEF TypeOK, EtagAt, PageTag, RepoTag, Resources, Optional
    <3>2. Id(resource.head) \in Nat /\ Updated(resource.updated_at) \in Nat
      BY <1>1 DEF Resources, Id, Updated
    <3>3. \A state \in 0..2 : Composite(resource.head, state) \in Nat
      BY <1>1 DEF Resources, Composite
    <3>4. \A url : PickVersion(url) \in Optional(Nat)
      <4>1. resource.state \in 0..2 /\ kind \in Kinds
        BY <1>1 DEF Resources, TypeOK
      <4> QED
        BY <3>1, <3>2, <3>3, <4>1 DEF PickVersion, OrElse, Optional, Kinds
    <3>5. \A url : ObservedAt(url) \in 0..MaxTime
      BY <1>1 DEF TypeOK, ObservedAt, Resources
    <3>6. \A url : /\ BuildSnapshot(url).version \in Optional(Nat)
                   /\ BuildSnapshot(url).observed_at \in Optional(0..MaxTime)
      BY <3>4, <3>5 DEF BuildSnapshot, Optional
    <3>7. FullFetch.version \in Optional(Nat) /\ FullFetch.observed_at \in Optional(0..MaxTime)
      <4>1. resource.state \in 0..2 /\ UnknownState \in 0..2
        BY <1>1 DEF Resources, UnknownState
      <4> QED
        BY <3>2, <3>3, <3>4, <3>5, <3>6, <4>1 DEF FullFetch, BuildSnapshot, Optional
    <3>8. NotModified.version \in Optional(Nat) /\ NotModified.observed_at \in Optional(0..MaxTime)
      BY <1>1 DEF TypeOK, NotModified, OrElse, Optional
    <3>9. /\ UnavailableCurrentState.version \in Optional(Nat)
          /\ UnavailableCurrentState.observed_at \in Optional(0..MaxTime)
      BY DEF UnavailableCurrentState, Optional
    <3> QED
      BY <3>6, <3>7, <3>8, <3>9 DEF Fetch
  <2>3. claim' \in [version : Optional(Nat), content_hash : {Null}, observed_at : Optional(0..MaxTime)]
    BY <2>1, <2>2 DEF Optional
  <2> QED
    BY <1>1, <2>1, <2>3 DEF TypeOK, setting
<1>3. CASE NewHead \/ NewState \/ Edit
  <2>1. ASSUME NEW fields \in Resources, Changed(fields), fields.page = resource.page
        PROVE  TypeOK'
    <3>1. resource.page + 1 \in 0..MaxPage
      BY <1>1, <2>1 DEF Changed, Resources
    <3>2. resource' \in Resources
      BY <1>1, <2>1, <3>1 DEF Changed, Resources
    <3> QED
      BY <1>1, <2>1, <3>2 DEF Changed, TypeOK, setting
  <2>2. CASE NewHead
    BY <1>1, <2>1, <2>2, NewHeadTyped DEF NewHead
  <2>3. CASE NewState
    BY <1>1, <2>1, <2>3 DEF NewState, Resources
  <2>4. CASE Edit
    BY <1>1, <2>1, <2>4 DEF Edit
  <2> QED
    BY <1>3, <2>2, <2>3, <2>4
<1>4. CASE NewReview
  BY <1>1, <1>4 DEF NewReview, TypeOK, Resources, setting
<1>5. CASE RepoChange
  BY <1>1, <1>5 DEF RepoChange, TypeOK, setting
<1>6. CASE Outage
  BY <1>6 DEF Outage, TypeOK, setting
<1>7. CASE Tick
  BY <1>1, <1>7 DEF Tick, TypeOK, setting
<1>8. CASE UNCHANGED vars
  BY <1>8 DEF vars, TypeOK, setting
<1> QED
  BY <1>2, <1>3, <1>4, <1>5, <1>6, <1>7, <1>8 DEF Next

\* Every step keeps the invariant: an answer makes the agent cite what it then reads,
\* a 304 what it read before, and the world only moves the page on.
LEMMA StepAnswers == AnswerInvariant /\ [Next]_vars => AnswerInvariant'
<1> SUFFICES ASSUME AnswerInvariant, [Next]_vars
             PROVE  AnswerInvariant'
  OBVIOUS
<1>1. TypeOK /\ TypeOK'
  BY StepTypes DEF AnswerInvariant
<1>2. resource \in Resources /\ resource.page \in Nat
  BY <1>1 DEF TypeOK, Resources
<1>3. CASE Observe
  <2>1. PICK version \in {Null, claim.version}, dated \in BOOLEAN :
            /\ reachable
            /\ claim' = [version      |-> Fetch(version).version,
                         content_hash |-> Null,
                         observed_at  |-> IF dated THEN Fetch(version).observed_at ELSE Null]
            /\ seen' = IF Fetch(version).unchanged THEN seen ELSE resource
            /\ UNCHANGED <<setting, resource, repo, reachable, secondary, clock>>
    BY <1>3 DEF Observe
  <2>2. claim'.version = Fetch(version).version
    BY <2>1
  <2>3. CASE kind = "deployment"
    <3>1. seen' = seen \/ seen' = resource
      BY <2>1
    <3>2. History'
      BY <1>2, <2>1, <3>1 DEF AnswerInvariant, History
    <3>3. ClaimCitesSeen'
      BY <2>1, <2>3 DEF ClaimCitesSeen, setting
    <3> QED
      BY <1>1, <3>2, <3>3 DEF AnswerInvariant
  <2>4. CASE kind # "deployment" /\ IsNotModified(version)
    <3>1. Fetch(version) = NotModified
      BY <1>1, <2>1, <2>4, FetchCites
    <3>2. claim'.version = claim.version /\ seen' = seen
      BY <2>1, <2>2, <3>1 DEF NotModified
    <3>3. History'
      BY <2>1, <3>2 DEF AnswerInvariant, History
    <3>4. ClaimCitesSeen'
      BY <2>1, <3>2 DEF AnswerInvariant, ClaimCitesSeen, setting, Cited, VersionOf
    <3> QED
      BY <1>1, <3>3, <3>4 DEF AnswerInvariant
  <2>5. CASE kind # "deployment" /\ ~IsNotModified(version)
    <3>1. ~Fetch(version).unchanged /\ Cited(Fetch(version).version, resource)
      BY <1>1, <2>1, <2>5, FetchCites
    <3>2. seen' = resource /\ resource' = resource
      BY <2>1, <3>1
    <3>3. History'
      BY <1>2, <3>2 DEF History
    <3>4. ClaimCitesSeen'
      BY <2>1, <2>2, <3>1, <3>2 DEF ClaimCitesSeen, setting, Cited, VersionOf
    <3> QED
      BY <1>1, <3>3, <3>4 DEF AnswerInvariant
  <2> QED
    BY <2>3, <2>4, <2>5
<1>4. ASSUME NEW fields \in Resources, Changed(fields), fields.page = resource.page
      PROVE  AnswerInvariant'
  <2>1. resource'.page = resource.page + 1 /\ UNCHANGED <<setting, claim, seen>>
    BY <1>4 DEF Changed, Resources
  <2> QED
    BY <1>1, <2>1, WorldKeepsAnswers
<1>5. CASE NewHead
  BY <1>2, <1>4, <1>5, NewHeadTyped DEF NewHead
<1>6. CASE NewState
  BY <1>2, <1>4, <1>6 DEF NewState, Resources
<1>7. CASE Edit
  BY <1>2, <1>4, <1>7 DEF Edit
<1>8. CASE NewReview
  <2>1. /\ resource'.page = resource.page
        /\ resource'.head = resource.head
        /\ resource'.state = resource.state
        /\ resource'.updated_at = resource.updated_at
        /\ UNCHANGED <<setting, claim, seen>>
    BY <1>2, <1>8 DEF NewReview, Resources
  <2> QED
    BY <1>1, <2>1, WorldKeepsAnswers
<1>9. CASE RepoChange \/ Outage \/ Tick \/ UNCHANGED vars
  <2>1. UNCHANGED <<setting, resource, claim, seen>>
    BY <1>9 DEF RepoChange, Outage, Tick, vars, setting
  <2> QED
    BY <1>1, <2>1, WorldKeepsAnswers
<1> QED
  BY <1>3, <1>5, <1>6, <1>7, <1>8, <1>9 DEF Next

-----------------------------------------------------------------------------
(* Theorems. *)

\* The invariant holds in every state: what the agent declares is a version of what it
\* read, and a page it read is the current one only if nothing changed.
THEOREM AnswersAreHistory == Spec => []AnswerInvariant
BY InitAnswers, StepAnswers, PTL DEF Spec

\* Types are kept, for any bounds and policies.
THEOREM ProviderTypeCorrect == Spec => []TypeOK
<1>1. AnswerInvariant => TypeOK
  BY DEF AnswerInvariant
<1> QED
  BY <1>1, AnswersAreHistory, PTL

\* For every kind but deployments, a FRESH verdict on an honest claim means that what
\* its version stands for is what the agent read.
THEOREM Confirmed == Spec => []ConfirmedMeansUnchanged
<1>1. ASSUME AnswerInvariant
      PROVE  ConfirmedMeansUnchanged
  <2> SUFFICES ASSUME kind # "deployment", Verdict = "FRESH", "version" \in policy.components
               PROVE  Covered(seen) = Covered(resource)
    BY DEF ConfirmedMeansUnchanged, ConfirmedOn
  <2>1. TypeOK /\ History /\ ClaimCitesSeen /\ seen \in Resources /\ resource \in Resources
    BY <1>1 DEF AnswerInvariant, TypeOK
  <2>2. policy \in FreshnessPolicies /\ kind \in Kinds
    BY <2>1 DEF TypeOK
  <2> DEFINE answer == Fetch(claim.version)
  <2>3. /\ answer.available
        /\ claim.version # Null
        /\ answer.unchanged \/ answer.version # Null
        /\ answer.version # Null => claim.version = answer.version
    BY <2>2, FreshNeedsVersion DEF Verdict
  <2>4. reachable
    BY <2>3 DEF Fetch, UnavailableCurrentState
  <2>5. Cited(claim.version, seen)
    BY <2>1, <2>3 DEF ClaimCitesSeen
  <2>6. CASE IsNotModified(claim.version)
    <3>1. etags /\ claim.version = PageTag(resource.page)
      BY <2>1, <2>4, <2>6, FetchCites
    <3>2. kind \notin HeadVersioned /\ claim.version = PageTag(seen.page)
      BY <2>1, <2>3, <2>5, <3>1, SignalsAreInjective DEF Cited, VersionOf
    <3>3. seen.page = resource.page
      BY <2>1, <3>1, <3>2, SignalsAreInjective
    <3> QED
      BY <2>1, <2>2, <3>1, <3>3 DEF History, Covered, Kinds
  <2>7. CASE ~IsNotModified(claim.version)
    <3>1. claim.version = VersionOf(resource)
      BY <2>1, <2>3, <2>4, <2>7, FetchCites
    <3>2. CASE claim.version = VersionOf(seen)
      <4>1. VersionOf(seen) = VersionOf(resource) /\ VersionOf(resource) # Null
        BY <2>3, <3>1, <3>2
      <4>2. CASE kind \in HeadVersioned
        BY <2>1, <4>1, <4>2, SignalsAreInjective DEF VersionOf, HeadVersioned, Covered
      <4>3. CASE kind \notin HeadVersioned /\ etags
        <5>1. seen.page = resource.page
          BY <2>1, <4>1, <4>3, SignalsAreInjective DEF VersionOf
        <5> QED
          BY <2>1, <2>2, <4>3, <5>1 DEF History, Covered, Kinds
      <4>4. CASE kind \notin HeadVersioned /\ ~etags
        <5>1. kind \in {"ci_status", "issue"}
          BY <2>2, <4>1, <4>4 DEF VersionOf, Kinds, HeadVersioned
        <5> QED
          BY <2>1, <4>1, <4>4, <5>1, SignalsAreInjective DEF VersionOf, Covered, HeadVersioned
      <4> QED
        BY <4>2, <4>3, <4>4
    <3>3. CASE kind = "release" /\ claim.version = Id(seen.head)
      BY <2>1, <2>3, <3>1, <3>3, SignalsAreInjective DEF VersionOf, HeadVersioned
    <3> QED
      BY <2>5, <3>2, <3>3 DEF Cited
  <2> QED
    BY <2>6, <2>7
<1> QED
  BY <1>1, AnswersAreHistory, PTL

\* A routed precondition that passes holds on the resource, whatever is claimed.
THEOREM PreconditionsHold == Spec => []PassedPreconditionHolds
<1>1. ASSUME AnswerInvariant
      PROVE  PassedPreconditionHolds
  <2>1. Metadata(claim.version).state \in {Null, resource.state}
    BY DEF Metadata
  <2>2. Metadata(claim.version).review \in {Null, resource.review}
    BY DEF Metadata
  <2>3. (routed = "state" /\ Passed) => resource.state = 1
    BY <2>1 DEF Passed, Null
  <2>4. (routed = "review" /\ Passed) => resource.review = 1
    BY <2>2 DEF Passed, Null
  <2> QED
    BY <2>3, <2>4 DEF PassedPreconditionHolds
<1> QED
  BY <1>1, AnswersAreHistory, PTL

-----------------------------------------------------------------------------
(* Times. *)

\* No time lies in the future, and a dated claim about a resource with an update time
\* is no older than what the agent read.
TimesPast ==
    /\ resource.updated_at <= clock
    /\ repo.updated_at <= clock
    /\ seen.updated_at <= clock
    /\ claim.observed_at # Null =>
           /\ claim.observed_at <= clock
           /\ kind \in {"pull_request", "issue"} => seen.updated_at <= claim.observed_at

\* A change of the world is dated now.
LEMMA WorldKeepsTimes ==
    ASSUME TypeOK, TypeOK', TimesPast, UNCHANGED <<setting, claim, seen>>,
           clock' \in {clock, clock + 1},
           resource'.updated_at \in {resource.updated_at, clock},
           repo'.updated_at \in {repo.updated_at, clock}
    PROVE  TimesPast'
<1>1. /\ clock \in Nat /\ clock' \in Nat
      /\ resource.updated_at \in Nat /\ repo.updated_at \in Nat /\ seen.updated_at \in Nat
      /\ claim.observed_at # Null => claim.observed_at \in Nat
  BY DEF TypeOK, Resources, Optional
<1> QED
  BY <1>1 DEF TimesPast, setting

\* Every answer is dated by the last update, by the claim or by the clock.
LEMMA FetchDates ==
    ASSUME TypeOK, TimesPast, reachable, NEW version \in {Null, claim.version}
    PROVE  /\ Fetch(version).observed_at \in Nat
           /\ Fetch(version).observed_at <= clock
           /\ kind \in {"pull_request", "issue"} =>
                  /\ ~Fetch(version).unchanged => Fetch(version).observed_at = resource.updated_at
                  /\ Fetch(version).unchanged => seen.updated_at <= Fetch(version).observed_at
<1>1. /\ clock \in Nat
      /\ resource.updated_at \in Nat /\ repo.updated_at \in Nat /\ seen.updated_at \in Nat
      /\ claim.observed_at # Null => claim.observed_at \in Nat
  BY DEF TypeOK, Resources, Optional
<1>2. ASSUME NEW url PROVE /\ ObservedAt(url) \in Nat /\ ObservedAt(url) <= clock
  BY <1>1 DEF ObservedAt, TimesPast
<1>3. ASSUME NEW url
      PROVE  /\ BuildSnapshot(url).observed_at = ObservedAt(url)
             /\ ~BuildSnapshot(url).unchanged
  BY DEF BuildSnapshot
<1>4. FullFetch.observed_at = ObservedAt("resource") /\ ~FullFetch.unchanged
  BY DEF FullFetch, BuildSnapshot
<1>5. /\ NotModified.observed_at \in Nat
      /\ NotModified.observed_at <= clock
      /\ kind \in {"pull_request", "issue"} => seen.updated_at <= NotModified.observed_at
  BY <1>1 DEF NotModified, OrElse, TimesPast
<1>6. NotModified.unchanged
  BY DEF NotModified
<1>7. kind \in {"pull_request", "issue"} =>
          UrlFor = "resource" /\ ObservedAt("resource") = resource.updated_at
  BY DEF UrlFor, ObservedAt
<1>8. Fetch(version) \in {NotModified, BuildSnapshot(UrlFor), FullFetch}
  BY DEF Fetch
<1> HIDE DEF NotModified, BuildSnapshot, FullFetch
<1> QED
  BY <1>2, <1>3, <1>4, <1>5, <1>6, <1>7, <1>8

\* The invariant of answers, with the times.
DatedInvariant == AnswerInvariant /\ TimesPast

\* Every step keeps the times in the past.
LEMMA StepDates == DatedInvariant /\ [Next]_vars => DatedInvariant'
<1> SUFFICES ASSUME DatedInvariant, [Next]_vars
             PROVE  DatedInvariant'
  OBVIOUS
<1>1. AnswerInvariant /\ AnswerInvariant' /\ TypeOK /\ TypeOK' /\ TimesPast
  BY StepAnswers DEF DatedInvariant, AnswerInvariant
<1>2. resource \in Resources /\ clock \in Nat
  BY <1>1 DEF TypeOK
<1>3. CASE Observe
  <2>1. PICK version \in {Null, claim.version}, dated \in BOOLEAN :
            /\ reachable
            /\ claim' = [version      |-> Fetch(version).version,
                         content_hash |-> Null,
                         observed_at  |-> IF dated THEN Fetch(version).observed_at ELSE Null]
            /\ seen' = IF Fetch(version).unchanged THEN seen ELSE resource
            /\ UNCHANGED <<setting, resource, repo, reachable, secondary, clock>>
    BY <1>3 DEF Observe
  <2>2. claim'.observed_at \in {Fetch(version).observed_at, Null}
    BY <2>1
  <2>3. /\ Fetch(version).observed_at <= clock
        /\ kind \in {"pull_request", "issue"} => seen'.updated_at <= Fetch(version).observed_at
    <3>1. resource.updated_at <= resource.updated_at
      BY <1>2 DEF Resources
    <3> QED
      BY <1>1, <2>1, <3>1, FetchDates
  <2> QED
    BY <1>1, <2>1, <2>2, <2>3 DEF DatedInvariant, TimesPast, setting
<1>4. ASSUME NEW fields \in Resources, Changed(fields)
      PROVE  DatedInvariant'
  <2>1. resource'.updated_at = clock /\ repo' = repo /\ clock' = clock
        /\ UNCHANGED <<setting, claim, seen>>
    BY <1>4 DEF Changed, Resources
  <2> QED
    BY <1>1, <2>1, WorldKeepsTimes DEF DatedInvariant
<1>5. CASE NewHead \/ NewState \/ Edit
  <2>1. CASE NewHead
    BY <1>2, <1>4, <2>1, NewHeadTyped DEF NewHead
  <2>2. CASE NewState
    <3>1. [resource EXCEPT !.state = 1 - @] \in Resources
      BY <1>2 DEF Resources
    <3> QED
      BY <1>4, <2>2, <3>1 DEF NewState
  <2>3. CASE Edit
    BY <1>2, <1>4, <2>3 DEF Edit
  <2> QED
    BY <1>5, <2>1, <2>2, <2>3
<1>6. CASE NewReview \/ RepoChange \/ Outage \/ Tick
  <2>1. /\ resource'.updated_at = resource.updated_at
        /\ repo'.updated_at \in {repo.updated_at, clock}
        /\ clock' \in {clock, clock + 1}
        /\ UNCHANGED <<setting, claim, seen>>
    BY <1>2, <1>6 DEF NewReview, RepoChange, Outage, Tick, setting, Resources
  <2> QED
    BY <1>1, <2>1, WorldKeepsTimes DEF DatedInvariant
<1>7. CASE UNCHANGED vars
  BY <1>1, <1>7 DEF vars, DatedInvariant, TimesPast, setting
<1> QED
  BY <1>3, <1>5, <1>6, <1>7 DEF Next

\* A claim about a reachable resource nobody touched is confirmed by its version, for
\* every signal GitHub answers with and also after answers of "not modified": nothing
\* else in the repository, no passage of time and no echo refutes it.
THEOREM Unrefuted == Spec => []UnchangedIsConfirmed
<1>1. ASSUME DatedInvariant
      PROVE  UnchangedIsConfirmed
  <2> SUFFICES ASSUME reachable, policy.components = {"version"}, claim.version # Null,
                      resource = seen,
                      \/ kind \in {"pull_request", "issue"}
                      \/ kind \in {"branch", "ci_status", "file"} /\ claim.observed_at = Null
               PROVE  Verdict = "FRESH"
    BY DEF UnchangedIsConfirmed
  <2> DEFINE answer == Fetch(claim.version)
  <2>1. TypeOK /\ TimesPast /\ ClaimCitesSeen
    BY <1>1 DEF DatedInvariant, AnswerInvariant
  <2>2. /\ policy.skew \in Nat /\ clock \in Nat /\ resource.updated_at \in Nat
        /\ claim.observed_at # Null => claim.observed_at \in Nat
        /\ claim.content_hash = Null
    BY <2>1 DEF TypeOK, FreshnessPolicies, Resources, Optional
  <2>3. claim.version = VersionOf(resource)
    BY <2>1 DEF ClaimCitesSeen, Cited
  <2>4. ~FutureStamp(claim, clock, policy.skew)
    BY <2>1, <2>2 DEF FutureStamp, TimesPast
  <2>5. answer.available /\ answer.version = claim.version /\ ~ServerStampedDrift(claim, answer, policy.skew)
    <3>1. CASE IsNotModified(claim.version)
      <4>1. answer = NotModified
        BY <3>1 DEF Fetch
      <4> QED
        BY <4>1 DEF NotModified, ServerStampedDrift
    <3>2. CASE ~IsNotModified(claim.version)
      <4>1. answer = BuildSnapshot("resource")
        BY <3>2 DEF Fetch, UrlFor
      <4>2. answer.version = claim.version
        BY <2>1, <2>3, <4>1, PickVersionAtResource DEF BuildSnapshot
      <4>3. CASE claim.observed_at = Null
        BY <4>1, <4>2, <4>3 DEF BuildSnapshot, ServerStampedDrift
      <4>4. CASE claim.observed_at # Null
        <5>1. answer.observed_at = resource.updated_at /\ answer.available
          BY <4>1, <4>4 DEF BuildSnapshot, ObservedAt
        <5>2. resource.updated_at <= claim.observed_at
          BY <2>1, <4>4 DEF TimesPast
        <5> QED
          BY <2>2, <4>2, <4>4, <5>1, <5>2 DEF ServerStampedDrift
      <4> QED
        BY <4>3, <4>4
    <3> QED
      BY <3>1, <3>2
  <2> HIDE DEF answer
  <2>6. ~ProvenDrift(claim, answer, policy.skew)
    BY <2>2, <2>5 DEF ProvenDrift, VersionDrift, HashDrift
  <2>7. EvaluateComponent("version", claim, answer, policy, Passed, clock) = "FRESH"
    BY <2>5 DEF EvaluateComponent, EvaluateVersion
  <2>8. {EvaluateComponent(s, claim, answer, policy, Passed, clock) : s \in policy.components}
            = {"FRESH"}
    BY <2>7
  <2>9. WorstOf({"FRESH"}) = "FRESH"
    BY WorstOfMember DEF Classes
  <2>10. EvaluateFreshness(claim, answer, policy, Passed, clock) = "FRESH"
    BY <2>4, <2>5, <2>6, <2>8, <2>9 DEF EvaluateFreshness
  <2> QED
    BY <2>10 DEF Verdict, answer
<1>2. Init => DatedInvariant
  <2>1. Init => TimesPast
    BY DEF Init, TimesPast
  <2> QED
    BY <2>1, InitAnswers DEF DatedInvariant
<1> QED
  BY <1>1, <1>2, StepDates, PTL DEF Spec

=============================================================================
