-------------------------- MODULE ObservationProofs --------------------------
(***************************************************************************)
(* Proofs about Observation: what the class of a dependency says, for      *)
(* every claim, policy and provider, whatever the resource does and        *)
(* however long the agent waits.                                           *)
(***************************************************************************)
EXTENDS Observation, DecisionLemmas

-----------------------------------------------------------------------------
(* The type invariant. *)

Resources == [version : Nat, content : Contents, changed_at : Nat]

TypeOK ==
    /\ claim \in Claims
    /\ policy \in FreshnessPolicies
    /\ provider \in Providers
    /\ resource \in Resources
    /\ reachable \in BOOLEAN
    /\ clock \in Nat

\* Every reachable state is one of claims, policies, providers and resources
\* of the types the engine is given.
LEMMA TypeInvariant == Spec => []TypeOK
<1>1. Init => TypeOK
  BY ObservationAssumption DEF Init, TypeOK, Resources
<1>2. TypeOK /\ [Next]_vars => TypeOK'
  <2> SUFFICES ASSUME TypeOK, [Next]_vars PROVE TypeOK'
    OBVIOUS
  <2> USE DEF TypeOK, Resources
  <2>1. CASE Tick
    BY <2>1 DEF Tick
  <2>2. CASE Mutate
    BY <2>2 DEF Mutate
  <2>3. CASE Outage
    BY <2>3 DEF Outage
  <2>4. CASE UNCHANGED vars
    BY <2>4 DEF vars
  <2> QED
    BY <2>1, <2>2, <2>3, <2>4 DEF Next
<1> QED
  BY <1>1, <1>2, PTL DEF Spec

-----------------------------------------------------------------------------
(* What a fetch says. *)

\* Under a version signal the resource has left, a fetch that gets an answer is
\* a full fetch that shows the difference.
LEMMA FullFetchOfMoved ==
    ASSUME TypeOK, claim.version # resource.version, reachable
    PROVE  FetchCurrent = FullFetch
BY DEF FetchCurrent

\* Proven drift outranks every strategy: the verdict is UNKNOWN or INVALID.
LEMMA DriftIsNeverUsable ==
    ASSUME NEW current, current.available, NEW p, NEW passed, NEW now,
           NEW c, ProvenDrift(c, current, p.skew)
    PROVE  EvaluateFreshness(c, current, p, passed, now) \notin Usable
BY DEF EvaluateFreshness, Usable

\* A verdict with a component that is not FRESH is not FRESH.
LEMMA FreshIsUnanimous ==
    ASSUME NEW p \in FreshnessPolicies, NEW c, NEW current, NEW passed, NEW now,
           EvaluateFreshness(c, current, p, passed, now) = "FRESH"
    PROVE  /\ current.available
           /\ ~ProvenDrift(c, current, p.skew)
           /\ \A s \in p.components :
                  EvaluateComponent(s, c, current, p, passed, now) = "FRESH"
<1> DEFINE E(s) == EvaluateComponent(s, c, current, p, passed, now)
           S == {E(s) : s \in p.components}
<1>1. /\ current.available
      /\ ~ProvenDrift(c, current, p.skew)
      /\ WorstOf(S) = "FRESH"
  BY DEF EvaluateFreshness
<1>2. p.components \in SUBSET Strategies /\ p.components # {}
  BY DEF FreshnessPolicies
<1>3. S \in SUBSET Classes /\ S # {}
  BY <1>2, EvaluateComponentType
<1>4. \A d \in S : Severity[d] <= Severity["FRESH"]
  BY <1>1, <1>3, WorstOfMember
<1>5. \A d \in S : d = "FRESH"
  BY <1>3, <1>4 DEF Classes, Severity
<1> QED
  BY <1>1, <1>5

-----------------------------------------------------------------------------
(* The safety invariants. *)

\* A claim whose version the resource left is UNKNOWN or INVALID under every
\* strategy: drift is decided before any strategy is asked (staleness.ts).
THEOREM DriftedVersions == Spec => []DriftedVersionIsNeverUsable
<1>1. TypeOK => DriftedVersionIsNeverUsable
  <2> SUFFICES ASSUME TypeOK, provider.version, claim.version # Null,
                      claim.version # resource.version
               PROVE  Verdict \notin Usable
    BY DEF DriftedVersionIsNeverUsable
  <2>1. CASE ~reachable
    BY <2>1 DEF Verdict, FetchCurrent, UnavailableCurrentState, EvaluateFreshness, Usable
  <2>2. CASE reachable
    <3>1. FetchCurrent = FullFetch
      BY <2>2, FullFetchOfMoved
    <3>2. FullFetch.available /\ FullFetch.version = resource.version
      BY DEF FullFetch, When
    <3>3. resource.version # Null
      BY DEF TypeOK, Resources, Null
    <3>4. ProvenDrift(claim, FullFetch, policy.skew)
      BY <3>2, <3>3 DEF ProvenDrift, VersionDrift
    <3> QED
      BY <3>1, <3>2, <3>4, DriftIsNeverUsable DEF Verdict
  <2> QED
    BY <2>1, <2>2 DEF TypeOK
<1> QED
  BY <1>1, TypeInvariant, PTL

\* An unversioned claim older than a change the server stamped is never graded
\* on age: only a version lets a provider answer "not modified", so the fetch
\* shows the stamp, and a stamp beyond the skew is proven drift.
THEOREM ServerStampedChanges == Spec => []ServerStampedChangeIsNeverUsable
<1>1. TypeOK => ServerStampedChangeIsNeverUsable
  <2> SUFFICES ASSUME TypeOK, provider.server, claim.version = Null,
                      claim.observed_at # Null,
                      resource.changed_at > claim.observed_at + policy.skew
               PROVE  Verdict \notin Usable
    BY DEF ServerStampedChangeIsNeverUsable
  <2>1. CASE ~reachable
    BY <2>1 DEF Verdict, FetchCurrent, UnavailableCurrentState, EvaluateFreshness, Usable
  <2>2. CASE reachable
    <3>1. resource.version # Null /\ resource.changed_at # Null
      BY DEF TypeOK, Resources, Null
    <3>2. FetchCurrent = FullFetch
      BY <2>2, <3>1, FullFetchOfMoved
    <3>3. /\ FullFetch.available
          /\ FullFetch.server
          /\ FullFetch.observed_at = resource.changed_at
      BY DEF FullFetch
    <3>4. ProvenDrift(claim, FullFetch, policy.skew)
      BY <3>1, <3>3 DEF ProvenDrift, ServerStampedDrift
    <3> QED
      BY <3>2, <3>3, <3>4, DriftIsNeverUsable DEF Verdict
  <2> QED
    BY <2>1, <2>2 DEF TypeOK
<1> QED
  BY <1>1, TypeInvariant, PTL

\* FRESH under a version component is a statement about the resource itself,
\* also when the provider only affirmed that nothing changed (a 304).
THEOREM FreshVersions == Spec => []FreshVersionIsCurrent
<1>1. TypeOK => FreshVersionIsCurrent
  <2> SUFFICES ASSUME TypeOK, Verdict = "FRESH", "version" \in policy.components,
                      claim.version # resource.version
               PROVE  FALSE
    BY DEF FreshVersionIsCurrent
  <2>1. policy \in FreshnessPolicies
    BY DEF TypeOK
  <2>2. /\ FetchCurrent.available
        /\ ~ProvenDrift(claim, FetchCurrent, policy.skew)
        /\ \A s \in policy.components :
               EvaluateComponent(s, claim, FetchCurrent, policy, PreconditionsHold, clock)
                   = "FRESH"
    BY <2>1, FreshIsUnanimous DEF Verdict
  <2>3. EvaluateVersion(claim, FetchCurrent) = "FRESH"
    BY <2>2 DEF EvaluateComponent
  <2>4. reachable
    BY <2>2 DEF FetchCurrent, UnavailableCurrentState
  <2>5. FetchCurrent = FullFetch
    BY <2>4, FullFetchOfMoved
  <2>6. claim.version # Null /\ FullFetch.version # Null
    BY <2>3, <2>5 DEF EvaluateVersion, FullFetch
  <2>7. FullFetch.version = resource.version
    BY <2>6 DEF FullFetch, When
  <2> QED
    BY <2>2, <2>5, <2>6, <2>7 DEF ProvenDrift, VersionDrift
<1> QED
  BY <1>1, TypeInvariant, PTL

\* Revalidation rebases the claim on the fetched snapshot, but evaluates the
\* routed preconditions again: a bad content is not FRESH a second time either.
THEOREM RevalidationKeeps == Spec => []RevalidationKeepsInvariants
<1>1. TypeOK => RevalidationKeepsInvariants
  <2> SUFFICES ASSUME TypeOK, "preconditions" \in policy.components, ~PreconditionsHold,
                      RevalidatedVerdict = "FRESH"
               PROVE  FALSE
    BY DEF RevalidationKeepsInvariants
  <2>1. policy \in FreshnessPolicies
    BY DEF TypeOK
  <2>2. ASSUME NEW c, NEW current,
               EvaluateFreshness(c, current, policy, PreconditionsHold, clock) = "FRESH"
        PROVE  FALSE
    <3>1. EvaluateComponent("preconditions", c, current, policy, PreconditionsHold, clock)
              = "FRESH"
      BY <2>1, <2>2, FreshIsUnanimous
    <3> QED
      BY <3>1 DEF EvaluateComponent
  <2> QED
    BY <2>2 DEF RevalidatedVerdict, RecomputeFreshness, Verdict
<1> QED
  BY <1>1, TypeInvariant, PTL

-----------------------------------------------------------------------------
(* Waiting. *)

\* The grade by age is monotone in the age.
LEMMA OlderIsNoBetter ==
    ASSUME NEW a \in Nat, NEW b \in Nat, a <= b, NEW maxAge \in Nat, NEW percent \in 1..100
    PROVE  Severity[ClassifyByAge(a, maxAge, percent)] <=
               Severity[ClassifyByAge(b, maxAge, percent)]
<1> DEFINE limit == percent * maxAge
<1>1. limit \in Nat
  OBVIOUS
<1>2. 100 * a > limit => 100 * b > limit
  <2> HIDE DEF limit
  <2> QED
    BY <1>1
<1>3. a >= maxAge => b >= maxAge
  OBVIOUS
<1> HIDE DEF limit
<1>4. /\ Severity["FRESH"] = 0
      /\ Severity["AGING"] = 1
      /\ Severity["STALE"] = 2
  BY DEF Severity
<1>5. \A n \in Nat : ClassifyByAge(n, maxAge, percent) =
          IF n >= maxAge THEN "STALE" ELSE IF 100 * n > limit THEN "AGING" ELSE "FRESH"
  BY DEF ClassifyByAge, limit
<1>6. \A n \in Nat : Severity[ClassifyByAge(n, maxAge, percent)] =
          IF n >= maxAge THEN 2 ELSE IF 100 * n > limit THEN 1 ELSE 0
  BY <1>4, <1>5
<1> QED
  BY <1>2, <1>3, <1>6

\* No strategy grades a claim more mildly at a later time.
LEMMA ComponentsOnlyAge ==
    ASSUME NEW c \in Claims, NEW p \in FreshnessPolicies, NEW current, NEW later,
           NEW passed, NEW now \in Nat, NEW then \in Nat, now <= then,
           ~FutureStamp(c, now, p.skew),
           later.version = current.version,
           later.content_hash = current.content_hash,
           later.unchanged = current.unchanged,
           NEW s \in Strategies
    PROVE  Severity[EvaluateComponent(s, c, current, p, passed, now)] <=
               Severity[EvaluateComponent(s, c, later, p, passed, then)]
<1>0. \A d \in Classes : Severity[d] \in Nat
  BY DEF Classes, Severity
<1>1. CASE s = "ttl"
  <2> DEFINE maxAge == IF p.max_age = Null THEN DefaultMaxAge ELSE p.max_age
             At(t) == NonNegative(AgeOf(c, t, p.skew) - p.skew)
  <2>1. p.skew \in Nat /\ p.aging_percent \in 1..100 /\ maxAge \in Nat
    BY ObservationAssumption DEF FreshnessPolicies, Optional, Null
  <2>2. CASE c.observed_at = Null
    <3>1. AgeOf(c, now, p.skew) = Null /\ AgeOf(c, then, p.skew) = Null
      BY <2>2 DEF AgeOf
    <3> QED
      BY <1>0, <1>1, <3>1 DEF EvaluateComponent, EvaluateTtl, Classes
  <2>3. CASE c.observed_at # Null
    <3>1. c.observed_at \in Nat
      BY <2>3 DEF Claims, Optional
    <3>2. ~FutureStamp(c, then, p.skew)
      BY <2>1, <3>1 DEF FutureStamp
    <3>3. /\ AgeOf(c, now, p.skew) = NonNegative(now - c.observed_at)
          /\ AgeOf(c, then, p.skew) = NonNegative(then - c.observed_at)
      BY <2>3, <3>2 DEF AgeOf
    <3>4. /\ AgeOf(c, now, p.skew) \in Nat
          /\ AgeOf(c, then, p.skew) \in Nat
          /\ AgeOf(c, now, p.skew) <= AgeOf(c, then, p.skew)
      BY <3>1, <3>3 DEF NonNegative
    <3>5. At(now) \in Nat /\ At(then) \in Nat /\ At(now) <= At(then)
      BY <2>1, <3>4 DEF NonNegative
    <3>6. \A t \in {now, then} : EvaluateTtl(c, p, t) =
              ClassifyByAge(At(t), maxAge, p.aging_percent)
      BY <3>4 DEF EvaluateTtl, Null
    <3> HIDE DEF At, maxAge
    <3>7. Severity[ClassifyByAge(At(now), maxAge, p.aging_percent)] <=
              Severity[ClassifyByAge(At(then), maxAge, p.aging_percent)]
      BY <2>1, <3>5, OlderIsNoBetter
    <3> QED
      BY <1>1, <3>6, <3>7 DEF EvaluateComponent
  <2> QED
    BY <2>2, <2>3
<1>2. CASE s # "ttl"
  <2>1. EvaluateComponent(s, c, current, p, passed, now) =
            EvaluateComponent(s, c, later, p, passed, then)
    BY <1>2 DEF EvaluateComponent, EvaluateVersion, EvaluateHash, Strategies
  <2>2. EvaluateComponent(s, c, later, p, passed, then) \in Classes
    BY EvaluateComponentType
  <2> QED
    BY <1>0, <2>1, <2>2
<1> QED
  BY <1>1, <1>2

\* Nor does their combination.
LEMMA VerdictsOnlyAge ==
    ASSUME NEW c \in Claims, NEW p \in FreshnessPolicies, NEW current, NEW later,
           NEW passed, NEW now \in Nat, NEW then \in Nat, now <= then,
           ~FutureStamp(c, now, p.skew),
           later.available = current.available,
           later.version = current.version,
           later.content_hash = current.content_hash,
           later.unchanged = current.unchanged,
           ProvenDrift(c, later, p.skew) <=> ProvenDrift(c, current, p.skew)
    PROVE  Severity[EvaluateFreshness(c, current, p, passed, now)] <=
               Severity[EvaluateFreshness(c, later, p, passed, then)]
<1>0. \A d \in Classes : Severity[d] \in Nat
  BY DEF Classes, Severity
<1>1. ~FutureStamp(c, then, p.skew)
  BY DEF FutureStamp, Claims, Optional, FreshnessPolicies
<1>2. CASE ~current.available
  BY <1>2 DEF EvaluateFreshness, Severity
<1>3. CASE current.available /\ ProvenDrift(c, current, p.skew)
  BY <1>1, <1>3 DEF EvaluateFreshness, Severity
<1>4. CASE current.available /\ ~ProvenDrift(c, current, p.skew)
  <2> DEFINE E(s) == EvaluateComponent(s, c, current, p, passed, now)
             L(s) == EvaluateComponent(s, c, later, p, passed, then)
             S == {E(s) : s \in p.components}
             T == {L(s) : s \in p.components}
  <2>1. p.components \in SUBSET Strategies /\ p.components # {}
    BY DEF FreshnessPolicies
  <2>2. S \in SUBSET Classes /\ S # {} /\ T \in SUBSET Classes /\ T # {}
    BY <2>1, EvaluateComponentType
  <2>3. WorstOf(S) \in S /\ WorstOf(T) \in T /\ \A d \in T : Severity[d] <= Severity[WorstOf(T)]
    BY <2>2, WorstOfMember
  <2>4. PICK s \in p.components : WorstOf(S) = E(s)
    BY <2>3
  <2>5. Severity[E(s)] <= Severity[L(s)]
    BY <2>1, ComponentsOnlyAge
  <2>6. Severity[L(s)] <= Severity[WorstOf(T)]
    BY <2>3
  <2>7. E(s) \in Classes /\ L(s) \in Classes /\ WorstOf(T) \in Classes
    BY <2>1, <2>2, <2>3, EvaluateComponentType
  <2>8. Severity[WorstOf(S)] <= Severity[WorstOf(T)]
    <3> HIDE DEF E, L, T, S
    <3> QED
      BY <1>0, <2>4, <2>5, <2>6, <2>7
  <2>9. /\ EvaluateFreshness(c, current, p, passed, now) = WorstOf(S)
        /\ EvaluateFreshness(c, later, p, passed, then) = WorstOf(T)
    BY <1>1, <1>4 DEF EvaluateFreshness
  <2> QED
    BY <2>8, <2>9
<1> QED
  BY <1>2, <1>3, <1>4

\* Over an unchanged world time only makes a class more severe, unless the
\* claim was dated in the future: an agent cannot wait its way to FRESH.
THEOREM WaitingIsMonotone == Spec => WaitingNeverImproves
<1>1. TypeOK /\ [Next]_vars =>
          [clock' > clock => \/ Severity[Verdict] <= Severity[Verdict']
                             \/ FutureStamp(claim, clock, policy.skew)]_vars
  <2> SUFFICES ASSUME TypeOK, Next, clock' > clock,
                      ~FutureStamp(claim, clock, policy.skew)
               PROVE  Severity[Verdict] <= Severity[Verdict']
    OBVIOUS
  <2>1. Tick
    BY DEF Next, Mutate, Outage, TypeOK
  <2>2. /\ clock' = clock + 1 /\ clock \in Nat
        /\ claim' = claim /\ policy' = policy /\ provider' = provider
        /\ resource' = resource /\ reachable' = reachable
        /\ claim \in Claims /\ policy \in FreshnessPolicies
    BY <2>1 DEF Tick, TypeOK
  <2>3. /\ FetchCurrent'.available = FetchCurrent.available
        /\ FetchCurrent'.version = FetchCurrent.version
        /\ FetchCurrent'.content_hash = FetchCurrent.content_hash
        /\ FetchCurrent'.unchanged = FetchCurrent.unchanged
        /\ FetchCurrent'.server = FetchCurrent.server
        /\ claim.observed_at # Null => FetchCurrent'.observed_at = FetchCurrent.observed_at
    BY <2>2 DEF FetchCurrent, FullFetch, NotModified, UnavailableCurrentState, When
  <2>4. ProvenDrift(claim, FetchCurrent', policy.skew)
            <=> ProvenDrift(claim, FetchCurrent, policy.skew)
    BY <2>3 DEF ProvenDrift, VersionDrift, HashDrift, ServerStampedDrift
  <2>5. Verdict' = EvaluateFreshness(claim, FetchCurrent', policy, PreconditionsHold, clock')
    BY <2>2 DEF Verdict, PreconditionsHold
  <2>6. clock' \in Nat /\ clock <= clock'
    BY <2>2
  <2> HIDE DEF FetchCurrent
  <2>7. Severity[EvaluateFreshness(claim, FetchCurrent, policy, PreconditionsHold, clock)] <=
            Severity[EvaluateFreshness(claim, FetchCurrent', policy, PreconditionsHold, clock')]
    BY <2>2, <2>3, <2>4, <2>6, VerdictsOnlyAge
  <2> QED
    BY <2>5, <2>7 DEF Verdict
<1> QED
  BY <1>1, TypeInvariant, PTL DEF Spec, WaitingNeverImproves
=============================================================================
