----------------------------- MODULE Observation -----------------------------
(***************************************************************************)
(* One dependency an agent declared, classified again and again while time *)
(* passes, the resource changes at its provider and the provider comes and *)
(* goes.  The verdict at any moment is what evaluateDependencies would     *)
(* compute from a fetch made then.                                         *)
(*                                                                         *)
(* The resource belongs to the outside world.  The provider decides which  *)
(* signals of it a snapshot carries.                                       *)
(***************************************************************************)
EXTENDS Freshness

CONSTANTS
    ClaimSet,       \* claims an agent may declare, honest or fabricated
    PolicySet,      \* resolved freshness policies
    ProviderSet,    \* providers: which signals their snapshots carry
    Contents,       \* contents of the resource; the content is its own hash
    GoodContents,   \* contents on which the routed preconditions hold
    MaxVersion,     \* bound on mutations of the resource
    MaxTime         \* bound on the clock

\* `conditional` says how a provider answers a version check with "unchanged":
\* not at all, with its own content hash, or echoing the claim's (HTTP 304).
Providers == [version : BOOLEAN, hash : BOOLEAN, server : BOOLEAN,
              conditional : {"none", "own_hash", "echo_hash"}]

ASSUME ObservationAssumption ==
    /\ GoodContents \subseteq Contents
    /\ Contents \subseteq Nat
    /\ ClaimSet \subseteq Claims
    /\ PolicySet \subseteq FreshnessPolicies
    /\ ProviderSet \subseteq Providers
    /\ DefaultMaxAge \in Nat

VARIABLES
    claim,      \* the declared observation
    policy,     \* the freshness policy that applies to it
    provider,   \* the provider that answers for it
    resource,   \* the authoritative state: [version, content, changed_at]
    reachable,  \* whether a fetch succeeds
    clock

vars == <<claim, policy, provider, resource, reachable, clock>>

Init ==
    /\ claim \in ClaimSet
    /\ policy \in PolicySet
    /\ provider \in ProviderSet
    /\ \E content \in Contents :
           resource = [version |-> 0, content |-> content, changed_at |-> 0]
    /\ reachable = TRUE
    /\ clock = 0

-----------------------------------------------------------------------------
(* Fetching. *)

When(carried, signal) == IF carried THEN signal ELSE Null

\* StateProvider.getState: what the provider exposes of the resource.
FullFetch ==
    [available |-> TRUE,
     version |-> When(provider.version, resource.version),
     content_hash |-> When(provider.hash, resource.content),
     observed_at |-> resource.changed_at,
     server |-> provider.server,
     unchanged |-> FALSE]

\* StateProvider.getConditional, when the resource is at the declared version.
NotModified ==
    [available |-> TRUE,
     version |-> claim.version,
     content_hash |-> IF provider.conditional = "echo_hash"
                      THEN claim.content_hash ELSE resource.content,
     observed_at |-> IF claim.observed_at # Null THEN claim.observed_at
                     ELSE IF provider.conditional = "echo_hash"
                     THEN clock ELSE resource.changed_at,
     server |-> provider.server /\ provider.conditional = "own_hash",
     unchanged |-> TRUE]

\* A 304 carries no metadata, so routed preconditions force a full fetch.
FetchCurrent ==
    IF ~reachable THEN UnavailableCurrentState
    ELSE IF /\ "preconditions" \notin policy.components
            /\ provider.conditional # "none"
            /\ claim.version = resource.version
         THEN NotModified
         ELSE FullFetch

PreconditionsHold == resource.content \in GoodContents

\* The verdict of the initial evaluation, and the one revalidation computes.
Verdict == EvaluateFreshness(claim, FetchCurrent, policy, PreconditionsHold, clock)

RevalidatedVerdict ==
    RecomputeFreshness(Verdict, FetchCurrent, policy, PreconditionsHold, clock, clock)

-----------------------------------------------------------------------------
(* The outside world. *)

Tick ==
    /\ clock < MaxTime
    /\ clock' = clock + 1
    /\ UNCHANGED <<claim, policy, provider, resource, reachable>>

Mutate ==
    /\ resource.version < MaxVersion
    /\ \E content \in Contents :
           resource' = [version |-> resource.version + 1,
                        content |-> content, changed_at |-> clock]
    /\ UNCHANGED <<claim, policy, provider, reachable, clock>>

Outage ==
    /\ reachable' = ~reachable
    /\ UNCHANGED <<claim, policy, provider, resource, clock>>

Next == Tick \/ Mutate \/ Outage

Spec == Init /\ [][Next]_vars

-----------------------------------------------------------------------------
(* Properties. *)

Usable == {"FRESH", "AGING", "STALE"}

\* A resource that moved past the declared version is never graded on age: with
\* a version signal the verdict is INVALID or UNKNOWN under every strategy, so
\* neither a generous TTL nor an outage can make the drifted claim usable.
DriftedVersionIsNeverUsable ==
    (provider.version /\ claim.version # Null /\ claim.version # resource.version)
        => Verdict \notin Usable

\* A server-stamped change later than the claimed observation (beyond the skew)
\* makes an unversioned claim unusable, whatever TTL the policy grants it.
ServerStampedChangeIsNeverUsable ==
    (/\ provider.server
     /\ claim.version = Null
     /\ claim.observed_at # Null
     /\ resource.changed_at > claim.observed_at + policy.skew)
        => Verdict \notin Usable

\* A FRESH verdict under a version component means the resource is exactly at
\* the declared version, also when the provider only answered "not modified".
FreshVersionIsCurrent ==
    (Verdict = "FRESH" /\ "version" \in policy.components) => claim.version = resource.version

\* Revalidation adopts the fetched state as its basis, but it cannot launder a
\* failed invariant: with a preconditions component the recomputed verdict on a
\* bad content is never FRESH.
RevalidationKeepsInvariants ==
    ("preconditions" \in policy.components /\ ~PreconditionsHold)
        => RevalidatedVerdict # "FRESH"

\* Waiting never improves a verdict: as the clock advances over an unchanged
\* world the class only gets more severe, except that a future-dated claim
\* stops being in the future.
WaitingNeverImproves ==
    [][ clock' > clock =>
            \/ Severity[Verdict] <= Severity[Verdict']
            \/ FutureStamp(claim, clock, policy.skew) ]_vars
=============================================================================
