------------------------------ MODULE Freshness ------------------------------
(***************************************************************************)
(* The freshness engine: how one declared dependency is classified against *)
(* the current state the firewall fetched (src/engine/staleness.ts,        *)
(* src/engine/freshness.ts), and how revalidation adopts a fetched         *)
(* snapshot as the new basis (src/application/revalidate-action.ts).       *)
(*                                                                         *)
(* Versions, content hashes and timestamps are naturals; a field the agent *)
(* or the provider leaves out is Null.                                     *)
(***************************************************************************)
EXTENDS Integers

CONSTANT DefaultMaxAge  \* DEFAULT_MAX_AGE_MS, in clock units

Null == -1

Optional(S) == S \cup {Null}

Classes == {"FRESH", "AGING", "STALE", "UNKNOWN", "INVALID"}

Severity == [FRESH |-> 0, AGING |-> 1, STALE |-> 2, UNKNOWN |-> 3, INVALID |-> 4]

\* The most severe class of a nonempty set of classes.
WorstOf(classes) ==
    CHOOSE c \in classes : \A d \in classes : Severity[d] <= Severity[c]

Strategies == {"ttl", "version", "hash", "preconditions"}

\* What the agent says it observed.
Claims == [version : Optional(Nat), content_hash : Optional(Nat), observed_at : Optional(Nat)]

\* What a provider fetch returned; `available` is FALSE for a failed fetch.
\* `server` is the provenance time_source, `unchanged` a 304 affirmation.
Snapshots == [available : BOOLEAN, version : Optional(Nat), content_hash : Optional(Nat),
              observed_at : Optional(Nat), server : BOOLEAN, unchanged : BOOLEAN]

UnavailableCurrentState ==
    [available |-> FALSE, version |-> Null, content_hash |-> Null,
     observed_at |-> Null, server |-> FALSE, unchanged |-> FALSE]

\* A simple strategy is a hybrid with one component.
FreshnessPolicies == [components : (SUBSET Strategies) \ {{}}, max_age : Optional(Nat),
                      aging_percent : 1..100, skew : Nat]

-----------------------------------------------------------------------------
(* Age of the claim. *)

NonNegative(n) == IF n < 0 THEN 0 ELSE n

FutureStamp(claim, now, skew) ==
    claim.observed_at # Null /\ claim.observed_at > now + skew

AgeOf(claim, now, skew) ==
    IF claim.observed_at = Null \/ FutureStamp(claim, now, skew)
    THEN Null
    ELSE NonNegative(now - claim.observed_at)

\* Mutant: only the limit itself counts as stale.
MutantStaleAtLimitOnly(age, maxAge, agingPercent) ==
    IF age = maxAge THEN "STALE"
    ELSE IF 100 * age > agingPercent * maxAge THEN "AGING" ELSE "FRESH"

ClassifyByAge(age, maxAge, agingPercent) ==
    IF age >= maxAge THEN "STALE"
    ELSE IF 100 * age > agingPercent * maxAge THEN "AGING" ELSE "FRESH"

-----------------------------------------------------------------------------
(* Drift that is proven whatever the strategy. *)

\* Mutant: an older current version is not drift.
MutantOnlyNewerVersions(claim, current) ==
    claim.version # Null /\ current.version # Null /\ claim.version < current.version

VersionDrift(claim, current) ==
    /\ claim.version # Null
    /\ current.version # Null
    /\ claim.version # current.version

HashDrift(claim, current) ==
    /\ claim.content_hash # Null
    /\ current.content_hash # Null
    /\ claim.content_hash # current.content_hash

\* Mutant: the skew allowance is granted twice.
MutantDoubleSkew(claim, current, skew) ==
    /\ claim.observed_at # Null /\ current.server /\ current.observed_at # Null
    /\ current.observed_at > claim.observed_at + 2 * skew

ServerStampedDrift(claim, current, skew) ==
    /\ claim.observed_at # Null
    /\ current.server
    /\ current.observed_at # Null
    /\ current.observed_at > claim.observed_at + skew

\* Mutant: a version difference is not proof of drift.
MutantTrustsVersions(claim, current, skew) ==
    HashDrift(claim, current) \/ ServerStampedDrift(claim, current, skew)

ProvenDrift(claim, current, skew) ==
    \/ VersionDrift(claim, current)
    \/ HashDrift(claim, current)
    \/ ServerStampedDrift(claim, current, skew)

-----------------------------------------------------------------------------
(* Strategies. *)

EvaluateTtl(claim, policy, now) ==
    LET age == AgeOf(claim, now, policy.skew)
        maxAge == IF policy.max_age = Null THEN DefaultMaxAge ELSE policy.max_age
    IN  IF age = Null THEN "UNKNOWN"
        ELSE ClassifyByAge(NonNegative(age - policy.skew), maxAge, policy.aging_percent)

\* Equality of the versions is already established: a difference is drift.
EvaluateVersion(claim, current) ==
    IF claim.version # Null /\ (current.unchanged \/ current.version # Null)
    THEN "FRESH" ELSE "UNKNOWN"

EvaluateHash(claim, current) ==
    IF claim.content_hash # Null /\ current.content_hash # Null
    THEN "FRESH" ELSE "UNKNOWN"

EvaluateComponent(strategy, claim, current, policy, passed, now) ==
    CASE strategy = "ttl"           -> EvaluateTtl(claim, policy, now)
      [] strategy = "version"       -> EvaluateVersion(claim, current)
      [] strategy = "hash"          -> EvaluateHash(claim, current)
      [] strategy = "preconditions" -> IF passed THEN "FRESH" ELSE "INVALID"

\* evaluateFreshness: `passed` says whether every precondition routed to the
\* dependency holds on the fetched metadata.
EvaluateFreshness(claim, current, policy, passed, now) ==
    IF ~current.available \/ FutureStamp(claim, now, policy.skew) THEN "UNKNOWN"
    ELSE IF ProvenDrift(claim, current, policy.skew) THEN "INVALID"
    ELSE WorstOf({EvaluateComponent(s, claim, current, policy, passed, now) :
                      s \in policy.components})

-----------------------------------------------------------------------------
(* Revalidation. *)

\* The fetched snapshot becomes the basis, dated by its own retrieval.
Adopt(snapshot, retrievedAt) ==
    [version |-> snapshot.version, content_hash |-> snapshot.content_hash,
     observed_at |-> retrievedAt]

\* Mutant: the recomputation takes the preconditions as passed.
MutantSkipsPreconditions(original, snapshot, policy, passed, retrievedAt, now) ==
    IF snapshot.available
    THEN EvaluateFreshness(Adopt(snapshot, retrievedAt), snapshot, policy, TRUE, now)
    ELSE original

\* A dependency without a snapshot keeps the verdict it had.
RecomputeFreshness(original, snapshot, policy, passed, retrievedAt, now) ==
    IF snapshot.available
    THEN EvaluateFreshness(Adopt(snapshot, retrievedAt), snapshot, policy, passed, now)
    ELSE original
=============================================================================
