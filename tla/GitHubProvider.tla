---------------------------- MODULE GitHubProvider ----------------------------
(***************************************************************************)
(* What the GitHub provider answers for one resource, of any of its kinds, *)
(* and the verdict on an honest agent that cites what it was answered      *)
(* before (src/providers/github/github-provider.ts, read by                *)
(* src/engine/dependency-evaluator.ts).                                    *)
(*                                                                         *)
(* A full fetch and a conditional request take the version from different  *)
(* signals.  Signals of different origin are numbers of different residue: *)
(* an ETag never equals a commit id.  Agents declare no content hash.  The *)
(* two requests of one full fetch are one step.                            *)
(***************************************************************************)
EXTENDS Freshness

CONSTANTS
    PolicySet,      \* resolved freshness policies
    MaxPage,        \* bound on changes of the resource
    MaxRepoPage,    \* bound on changes of the repository object
    MaxTime         \* bound on the clock

ASSUME GitHubAssumption ==
    PolicySet \subseteq FreshnessPolicies /\ {MaxPage, MaxRepoPage, MaxTime} \subseteq Nat

Kinds == {"pull_request", "issue", "branch", "ci_status", "deployment", "release", "file"}

\* The page is the representation at the URL of the resource; its head is the id of
\* what it shows: head commit, blob, deployment or release.  State 1 is the good one.
Resources == [head : Nat, state : 0..1, review : 0..1, page : 0..MaxPage, updated_at : 0..MaxTime]

VARIABLES
    kind, policy,
    routed,     \* the field a routed precondition reads: "none", "state" or "review"
    etags,      \* whether answers carry ETags
    resource,   \* the authoritative state
    repo,       \* the repository object, at the root of all the URLs
    reachable,  \* whether requests are answered
    secondary,  \* whether the second request of a full fetch is
    claim,      \* what the agent declares
    seen,       \* ghost: the resource as the agent last read it
    clock

vars == <<kind, policy, routed, etags, resource, repo, reachable, secondary, claim, seen, clock>>

setting == <<kind, policy, routed, etags>>

TypeOK ==
    /\ kind \in Kinds
    /\ policy \in FreshnessPolicies
    /\ routed \in {"none", "state", "review"}
    /\ {etags, reachable, secondary} \subseteq BOOLEAN
    /\ {resource, seen} \subseteq Resources
    /\ repo \in [page : 0..MaxRepoPage, updated_at : 0..MaxTime]
    /\ claim \in [version : Optional(Nat), content_hash : {Null}, observed_at : Optional(0..MaxTime)]
    /\ clock \in 0..MaxTime

Init ==
    /\ kind \in Kinds
    /\ policy \in PolicySet
    /\ routed \in {"none", "state", "review"}
    /\ etags \in BOOLEAN
    /\ resource = [head |-> 0, state |-> 0, review |-> 0, page |-> 0, updated_at |-> 0]
    /\ repo = [page |-> 0, updated_at |-> 0]
    /\ reachable = TRUE
    /\ secondary = TRUE
    /\ claim = [version |-> Null, content_hash |-> Null, observed_at |-> Null]
    /\ seen = resource
    /\ clock = 0

-----------------------------------------------------------------------------
(* Signals. *)

Composite(head, state) == 5 * (3 * head + state)
PageTag(page) == 5 * page + 1
RepoTag(page) == 5 * page + 2
Id(head) == 5 * head + 3
Updated(time) == 5 * time + 4

UnknownState == 2

\* JavaScript's a ?? b.
OrElse(a, b) == IF a # Null THEN a ELSE b

EtagAt(url) ==
    IF ~etags THEN Null
    ELSE IF url = "resource" THEN PageTag(resource.page) ELSE RepoTag(repo.page)

\* Mutant: files fall through to the repository.
MutantFileFallsThrough == IF kind \in {"deployment", "file"} THEN "repository" ELSE "resource"

\* urlFor: deployments have no case and get the URL of the repository.
UrlFor == IF kind = "deployment" THEN "repository" ELSE "resource"

\* Mutant: the version of a CI status is its commit.
MutantVersionIsCommit(url) ==
    LET InBody(signal) == IF url = "resource" THEN signal ELSE Null
    IN  CASE kind \in {"pull_request", "branch", "file", "ci_status"} ->
                 OrElse(InBody(Id(resource.head)), EtagAt(url))
          [] kind = "issue" -> OrElse(EtagAt(url), InBody(Updated(resource.updated_at)))
          [] OTHER -> EtagAt(url)

\* pickVersion, from the body and the headers of the answer at a URL.
PickVersion(url) ==
    LET InBody(signal) == IF url = "resource" THEN signal ELSE Null
    IN  CASE kind \in {"pull_request", "branch", "file"} ->
                 OrElse(InBody(Id(resource.head)), EtagAt(url))
          [] kind = "ci_status" ->
                 OrElse(EtagAt(url), InBody(Composite(resource.head, resource.state)))
          [] kind = "issue" -> OrElse(EtagAt(url), InBody(Updated(resource.updated_at)))
          [] OTHER -> EtagAt(url)

\* The last update where the metadata has one, else the time of the fetch.
ObservedAt(url) ==
    IF kind \notin {"pull_request", "issue", "deployment", "release"} THEN clock
    ELSE IF url = "resource" THEN resource.updated_at ELSE repo.updated_at

-----------------------------------------------------------------------------
(* Answers. *)

\* buildSnapshot dates every snapshot as the server's, the time of the fetch too.
BuildSnapshot(url) ==
    [available |-> TRUE, version |-> PickVersion(url), content_hash |-> Null,
     observed_at |-> ObservedAt(url), server |-> TRUE, unchanged |-> FALSE]

\* getState without a declared version: a release is versioned by its id, a
\* deployment by its id and the status the second request reads.
FullFetch ==
    CASE kind = "release" -> [BuildSnapshot("resource") EXCEPT !.version = Id(resource.head)]
      [] kind = "deployment" ->
             [BuildSnapshot("resource") EXCEPT !.version =
                  Composite(resource.head, IF secondary THEN resource.state ELSE UnknownState)]
      [] OTHER -> BuildSnapshot("resource")

NotModified ==
    [available |-> TRUE, version |-> claim.version, content_hash |-> claim.content_hash,
     observed_at |-> OrElse(claim.observed_at, clock), server |-> FALSE, unchanged |-> TRUE]

IsNotModified(version) == version # Null /\ version = EtagAt(UrlFor)

\* getState and getConditional alike: a declared version makes the request conditional.
Fetch(version) ==
    IF ~reachable THEN UnavailableCurrentState
    ELSE IF IsNotModified(version) THEN NotModified
    ELSE IF version # Null THEN BuildSnapshot(UrlFor)
    ELSE FullFetch

\* Mutant: a 304 answers with the metadata of the agent.
MutantEchoesMetadata(version) == [state |-> seen.state, review |-> seen.review]

\* The metadata preconditions read.  A 304 has none, the repository has no state,
\* and only a full fetch asks for the reviews.
Metadata(version) ==
    [state  |-> IF \/ ~reachable
                   \/ IsNotModified(version)
                   \/ kind \in {"branch", "file"}
                   \/ version # Null /\ UrlFor = "repository"
                   \/ version = Null /\ kind = "deployment" /\ ~secondary
                THEN Null ELSE resource.state,
     review |-> IF reachable /\ version = Null /\ kind = "pull_request" /\ secondary
                THEN resource.review ELSE Null]

\* An absent field fails every comparison.
Passed ==
    CASE routed = "none"   -> TRUE
      [] routed = "state"  -> Metadata(claim.version).state = 1
      [] routed = "review" -> Metadata(claim.version).review = 1

Verdict == EvaluateFreshness(claim, Fetch(claim.version), policy, Passed, clock)

-----------------------------------------------------------------------------
(* The agent. *)

\* inspectState: the agent declares what it was answered, with or without the time.
Observe ==
    \E version \in {Null, claim.version}, dated \in BOOLEAN :
        /\ reachable
        /\ claim' = [version      |-> Fetch(version).version,
                     content_hash |-> Null,
                     observed_at  |-> IF dated THEN Fetch(version).observed_at ELSE Null]
        /\ seen' = IF Fetch(version).unchanged THEN seen ELSE resource
        /\ UNCHANGED <<setting, resource, repo, reachable, secondary, clock>>

-----------------------------------------------------------------------------
(* The outside world. *)

Changed(fields) ==
    /\ resource.page < MaxPage
    /\ resource' = [fields EXCEPT !.page = @ + 1, !.updated_at = clock]
    /\ UNCHANGED <<setting, repo, reachable, secondary, claim, seen, clock>>

\* A push, a new deployment, a new release under the tag; a CI status keeps its commit.
NewHead == kind # "ci_status" /\ Changed([resource EXCEPT !.head = @ + 1, !.state = 0])

NewState == Changed([resource EXCEPT !.state = 1 - @])

Edit == Changed(resource)

\* Reviews have a URL of their own.
NewReview ==
    /\ kind = "pull_request"
    /\ resource' = [resource EXCEPT !.review = 1 - @]
    /\ UNCHANGED <<setting, repo, reachable, secondary, claim, seen, clock>>

RepoChange ==
    /\ repo.page < MaxRepoPage
    /\ repo' = [page |-> repo.page + 1, updated_at |-> clock]
    /\ UNCHANGED <<setting, resource, reachable, secondary, claim, seen, clock>>

Outage ==
    /\ \/ reachable' = ~reachable /\ UNCHANGED secondary
       \/ /\ kind \in {"pull_request", "deployment"}
          /\ secondary' = ~secondary /\ UNCHANGED reachable
    /\ UNCHANGED <<setting, resource, repo, claim, seen, clock>>

Tick ==
    /\ clock < MaxTime
    /\ clock' = clock + 1
    /\ UNCHANGED <<setting, resource, repo, reachable, secondary, claim, seen>>

Next == Observe \/ NewHead \/ NewState \/ Edit \/ NewReview \/ RepoChange \/ Outage \/ Tick

Spec == Init /\ [][Next]_vars

-----------------------------------------------------------------------------
(* Properties. *)

\* What the version signal of a kind stands for (docs/providers.md, "GitHub provider").
Covered(r) ==
    CASE kind \in {"pull_request", "branch", "file", "release"} -> <<r.head>>
      [] kind \in {"ci_status", "deployment"} -> <<r.head, r.state>>
      [] kind = "issue" -> IF etags THEN <<r.page>> ELSE <<r.updated_at>>

ConfirmedOn(kinds) ==
    (kind \in kinds /\ Verdict = "FRESH" /\ "version" \in policy.components)
        => Covered(seen) = Covered(resource)

\* An honest claim is confirmed only while what its version stands for is what the
\* agent read, whichever of its signals GitHub answered with then and answers now.
ConfirmedMeansUnchanged == ConfirmedOn(Kinds \ {"deployment"})

\* A reachable resource nobody touched is confirmed, whatever happens to the rest of
\* its repository.  Not so releases and deployments, nor dated claims about a branch,
\* a CI status or a file: the README says why.
UnchangedIsConfirmed ==
    (/\ reachable
     /\ policy.components = {"version"}
     /\ claim.version # Null
     /\ resource = seen
     /\ \/ kind \in {"pull_request", "issue"}
        \/ kind \in {"branch", "ci_status", "file"} /\ claim.observed_at = Null)
        => Verdict = "FRESH"

\* A routed precondition passes only on what GitHub says now, never on the word of
\* the agent, also where the request was answered with a 304.
PassedPreconditionHolds ==
    /\ (routed = "state" /\ Passed) => resource.state = 1
    /\ (routed = "review" /\ Passed) => resource.review = 1
=============================================================================
