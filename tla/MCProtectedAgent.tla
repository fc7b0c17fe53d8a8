-------------------------- MODULE MCProtectedAgent --------------------------
(* An agent with a conditional tool and one with a plain tool. *)
EXTENDS ProtectedAgent

CONSTANTS a1, a2

MCAgents == {a1, a2}
MCConditional == {a1}

\* The signals of a server that honours If-Match (a version from another header or from
\* the body fares like a weak ETag), two servers that do not, and a policy that adopts what
\* it finds.
MCDeployments ==
    [signal : {"etag", "weak", "modified", "none"}, kind : {"honours"}, refuted : {"denied"}]
        \cup [signal : {"etag"}, kind : {"ignores", "see_other"}, refuted : {"denied"}]
        \cup [signal : {"etag"}, kind : {"honours"}, refuted : {"adopted"}]
=============================================================================
