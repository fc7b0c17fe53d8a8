---------------------------- MODULE MCObservation ----------------------------
(* Small instances of Observation for TLC. *)
EXTENDS Observation

\* Honest, incomplete, wrong and future-dated claims.
MCClaims ==
    [version : {Null, 0, 1}, content_hash : {Null, 0, 1}, observed_at : {Null, 0, 1, 4}]

MCPolicy(components, maxAge, skew) ==
    [components |-> components, max_age |-> maxAge, aging_percent |-> 75, skew |-> skew]

MCPolicies ==
    { MCPolicy({"ttl"}, 2, 0), MCPolicy({"ttl"}, 2, 1), MCPolicy({"version"}, Null, 0),
      MCPolicy({"hash"}, Null, 0), MCPolicy({"preconditions"}, Null, 0),
      MCPolicy({"ttl", "version", "preconditions"}, Null, 0) }

\* The in-memory, GitHub-like and HTTP providers, and one without versions.
MCProviders ==
    { [version |-> TRUE, hash |-> TRUE, server |-> FALSE, conditional |-> "own_hash"],
      [version |-> TRUE, hash |-> TRUE, server |-> TRUE, conditional |-> "none"],
      [version |-> TRUE, hash |-> TRUE, server |-> TRUE, conditional |-> "echo_hash"],
      [version |-> FALSE, hash |-> FALSE, server |-> TRUE, conditional |-> "none"] }
=============================================================================
