--------------------------- MODULE MCGitHubProvider ---------------------------
(* A small instance of GitHubProvider for TLC. *)
EXTENDS GitHubProvider

MCPolicies ==
    {[components |-> components, max_age |-> Null, aging_percent |-> 75, skew |-> 0] :
         components \in {{"version"}, {"version", "preconditions"}}}
=============================================================================
