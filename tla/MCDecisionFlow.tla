--------------------------- MODULE MCDecisionFlow ---------------------------
(* Small instances of DecisionFlow for TLC. *)
EXTENDS DecisionFlow

Uniform(outcome) == [basis \in Bases |-> outcome]

\* Every uniform table, and the two shapes operators write: tolerant of
\* uncertainty, and escalating it.
MCPolicies ==
    { Uniform(o) : o \in Outcomes \cup {"unset"} } \cup
    { [Uniform("unset") EXCEPT !["unknown"] = "allow", !["aging"] = "allow"],
      [Uniform("unset") EXCEPT !["unknown"] = "escalate", !["invalid"] = "revalidate"] }

MCDefaults == { Uniform("unset"), Uniform("allow") }
=============================================================================
