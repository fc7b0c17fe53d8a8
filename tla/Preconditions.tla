---------------------------- MODULE Preconditions ----------------------------
(***************************************************************************)
(* Preconditions: conditions on the metadata of the current state, written *)
(* in policies and intents (src/engine/preconditions.ts), and what the     *)
(* validation of a configuration accepts of them (checkPrecondition in     *)
(* src/config/validation.ts).                                              *)
(*                                                                         *)
(* A value is a scalar or a list of scalars.  The string n is a letter     *)
(* repeated n times, so it includes the strings up to n and, read as a     *)
(* pattern, matches the strings that include it; BadPattern is the string  *)
(* that is no regular expression.                                          *)
(***************************************************************************)
EXTENDS Integers

Operators == {"equals", "not_equals", "contains", "not_contains", "exists", "not_exists",
              "greater_than", "less_than", "in", "not_in", "matches"}

BadPattern == 0

Scalars == [type : {"string", "number", "null"}, n : Nat]

\* `items` are the elements of a list, {} for a scalar.
Values == [type : {"string", "number", "null", "list"}, n : Nat, items : SUBSET Scalars]

Scalar(value) == [type |-> value.type, n |-> value.n]

\* Where a path leads in the metadata: nowhere, or to a value.
Subjects == [found : BOOLEAN, value : Values]

\* A precondition as written: `given` says whether it has a value at all, `well_formed`
\* whether field and routing pattern are nonempty strings and no other key is there.
WrittenPreconditions ==
    [operator : Operators \cup {"malformed"}, given : BOOLEAN, value : Values, well_formed : BOOLEAN]

-----------------------------------------------------------------------------
(* Evaluation. *)

StructurallyEqual(a, b) == a.type = b.type /\ a.n = b.n /\ a.items = b.items

Includes(a, b) == a.n = b.n \/ (b.n # BadPattern /\ b.n <= a.n)

\* Membership in a list; anything but a list has no members.
ElementOf(value, list) ==
    list.type = "list" /\ value.type # "list" /\ Scalar(value) \in list.items

ContainsElement(subject, expected) ==
    IF subject.type = "string" /\ expected.type = "string"
    THEN Includes(subject, expected)
    ELSE ElementOf(expected, subject)

BothOf(type, a, b) == a.type = type /\ b.type = type

\* The comparison of a value that was found.
Holds(operator, subject, expected) ==
    CASE operator = "equals"       -> StructurallyEqual(subject, expected)
      [] operator = "not_equals"   -> ~StructurallyEqual(subject, expected)
      [] operator = "contains"     -> ContainsElement(subject, expected)
      [] operator = "not_contains" -> ~ContainsElement(subject, expected)
      [] operator = "greater_than" -> BothOf("number", subject, expected) /\ subject.n > expected.n
      [] operator = "less_than"    -> BothOf("number", subject, expected) /\ subject.n < expected.n
      [] operator = "in"           -> ElementOf(subject, expected)
      [] operator = "not_in"       -> ~ElementOf(subject, expected)
      [] operator = "matches"      -> BothOf("string", subject, expected) /\ Includes(subject, expected)

\* new RegExp(pattern) throws, an operator the switch does not know throws.
Throws(precondition, subject) ==
    \/ precondition.operator \notin Operators
    \/ /\ precondition.operator = "matches" /\ subject.found
       /\ BothOf("string", subject.value, precondition.value)
       /\ precondition.value.n = BadPattern

\* evaluatePrecondition: "passed", "failed", or the exception that ends the call.
EvaluatePrecondition(precondition, subject) ==
    LET passed ==
            CASE precondition.operator = "exists"     -> subject.found
              [] precondition.operator = "not_exists" -> ~subject.found
              [] OTHER -> subject.found /\ Holds(precondition.operator, subject.value, precondition.value)
    IN  IF Throws(precondition, subject) THEN "throws" ELSE IF passed THEN "passed" ELSE "failed"

-----------------------------------------------------------------------------
(* Validation. *)

AcceptedPrecondition(p) ==
    /\ p.well_formed
    /\ p.operator \in Operators
    /\ p.given = (p.operator \notin {"exists", "not_exists"})
    /\ p.operator \in {"greater_than", "less_than"} => p.value.type = "number"
    /\ p.operator = "matches" => p.value.type = "string" /\ p.value.n # BadPattern
    /\ p.operator \in {"in", "not_in"} => p.value.type = "list"
=============================================================================
