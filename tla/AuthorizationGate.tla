-------------------------- MODULE AuthorizationGate --------------------------
(***************************************************************************)
(* What the authorization of the enforcement boundary promises, without    *)
(* validation, decisions or time: an action id has one holder at a time,   *)
(* an executor is invoked by the holder only and at most once per call,    *)
(* only a holder whose executor was invoked gives the id up, and an effect *)
(* belongs to an executor that was invoked.  A holder may also keep the id *)
(* for good, when its recheck denies or its process dies.                  *)
(*                                                                         *)
(* ExecuteAction implements this specification.  It does not promise that  *)
(* the effects of one action id exclude each other: an executor that       *)
(* outlived its deadline applies after its call gave the id up.            *)
(***************************************************************************)
CONSTANTS Calls, NoCall, ActionIds

VARIABLES
    holder,     \* per action id, the call that holds it, or NoCall
    claimants,  \* calls that were ever granted an authorization
    started,    \* calls whose executor was invoked
    applied     \* calls whose executor applied its effect

gateVars == <<holder, claimants, started, applied>>

Init ==
    /\ holder = [a \in ActionIds |-> NoCall]
    /\ claimants = {}
    /\ started = {}
    /\ applied = {}

Grant(c, a) ==
    /\ holder[a] = NoCall
    /\ c \notin claimants
    /\ holder' = [holder EXCEPT ![a] = c]
    /\ claimants' = claimants \cup {c}

\* A claim, followed at once by the executor where no recheck is needed.
Claim(c, a) ==
    /\ Grant(c, a)
    /\ started' \in {started, started \cup {c}}
    /\ UNCHANGED applied

Start(c, a) ==
    /\ holder[a] = c
    /\ c \notin started
    /\ started' = started \cup {c}
    /\ UNCHANGED <<holder, claimants, applied>>

Release(c, a) ==
    /\ holder[a] = c
    /\ c \in started
    /\ holder' = [holder EXCEPT ![a] = NoCall]
    /\ UNCHANGED <<claimants, started, applied>>

Apply(c) ==
    /\ c \in started \ applied
    /\ applied' = applied \cup {c}
    /\ UNCHANGED <<holder, claimants, started>>

Next ==
    \E c \in Calls :
        \/ \E a \in ActionIds : Claim(c, a) \/ Start(c, a) \/ Release(c, a)
        \/ Apply(c)

Spec == Init /\ [][Next]_gateVars
=============================================================================
