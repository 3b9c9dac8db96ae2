------------------------- MODULE AuthorizedService --------------------------
(***************************************************************************)
(* What a guarded gateway promises a fleet's owner, with nothing of how a  *)
(* gateway works: each request claims one right, a caller with an          *)
(* operation on an affordance, and the fleet is touched for it only after  *)
(* the right was found among the grants at one moment of the request's     *)
(* life.  Grants come and go at any time.                                  *)
(***************************************************************************)
CONSTANTS
    Requests,
    Rights,     \* <<caller, affordance, op>>
    NoRight     \* what a request claims before it is made

VARIABLES
    granted,    \* the rights the grant source gives now
    claim,      \* the right each request claims
    status      \* where each request is

serviceVars == <<granted, claim, status>>

ServiceInit ==
    /\ granted \subseteq Rights
    /\ claim = [r \in Requests |-> NoRight]
    /\ status = [r \in Requests |-> "none"]

Move(r, from, to) == status[r] = from /\ status' = [status EXCEPT ![r] = to]

Ask(r) ==
    /\ Move(r, "none", "asked")
    /\ \E right \in Rights : claim' = [claim EXCEPT ![r] = right]
    /\ UNCHANGED granted

\* The decision, taken on the grants of this moment.
Permit(r) ==
    /\ claim[r] \in granted
    /\ Move(r, "asked", "permitted")
    /\ UNCHANGED <<granted, claim>>

\* The fleet is touched: a native call begins, or a stream starts.
Act(r) == Move(r, "permitted", "acted") /\ UNCHANGED <<granted, claim>>

\* The request ends without touching the fleet.
Drop(r) ==
    /\ Move(r, "asked", "over") \/ Move(r, "permitted", "over")
    /\ UNCHANGED <<granted, claim>>

Regrant == granted' \in SUBSET Rights /\ UNCHANGED <<claim, status>>

ServiceNext ==
    \/ \E r \in Requests : Ask(r) \/ Permit(r) \/ Act(r) \/ Drop(r)
    \/ Regrant

ServiceSpec == ServiceInit /\ [][ServiceNext]_serviceVars
=============================================================================
