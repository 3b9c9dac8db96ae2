----------------------------- MODULE DeviceCall -----------------------------
(***************************************************************************)
(* What a binding's call to a device promises, whatever carries it: a call *)
(* ends once, and it ends with an answer only if the device carried that   *)
(* very call out.  The device may still carry out a call that has failed,  *)
(* and may do so more than once: no binding takes a call back.             *)
(***************************************************************************)
CONSTANT Calls

VARIABLES
    ran,        \* the calls the device carried out
    outcome     \* "idle", "open", "sent" (nothing is awaited), "answer", "error"

vars == <<ran, outcome>>

Init == ran = {} /\ outcome = [c \in Calls |-> "idle"]

\* A call can be refused before anything is sent.
Ask(c) ==
    /\ outcome[c] = "idle"
    /\ \E o \in {"open", "error"} : outcome' = [outcome EXCEPT ![c] = o]
    /\ UNCHANGED ran

Run(c) == outcome[c] # "idle" /\ ran' = ran \cup {c} /\ UNCHANGED outcome

End(c) ==
    /\ outcome[c] = "open"
    /\ \E o \in {"sent", "error"} \cup (IF c \in ran THEN {"answer"} ELSE {}) :
           outcome' = [outcome EXCEPT ![c] = o]
    /\ UNCHANGED ran

Next == \E c \in Calls : Ask(c) \/ Run(c) \/ End(c)

Spec == Init /\ [][Next]_vars
=============================================================================
