---------------------------- MODULE EntraTokens ----------------------------
(***************************************************************************)
(* Whose token a request carries: the requests of several Things through   *)
(* one binding, with Entra as the credential provider.  A token is taken   *)
(* from the binding's cache or minted in a thread, and requests of one     *)
(* Thing may mint side by side.                                            *)
(***************************************************************************)
EXTENDS Integers

CONSTANTS
    Calls,
    Fleet,      \* [Thing -> [active, form]]: its scheme, and its form's own
    Bound,      \* the Things bound to the binding
    ScopeOf,    \* [scheme -> the resource scope its token is for]
    Secrets,    \* what the application supplied, by Thing or by scheme
    Lifetime, Margin, MaxClock, None

TokensAssumption ==
    /\ Bound \subseteq DOMAIN Fleet
    /\ Margin \in Nat /\ Lifetime \in Nat /\ MaxClock \in Nat /\ Margin < Lifetime
    /\ \A t \in Bound : {Fleet[t].active, Fleet[t].form} \subseteq DOMAIN ScopeOf \cup {None}

VARIABLES
    clock,
    tokens,     \* the binding's cache
    request     \* [Calls -> the request under way]

vars == <<clock, tokens, request>>

Idle == [at |-> "idle", thing |-> None, scheme |-> None, token |-> None, since |-> 0]

Init == clock = 0 /\ tokens = <<>> /\ request = [c \in Calls |-> Idle]

\* A form's own security replaces the Thing's; a Thing that is not bound has none.
SchemeOf(t) ==
    IF t \notin Bound THEN None ELSE IF Fleet[t].form = None THEN Fleet[t].active ELSE Fleet[t].form

\* What the application supplied, by owner, then by scheme.
Supplied(t) ==
    IF t \in DOMAIN Secrets THEN Secrets[t]
    ELSE IF SchemeOf(t) \in DOMAIN Secrets THEN Secrets[SchemeOf(t)] ELSE None

\* Without it the environment's own identity mints.
SecretOf(t) == IF Supplied(t) = None THEN "environment" ELSE Supplied(t)

\* Mutant: tokens are cached by their scope.
KeyOfScope(t) == <<None, ScopeOf[SchemeOf(t)]>>

Key(t) == <<t, ScopeOf[SchemeOf(t)]>>

Hit(key) == key \in DOMAIN tokens /\ tokens[key].expires - Margin > clock

Enter(c, r) == request' = [request EXCEPT ![c] = r]

\* A request without a scheme carries nothing.
Resolve(c, t) ==
    LET r == [Idle EXCEPT !.thing = t, !.scheme = SchemeOf(t), !.since = clock]
    IN  /\ request[c].at = "idle"
        /\ IF r.scheme = None THEN Enter(c, [r EXCEPT !.at = "sent"])
           ELSE IF Hit(Key(t)) THEN Enter(c, [r EXCEPT !.at = "sent", !.token = tokens[Key(t)]])
           ELSE Enter(c, [r EXCEPT !.at = "minting"])
        /\ UNCHANGED <<clock, tokens>>

\* The thread has a token: it is cached, whatever another request stored meanwhile.
Mint(c) ==
    LET r == request[c]
        token == [secret |-> SecretOf(r.thing), scope |-> ScopeOf[r.scheme], expires |-> clock + Lifetime]
    IN  /\ r.at = "minting"
        /\ tokens' = [k \in DOMAIN tokens \cup {Key(r.thing)} |->
                         IF k = Key(r.thing) THEN token ELSE tokens[k]]
        /\ Enter(c, [r EXCEPT !.at = "sent", !.token = token, !.since = clock])
        /\ UNCHANGED clock

\* It has none, and the request goes out without; or it raises, and no request does.
MintFails(c) ==
    /\ request[c].at = "minting"
    /\ Enter(c, [request[c] EXCEPT !.at = "sent"]) \/ Enter(c, Idle)
    /\ UNCHANGED <<clock, tokens>>

\* The request is over, or its caller is cancelled: what a thread still mints is lost.
Over(c) ==
    /\ request[c].at # "idle" /\ Enter(c, Idle)
    /\ UNCHANGED <<clock, tokens>>

Tick == clock < MaxClock /\ clock' = clock + 1 /\ UNCHANGED <<tokens, request>>

Next ==
    \/ \E c \in Calls : (\E t \in DOMAIN Fleet : Resolve(c, t)) \/ Mint(c) \/ MintFails(c) \/ Over(c)
    \/ Tick

Spec == Init /\ [][Next]_vars

-----------------------------------------------------------------------------
\* "each interaction authenticates as its owner" (with_things): whatever requests
\* share the cache, a request carries a token minted with its own Thing's secret for
\* its scheme's scope, with more than the margin left when it was taken.
CarriesItsOwners ==
    \A c \in Calls : LET r == request[c] IN
        r.token # None =>
            /\ r.token.secret = SecretOf(r.thing) /\ r.token.scope = ScopeOf[r.scheme]
            /\ r.token.expires > r.since + Margin
=============================================================================
