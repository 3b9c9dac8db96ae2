---------------------------- MODULE SigningKeys ----------------------------
(***************************************************************************)
(* How a gateway comes by the keys it verifies callers' tokens with: the   *)
(* JWKS cache of JwtGatewayGuard (identity/jwt_guard.py), shared by every  *)
(* token being validated, while the provider rotates its keys.             *)
(*                                                                         *)
(* validate suspends only while it fetches the key set, so the steps are   *)
(* from one fetch to the next.  The provider answers a fetch with the keys *)
(* it publishes at that moment, and the answer arrives some time later:    *)
(* two fetches in flight may come back in either order.                    *)
(***************************************************************************)
EXTENDS Integers, FiniteSets

CONSTANTS Tokens,       \* the tokens being validated
          Keys,         \* the provider's signing keys
          Ttl,          \* _JWKS_TTL
          Cooldown,     \* _JWKS_FORCE_COOLDOWN
          Timeout,      \* the longest a fetch takes
          MaxTime

ASSUME SigningKeysAssumption ==
    Ttl \in Nat \ {0} /\ Cooldown \in Nat \ {0} /\ Timeout \in Nat

VARIABLES now, published, retired, jwks, fetchedAt, forcedAt, token

vars == <<now, published, retired, jwks, fetchedAt, forcedAt, token>>

Never  == 0 - Cooldown - Ttl    \* a moment long before the first
NoKeys == {}                    \* no usable set: _is_usable_jwks refuses an empty one
NoKid  == "none"

Forged == "forged"              \* no key's: nothing verifies such a token

\* A token not yet presented: its kid header, and the key it is signed with if
\* its issuer, audience, times and grants are in order.
Fresh == [at |-> "new", kid |-> NoKid, key |-> Forged,
          got |-> NoKeys, since |-> 0, done |-> Never]

Init ==
    /\ now = 0 /\ published \in (SUBSET Keys) \ {{}}
    /\ retired = [k \in Keys |-> Never]     \* when the provider withdrew it
    /\ jwks = NoKeys /\ fetchedAt = Never /\ forcedAt = Never
    /\ token = [t \in Tokens |-> Fresh]

(* _signing_key: the key the header names, or a lone key if it names none.  *)
Matching(keys, kid) ==
    IF kid = NoKid THEN IF Cardinality(keys) = 1 THEN keys ELSE {} ELSE keys \cap {kid}

(* A token done with: all that is left of it is what was made of it.        *)
Refused == [Fresh EXCEPT !.at = "refused"]

(* jwt.decode and _authorize, with the key that matched.                    *)
Decoded(r, keys) ==
    IF r.key \in Matching(keys, r.kid)
    THEN [Refused EXCEPT !.at = "accepted", !.key = r.key, !.done = now]
    ELSE Refused

Fetching(t) == token[t].at \in {"fetch", "forced"}

CacheIsFresh == jwks # NoKeys /\ now - fetchedAt < Ttl
MayForce     == now - forcedAt >= Cooldown

(* What follows once a key set is in hand: decode, or force one refetch if  *)
(* none was forced lately, or refuse.                                       *)
Verify(t, r, keys) ==
    IF Matching(keys, r.kid) # {}
    THEN token' = [token EXCEPT ![t] = Decoded(r, keys)] /\ UNCHANGED forcedAt
    ELSE IF MayForce
    THEN /\ forcedAt' = now
         /\ token' = [token EXCEPT ![t] = [r EXCEPT !.at = "forced", !.since = now]]
    ELSE token' = [token EXCEPT ![t] = Refused] /\ UNCHANGED forcedAt

-----------------------------------------------------------------------------
(* validate, up to its first suspension or its end, of one token after another. *)
(* The kid is whatever the header says.                                     *)
Present(t, kid, key) ==
    LET r == [Fresh EXCEPT !.kid = kid, !.key = key, !.since = now] IN
    /\ ~Fetching(t)
    /\ IF CacheIsFresh
       THEN Verify(t, r, jwks)
       ELSE token' = [token EXCEPT ![t] = [r EXCEPT !.at = "fetch"]] /\ UNCHANGED forcedAt
    /\ UNCHANGED <<now, published, retired, jwks, fetchedAt>>

(* The provider answers with what it publishes now.                         *)
Answers(t) ==
    /\ Fetching(t) /\ token[t].got = NoKeys
    /\ token' = [token EXCEPT ![t].got = published]
    /\ UNCHANGED <<now, published, retired, jwks, fetchedAt, forcedAt>>

(* The answer arrives and replaces the cached set.  A first fetch goes on   *)
(* to its key, and may force another; a forced one is the last.             *)
Arrives(t) ==
    LET r == [token[t] EXCEPT !.got = NoKeys] IN
    /\ Fetching(t) /\ token[t].got # NoKeys
    /\ jwks' = token[t].got /\ fetchedAt' = now
    /\ IF r.at = "forced"
       THEN token' = [token EXCEPT ![t] = Decoded(r, token[t].got)] /\ UNCHANGED forcedAt
       ELSE Verify(t, r, token[t].got)
    /\ UNCHANGED <<now, published, retired>>

\* A plausible fault: When the keys cannot be fetched, the ones there are go on being trusted.
FetchFailsOpen(t) ==
    /\ Fetching(t)
    /\ token' = [token EXCEPT ![t] = Decoded([token[t] EXCEPT !.got = NoKeys], jwks)]
    /\ UNCHANGED <<now, published, retired, jwks, fetchedAt, forcedAt>>

(* The fetch fails, or its answer is no usable set: the token is refused    *)
(* and the cached set stays what it was.                                    *)
FetchFails(t) ==
    /\ Fetching(t)
    /\ token' = [token EXCEPT ![t] = Refused]
    /\ UNCHANGED <<now, published, retired, jwks, fetchedAt, forcedAt>>

-----------------------------------------------------------------------------
(* The provider publishes a new key, or withdraws one for good.             *)
Publish(k) ==
    /\ k \notin published /\ retired[k] = Never
    /\ published' = published \cup {k}
    /\ UNCHANGED <<now, retired, jwks, fetchedAt, forcedAt, token>>

Withdraw(k) ==
    /\ k \in published /\ published # {k}
    /\ published' = published \ {k} /\ retired' = [retired EXCEPT ![k] = now]
    /\ UNCHANGED <<now, jwks, fetchedAt, forcedAt, token>>

Tick ==
    /\ now < MaxTime /\ now' = now + 1
    /\ \A t \in Tokens : Fetching(t) => now - token[t].since < Timeout
    /\ UNCHANGED <<published, retired, jwks, fetchedAt, forcedAt, token>>

Next ==
    \/ \E t \in Tokens :
          \/ \E kid \in Keys \cup {NoKid}, key \in Keys \cup {Forged} : Present(t, kid, key)
          \/ Answers(t) \/ Arrives(t) \/ FetchFails(t)
    \/ \E k \in Keys : Publish(k) \/ Withdraw(k)
    \/ Tick

Spec == Init /\ [][Next]_vars

-----------------------------------------------------------------------------
(* A key the provider has withdrawn verifies tokens no longer than the      *)
(* cache may be old plus the time one answer was under way, in whatever     *)
(* order overlapping fetches come back.                                     *)
RetiredKeysLapse ==
    \A t \in Tokens :
        token[t].at = "accepted" /\ retired[token[t].key] # Never
            => token[t].done - retired[token[t].key] < Ttl + Timeout
=============================================================================
