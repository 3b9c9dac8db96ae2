--------------------------- MODULE RefreshTokens ---------------------------
(***************************************************************************)
(* How a client comes by its OAuth access tokens (auth/providers.py), the  *)
(* refresh tokens it keeps for that in a file that outlives it             *)
(* (auth/store.py), and the consent that puts them there: from the MCP     *)
(* bridge, asked for by a call that lacks one (integrations/connect.py),   *)
(* or from `thingctx auth login` in a process of its own.                  *)
(*                                                                         *)
(* resolve never suspends but for its token request, so everything up to   *)
(* that request is one step and everything after the answer another; the   *)
(* calls of one loop interleave there.  The identity provider honours a    *)
(* refresh token until it has rotated it away.                             *)
(***************************************************************************)
EXTENDS Integers, FiniteSets

CONSTANTS Calls,        \* the tool calls in progress at once
          Things,       \* the Things whose scheme is the code flow
          Services,     \* those whose scheme is a client or JWT-bearer grant
          Ttl,          \* expires_in: how long an access token lives
          Margin,       \* the safety margin of _cache_get, at least Timeout
          Timeout,      \* the longest a token request takes (ctx.timeout)
          MaxTime, MaxTokens, MaxRestarts

VARIABLES now, store, live, cache, method, call, issued, restarts, lost

vars == <<now, store, live, cache, method, call, issued, restarts, lost>>

Owners   == Things \cup Services
NoToken  == 0                   \* refresh tokens are numbered as they are issued
NoAccess == 0                   \* an access token is cached until it goes stale
\* A call at rest: returned, raised, or not begun.
Idle == [at |-> "idle", owner |-> "", refresh |-> NoToken, rotated |-> NoToken,
         method |-> "", since |-> 0]

Init ==
    /\ now = 0 /\ issued = 0 /\ restarts = 0 /\ lost = {}
    /\ store  = [o \in Things |-> NoToken]
    /\ live   = [o \in Things |-> {}]
    /\ cache  = [o \in Owners |-> NoAccess]
    /\ method = [o \in Services |-> {"basic", "post"}]
    /\ call   = [c \in Calls |-> Idle]

HasToken(o) == store[o] # NoToken

(* A consent stores the token of a new grant over whatever was there.      *)
Consent(o) ==
    /\ issued < MaxTokens
    /\ issued' = issued + 1
    /\ live'  = [live EXCEPT ![o] = @ \cup {issued + 1}]
    /\ store' = [store EXCEPT ![o] = issued + 1]

(* `thingctx auth login`, a process beside this one.                        *)
Login(o) ==
    /\ o \in Things /\ Consent(o) /\ lost' = lost \ {o}
    /\ UNCHANGED <<now, cache, method, call, restarts>>

-----------------------------------------------------------------------------
(* _cache_get, with the margin that covers the flight of a request.         *)
Hit(o) == cache[o] - Margin > now

(* resolve for one owner: the cached token, or a request with the stored    *)
(* refresh token, or, with a shared secret, with the method that worked.    *)
ResolveWith(c, o) ==
    call' = [call EXCEPT ![c] =
        IF Hit(o) THEN Idle
        ELSE IF o \in Things
        THEN IF HasToken(o)
             THEN [Idle EXCEPT !.at = "sent", !.owner = o, !.refresh = store[o], !.since = now]
             ELSE Idle
        ELSE [Idle EXCEPT !.at = "sent", !.owner = o, !.since = now,
                          !.method = IF "basic" \in method[o] THEN "basic" ELSE "post"]]

(* ensure_connected looks for a stored token first, and a call without one  *)
(* asks the user through the client's dialog before a browser opens.        *)
Begin(c, o) ==
    /\ call[c].at = "idle"
    /\ IF o \in Things /\ ~HasToken(o)
       THEN call' = [call EXCEPT ![c] = [Idle EXCEPT !.at = "asking", !.owner = o]]
       ELSE ResolveWith(c, o)
    /\ UNCHANGED <<now, store, live, cache, method, issued, restarts, lost>>

(* The dialog is declined, or the client cannot show one.                   *)
NotAccepted(c) ==
    /\ call[c].at = "asking"
    /\ call' = [call EXCEPT ![c] = Idle]
    /\ UNCHANGED <<now, store, live, cache, method, issued, restarts, lost>>

Accepted(c) ==
    /\ call[c].at = "asking"
    /\ call' = [call EXCEPT ![c].at = "consent"]
    /\ UNCHANGED <<now, store, live, cache, method, issued, restarts, lost>>

(* login runs to its end in the loop, and the call goes on to resolve.      *)
BridgeLogin(c) ==
    /\ call[c].at = "consent" /\ Consent(call[c].owner)
    /\ lost' = lost \ {call[c].owner}
    /\ call' = [call EXCEPT ![c].at = "connected"]
    /\ UNCHANGED <<now, cache, method, restarts>>

ConsentFails(c) ==
    /\ call[c].at = "consent"
    /\ call' = [call EXCEPT ![c] = Idle]
    /\ UNCHANGED <<now, store, live, cache, method, issued, restarts, lost>>

Resolve(c) ==
    /\ call[c].at = "connected" /\ ResolveWith(c, call[c].owner)
    /\ UNCHANGED <<now, store, live, cache, method, issued, restarts, lost>>

-----------------------------------------------------------------------------
(* The provider mints an access token.  One that rotates issues the next    *)
(* refresh token with it and stops honouring the one it was shown.          *)
Mints(c) ==
    LET o == call[c].owner IN
    /\ call[c].at = "sent"
    /\ o \in Things => call[c].refresh \in live[o]
    /\ \/ /\ call' = [call EXCEPT ![c].at = "answered"]
          /\ UNCHANGED <<live, issued>>
       \/ /\ o \in Things /\ issued < MaxTokens
          /\ issued' = issued + 1
          /\ live' = [live EXCEPT ![o] = (@ \ {call[c].refresh}) \cup {issued + 1}]
          /\ call' = [call EXCEPT ![c].at = "answered", ![c].rotated = issued + 1]
    /\ UNCHANGED <<now, store, cache, method, restarts, lost>>

(* A method refused with 400 or 401 is not the last one tried.              *)
TriesNext(c) ==
    LET o == call[c].owner IN
    /\ call[c].at = "sent" /\ o \in Services
    /\ call[c].method = "basic" /\ "post" \in method[o]
    /\ call' = [call EXCEPT ![c].method = "post", ![c].since = now]
    /\ UNCHANGED <<now, store, live, cache, method, issued, restarts, lost>>

\* A plausible fault: The rotated refresh token is not kept.
AnswerUnrotated(c) ==
    LET o == call[c].owner IN
    /\ call[c].at = "answered"
    /\ cache' = [cache EXCEPT ![o] = now + Ttl]
    /\ call' = [call EXCEPT ![c] = Idle]
    /\ UNCHANGED <<now, store, live, method, issued, restarts, lost>>

(* The answer: cache the access token from now, remember the method that    *)
(* worked, and store a refresh token that is not the one that was sent.     *)
Answer(c) ==
    LET o == call[c].owner IN
    /\ call[c].at = "answered"
    /\ cache' = [cache EXCEPT ![o] = now + Ttl]
    /\ method' = IF o \in Services THEN [method EXCEPT ![o] = {call[c].method}] ELSE method
    /\ store' = IF call[c].rotated # NoToken THEN [store EXCEPT ![o] = call[c].rotated] ELSE store
    /\ call' = [call EXCEPT ![c] = Idle]
    /\ UNCHANGED <<now, live, issued, restarts, lost>>

(* The request is refused, or its answer lost: with it goes the token it    *)
(* carried.                                                                 *)
Fails(c) ==
    /\ call[c].at \in {"sent", "answered"}
    /\ call' = [call EXCEPT ![c] = Idle]
    /\ lost' = IF call[c].rotated # NoToken THEN lost \cup {call[c].owner} ELSE lost
    /\ UNCHANGED <<now, store, live, cache, method, issued, restarts>>

(* A restart keeps the store and nothing else.  _write replaces the file    *)
(* by a whole one, so a crash within it leaves the old one or the new.      *)
Restart ==
    /\ restarts < MaxRestarts /\ restarts' = restarts + 1
    /\ lost' = lost \cup {o \in Things : \E c \in Calls :
                            /\ call[c].owner = o /\ call[c].at = "answered"
                            /\ call[c].rotated # NoToken}
    /\ call' = [c \in Calls |-> Idle]
    /\ cache' = [o \in Owners |-> NoAccess]
    /\ method' = [o \in Services |-> {"basic", "post"}]
    /\ UNCHANGED <<now, store, live, issued>>

InFlight(c) == call[c].at \in {"sent", "answered"}

Tick ==
    /\ now < MaxTime /\ now' = now + 1
    /\ \A c \in Calls : InFlight(c) => now - call[c].since < Timeout
    /\ UNCHANGED <<store, live, cache, method, call, issued, restarts, lost>>

Next ==
    \/ \E o \in Things : Login(o)
    \/ \E c \in Calls, o \in Owners : Begin(c, o)
    \/ \E c \in Calls :
          NotAccepted(c) \/ Accepted(c) \/ BridgeLogin(c) \/ ConsentFails(c) \/ Resolve(c)
          \/ Mints(c) \/ TriesNext(c) \/ Answer(c) \/ Fails(c)
    \/ Restart \/ Tick

Spec == Init /\ [][Next]_vars

-----------------------------------------------------------------------------
(* One consent is enough (docs/USAGE.md:147): unless an answer was lost     *)
(* between the provider and the store, the stored refresh token is one the  *)
(* provider honours whenever no rotated one is on its way, whatever calls,  *)
(* consents and restarts overlap.                                           *)
StoreIsLive ==
    \A o \in Things \ lost :
        \/ ~HasToken(o)
        \/ store[o] \in live[o]
        \/ \E c \in Calls : call[c].owner = o /\ call[c].at = "answered" /\ call[c].rotated # NoToken
=============================================================================
