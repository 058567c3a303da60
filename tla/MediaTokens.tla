----------------------------- MODULE MediaTokens -----------------------------
(***************************************************************************)
(* The media tokens of src/src/auth.rs.  The clock is counted in ticks, of *)
(* which a second has several: the claims hold whole seconds, the answer   *)
(* to the client the exact time.  A token that was issued is never         *)
(* revoked: whether it is honoured at a later time is known when it is     *)
(* issued, and the properties look ahead instead of letting the time pass. *)
(***************************************************************************)
EXTENDS Naturals

CONSTANTS
    TicksPerSecond,
    Lifetime,        \* media_token_ttl, in seconds
    MaxTime,         \* bound: ticks
    MaxTokens        \* bound: tokens issued

ASSUME TokensAssumption ==
    /\ TicksPerSecond \in Nat \ {0}
    /\ Lifetime \in Nat \ {0}
    /\ MaxTime \in Nat /\ MaxTokens \in Nat

VARIABLES now, tokens

tokenVars == <<now, tokens>>

\* DateTime::timestamp: the time in whole seconds.
Timestamp(t) == t \div TicksPerSecond

\* Mutant of ExpiresAt: the lifetime counts from the second the token is issued in.
ExpiresAtOfSecond(t) == (Timestamp(t) + Lifetime) * TicksPerSecond - 1

ExpiresAt(t) == t + Lifetime * TicksPerSecond

\* issue_media_token: nbf is iat; the other claims are those of every token.
Token(action, path, t) ==
    [action |-> action, path |-> path, iat |-> Timestamp(t), exp |-> Timestamp(ExpiresAt(t)),
     expires_at |-> ExpiresAt(t)]

TokensInit == now = 0 /\ tokens = {}

Issue(action, path) ==
    /\ tokens' = tokens \cup {Token(action, path, now)}
    /\ UNCHANGED now

\* The wall clock, taken to run forward.
Tick ==
    /\ now < MaxTime
    /\ now' = now + 1
    /\ UNCHANGED tokens

\* Mutant of Decoded: a token ends with the last second before its expiry.
DecodedBefore(token, t) ==
    /\ Timestamp(t) < token.exp
    /\ token.iat <= Timestamp(t)
    /\ token.exp - token.iat = Lifetime

\* decode_media_token, with a leeway of zero: the second of the expiry is included.
Decoded(token, t) ==
    /\ token.exp >= Timestamp(t)
    /\ token.iat <= Timestamp(t)
    /\ token.exp - token.iat = Lifetime

\* media_auth, asked by MediaMTX.
Authorised(token, action, path, t) ==
    /\ Decoded(token, t)
    /\ token.path = path
    /\ token.action = action

-----------------------------------------------------------------------------
(* Properties.                                                             *)

\* Times at which a token that exists now may still be shown.
Later == now..(MaxTime + (Lifetime + 2) * TicksPerSecond)

\* A token is honoured until the moment the client was told it expires, though its
\* claims hold whole seconds, and for less than a second more (issue_media_token,
\* decode_media_token).
TokenIsGoodUntilExpiry ==
    \A k \in tokens, t \in Later :
        /\ t <= k.expires_at => Authorised(k, k.action, k.path, t)
        /\ Authorised(k, k.action, k.path, t) => t < k.expires_at + TicksPerSecond
=============================================================================
