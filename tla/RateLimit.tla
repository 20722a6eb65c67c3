------------------------------ MODULE RateLimit ------------------------------
(***************************************************************************)
(* The limiter in front of the RPC server (src/rate_limit.go): a token     *)
(* bucket for each client, in whole ticks of a clock.  Allow and the       *)
(* cleanup hold one lock; only the time between them varies.               *)
(***************************************************************************)
EXTENDS Integers, Functions

CONSTANTS
    Clients,        \* what extractIP returns
    Rate,           \* requests per window, and the size of a bucket
    Interval,       \* window / rate: ticks for a token
    IdleLimit,      \* ten windows: when cleanupLoop drops a bucket
    MaxTime,        \* bound: ticks
    MaxRequests     \* bound: requests of a client in one tick

ASSUME RateLimitAssumption ==
    /\ {Rate, Interval, IdleLimit, MaxTime, MaxRequests} \subseteq Nat
    /\ Rate > 0 /\ Interval > 0 /\ IdleLimit >= Rate * Interval

VARIABLES
    now,            \* the clock
    tokens,         \* buckets: the tokens left ...
    lastCheck,      \* ... and when they were last counted
    asked,          \* requests of each client in this tick
    allowed         \* history: requests allowed, by client and tick

limitVars == <<now, tokens, lastCheck, asked, allowed>>

LimitInit ==
    /\ now = 0
    /\ tokens = [c \in {} |-> 0]
    /\ lastCheck = tokens
    /\ asked = [c \in Clients |-> 0]
    /\ allowed = [c \in Clients |-> [t \in 0 .. MaxTime |-> 0]]

\* The bucket of client c after its refill; a client without one starts full.
\* The remainder of the division is lost: lastCheck moves to now in any case.
\* (Mutant: the size of the bucket does not bound the refill.)
RefilledUnbounded(c) ==
    IF c \notin DOMAIN tokens THEN Rate
    ELSE tokens[c] + (now - lastCheck[c]) \div Interval
Refilled(c) ==
    IF c \notin DOMAIN tokens THEN Rate
    ELSE LET n == tokens[c] + (now - lastCheck[c]) \div Interval
         IN IF n > Rate THEN Rate ELSE n

Allow(c) ==
    LET ok == Refilled(c) > 0
    IN /\ asked[c] < MaxRequests
       /\ asked' = [asked EXCEPT ![c] = @ + 1]
       /\ tokens' = [d \in DOMAIN tokens \cup {c} |->
                        IF d # c THEN tokens[d] ELSE IF ok THEN Refilled(c) - 1 ELSE 0]
       /\ lastCheck' = [d \in DOMAIN tokens \cup {c} |-> IF d = c THEN now ELSE lastCheck[d]]
       /\ allowed' = IF ok THEN [allowed EXCEPT ![c][now] = @ + 1] ELSE allowed
       /\ UNCHANGED now

\* cleanupLoop, at some time or other.
Cleanup ==
    LET kept == {c \in DOMAIN tokens : now - lastCheck[c] <= IdleLimit}
    IN /\ kept # DOMAIN tokens
       /\ tokens' = [c \in kept |-> tokens[c]]
       /\ lastCheck' = [c \in kept |-> lastCheck[c]]
       /\ UNCHANGED <<now, asked, allowed>>

Tick ==
    /\ now < MaxTime
    /\ now' = now + 1
    /\ asked' = [c \in Clients |-> 0]
    /\ UNCHANGED <<tokens, lastCheck, allowed>>

LimitNext == Tick \/ Cleanup \/ \E c \in Clients : Allow(c)

-----------------------------------------------------------------------------
(* Properties *)

\* The promise of a token bucket, for every stretch of time and not only for the
\* windows of the clock: one full bucket and a token for every interval since.
\* Dropping an idle bucket gives nothing away.
RateKept ==
    \A c \in Clients, s \in 0 .. now :
        SumFunctionOnSet(allowed[c], s .. now) <= Rate + (now - s) \div Interval
=============================================================================
