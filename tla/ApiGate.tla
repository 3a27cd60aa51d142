------------------------------- MODULE ApiGate -------------------------------
(***************************************************************************)
(* What stands before every handler of the HTTP API (internal/server/api): *)
(* API-key authentication, the token-bucket rate limiter with its cleanup, *)
(* the scope check and the body cap, in the order Router nests them.       *)
(*                                                                         *)
(* Time is counted in ticks and tokens in fractions: a request costs Cost, *)
(* a tick refills Rate.                                                    *)
(***************************************************************************)
EXTENDS Integers, Sequences, FiniteSets, FiniteSetsExt

CONSTANTS
    Peers,      \* addresses requests come from
    Trusted,    \* the ones that are trusted proxies
    Rate,       \* ratePerSec
    Cost,       \* one token
    Burst,      \* tokens a bucket holds
    IdleTicks,  \* a client not seen for longer is removed
    MaxNow,     \* bound: ticks
    MaxRequests \* bound: requests that reach the limiter

ASSUME GateAssumption ==
    /\ {Rate, Cost, Burst, IdleTicks} \subseteq Nat \ {0} /\ {MaxNow, MaxRequests} \subseteq Nat
    /\ Trusted \subseteq Peers

(* A bucket refills completely before it counts as idle; true of every           *)
(* configuration whose burst is at most five minutes' worth of requests, as the  *)
(* default is.  Nothing in the code refuses a larger burst.                      *)
RefillsWhileIdle == IdleTicks * Rate >= Burst * Cost

(* Configured keys carry a scope; "" is no key and "bad" none of them. *)
KeyScope == [k \in {"reader", "operator"} |-> IF k = "reader" THEN "read" ELSE "admin"]
Presented == {"", "bad"} \cup DOMAIN KeyScope

Buckets == ((DOMAIN KeyScope) \X {"key"}) \cup (Peers \X {"ip"})

VARIABLES
    now,        \* the clock
    buckets,    \* rl.clients: bucket -> [tokens, lastSeen], absent when idle
    asked,      \* requests that have reached the limiter
    level,      \* history: per bucket, what was let through, draining at Rate
    promise,    \* history: per bucket, when a refused request may come again
    response    \* the last request: [status, bucket, promised]

gateVars == <<now, buckets, asked, level, promise, response>>

NoBucket == [tokens |-> -1, lastSeen |-> -1]
NoPromise == -1
NoResponse == [status |-> 0, bucket |-> <<"none", "none">>, at |-> 0, promised |-> NoPromise]

GateInit ==
    /\ now = 0 /\ asked = 0
    /\ buckets = [b \in Buckets |-> NoBucket]
    /\ level = [b \in Buckets |-> 0]
    /\ promise = [b \in Buckets |-> NoPromise]
    /\ response = NoResponse

-----------------------------------------------------------------------------
(* Authenticate: the identity is a configured key's digest. *)
Authenticate(key) == key \in DOMAIN KeyScope

(* clientIP: the rightmost hop that is not a trusted proxy, believed only when  *)
(* the peer itself is one.                                                      *)
clientIP(peer, forwarded) ==
    LET hops == {i \in DOMAIN forwarded : forwarded[i] \notin Trusted}
    IN IF peer \notin Trusted \/ hops = {} THEN peer ELSE forwarded[Max(hops)]

(* rateLimitKey: a key is an identity once it is authenticated, which the       *)
(* webhook route never does.                                                    *)
rateLimitKey(identity, peer, forwarded) ==
    IF identity # "" THEN <<identity, "key">> ELSE <<clientIP(peer, forwarded), "ip">>

(* Mutant of Refilled: the time of a refused request is not remembered. *)
RefilledSinceGrant(b) ==
    LET c == buckets[b]
        tokens == Min({Burst * Cost, c.tokens + (now - c.lastSeen) * Rate})
    IN [tokens |-> tokens, lastSeen |-> IF tokens >= Cost THEN now ELSE c.lastSeen]

(* Tokens refill with elapsed time, up to the burst. *)
Refilled(b) ==
    LET c == buckets[b]
    IN [tokens |-> Min({Burst * Cost, c.tokens + (now - c.lastSeen) * Rate}), lastSeen |-> now]

(* Mutant of RetryAfter: rounded down. *)
RetryAfterFloor(tokens) == (Cost - tokens) \div Rate

(* The ticks until one token is there, rounded up. *)
RetryAfter(tokens) == (Cost - tokens + Rate - 1) \div Rate

(* Allow, for a bucket seen for the first time and for a known one. *)
AllowNew(b) ==
    /\ buckets[b] = NoBucket
    /\ buckets' = [buckets EXCEPT ![b] = [tokens |-> (Burst - 1) * Cost, lastSeen |-> now]]

AllowKnown(b) ==
    /\ buckets[b] # NoBucket /\ Refilled(b).tokens >= Cost
    /\ buckets' = [buckets EXCEPT ![b] = [Refilled(b) EXCEPT !.tokens = @ - Cost]]

Refuse(b) ==
    /\ buckets[b] # NoBucket /\ Refilled(b).tokens < Cost
    /\ buckets' = [buckets EXCEPT ![b] = Refilled(b)]
    /\ promise' = [promise EXCEPT ![b] = now + RetryAfter(Refilled(b).tokens)]

Respond(status, b) ==
    response' = [status |-> status, bucket |-> b, at |-> now,
                 promised |-> IF b \in Buckets THEN promise[b] ELSE NoPromise]

-----------------------------------------------------------------------------
(* Routes without a guard never reach the limiter. *)
Public ==
    /\ Respond(200, <<"none", "none">>)
    /\ UNCHANGED <<now, buckets, asked, level, promise>>

Unauthorized(key) ==
    /\ ~Authenticate(key)
    /\ Respond(401, <<"none", "none">>)
    /\ UNCHANGED <<now, buckets, asked, level, promise>>

(* Authenticated, or the webhook: the limiter, then the scope. *)
Limited(route, identity, peer, forwarded) ==
    LET b == rateLimitKey(identity, peer, forwarded) IN
    /\ asked < MaxRequests /\ asked' = asked + 1
    /\ \/ /\ AllowNew(b) \/ AllowKnown(b)
          /\ level' = [level EXCEPT ![b] = @ + Cost]
          /\ promise' = [promise EXCEPT ![b] = NoPromise]
          /\ Respond(IF route = "admin" /\ KeyScope[identity] # "admin" THEN 403 ELSE 200, b)
       \/ /\ Refuse(b)
          /\ UNCHANGED level
          /\ Respond(429, b)
    /\ UNCHANGED now

(* The cleanup goroutine's tick. *)
cleanupOldClients ==
    /\ \E b \in Buckets : buckets[b] # NoBucket /\ now - buckets[b].lastSeen > IdleTicks
    /\ buckets' = [b \in Buckets |-> IF now - buckets[b].lastSeen > IdleTicks
                                     THEN NoBucket ELSE buckets[b]]
    /\ UNCHANGED <<now, asked, level, promise, response>>

Clock ==
    /\ now < MaxNow /\ now' = now + 1
    /\ level' = [b \in Buckets |-> Max({0, level[b] - Rate})]
    /\ UNCHANGED <<buckets, asked, promise, response>>

(* X-Forwarded-For of the requests enumerated: absent, or two hops. *)
Forwarded == {<<>>} \cup {<<p, q>> : p, q \in Peers}

GateNext ==
    \/ Public
    \/ \E key \in Presented :
        \/ Unauthorized(key)
        \/ /\ Authenticate(key)
           /\ \E route \in {"retrieval", "admin"}, peer \in Trusted : Limited(route, key, peer, <<>>)
    \/ \E peer \in Peers, forwarded \in Forwarded :
        Limited("webhook", "", peer, forwarded)
    \/ cleanupOldClients \/ Clock

GateSpec == GateInit /\ [][GateNext]_gateVars

-----------------------------------------------------------------------------
(* Properties *)

(* In any stretch of time a bucket lets through no more than the burst and what *)
(* the rate refills, across refusals, cleanup and return (Allow,                *)
(* cleanupOldClients): a counter that drains at the rate never exceeds the      *)
(* burst.                                                                       *)
BucketBound == \A b \in Buckets : level[b] <= Burst * Cost

(* A client that comes back after the Retry-After it was given, and asks for    *)
(* nothing in between, is let through (Allow).                                  *)
RetryAfterHonoured ==
    response.status = 429 /\ response.promised # NoPromise => response.at < response.promised

(* The inductive invariant behind both, bucket by bucket.  A bucket the limiter *)
(* does not know has nothing outstanding and a known one has room for what was  *)
(* let through and what has refilled since it was last seen, provided a bucket  *)
(* is not forgotten before it is full; and its tokens reach one request's cost  *)
(* by the time it promised.                                                     *)
BucketSound(c, outstanding, promised, t) ==
    IF c = NoBucket THEN RefillsWhileIdle => outstanding = 0
    ELSE /\ c \in [tokens : Nat, lastSeen : Nat] /\ c.lastSeen <= t /\ c.tokens <= Burst * Cost
         /\ RefillsWhileIdle =>
               outstanding = 0 \/ outstanding + c.tokens + (t - c.lastSeen) * Rate <= Burst * Cost
         /\ promised # NoPromise => c.tokens + (promised - c.lastSeen) * Rate >= Cost

GateTypeOK ==
    /\ now \in Nat /\ asked \in Nat
    /\ DOMAIN buckets = Buckets
    /\ level \in [Buckets -> Nat]
    /\ promise \in [Buckets -> Nat \cup {NoPromise}]

GateInv ==
    /\ GateTypeOK /\ RetryAfterHonoured
    /\ \A b \in Buckets : BucketSound(buckets[b], level[b], promise[b], now)

(* What the rate limiter promises its clients: no more than the burst and the  *)
(* rate, and a Retry-After that is long enough.                                *)
LimiterSound == BucketBound /\ RetryAfterHonoured
=============================================================================
