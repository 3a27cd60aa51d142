---------------------------- MODULE ServerProofs ----------------------------
(***************************************************************************)
(* Proofs about the process around the index: the request gate's rate      *)
(* limiter (ApiGate), the progress bus with its dashboards (ProgressBus),  *)
(* the agent gateway (AgentGateway), startup and shutdown (Startup), the   *)
(* repository catalog its handlers edit (RepoCatalog) and the clones of    *)
(* the git source (GitClones).                                             *)
(***************************************************************************)
EXTENDS ApiGate, ProgressBus, AgentGateway, Startup, RepoCatalog, GitClones,
        FiniteSetTheorems, SequenceTheorems, TLAPS

-----------------------------------------------------------------------------
(* ApiGate: the buckets. *)

(* Minimum and maximum of two integers, as the limiter takes them. *)
LEMMA TwoValues ==
    ASSUME NEW a \in Int, NEW b \in Int
    PROVE  /\ Min({a, b}) = (IF a <= b THEN a ELSE b)
           /\ Max({a, b}) = (IF a >= b THEN a ELSE b)
<1>1. CASE a <= b
  <2>1. a \in {a, b} /\ \A y \in {a, b} : a <= y
    BY <1>1
  <2>2. \A x \in {a, b} : (\A y \in {a, b} : x <= y) => x = a
    BY <1>1
  <2>3. Min({a, b}) = a
    BY <2>1, <2>2 DEF Min
  <2> QED BY <1>1, <2>3 DEF Max
<1>2. CASE b < a
  BY <1>2 DEF Min, Max
<1> QED BY <1>1, <1>2

(* Rounding up reaches the dividend. *)
LEMMA RoundedUp ==
    ASSUME NEW x \in Nat, NEW r \in Nat, r > 0
    PROVE  (x + r - 1) \div r \in Nat /\ ((x + r - 1) \div r) * r >= x
<1> DEFINE n == x + r - 1
           q == n \div r
<1>1. n \in Nat
  OBVIOUS
<1>2. q \in Nat
  BY <1>1
<1>3. n < q * r + r
  <2> HIDE DEF n
  <2> QED BY <1>1, SMTT(20)
<1> HIDE DEF q
<1>4. q * r \in Int
  BY <1>2
<1>5. q * r >= x
  BY <1>3, <1>4
<1> QED BY <1>2, <1>5 DEF q

LEMMA Monotone ==
    ASSUME NEW a \in Int, NEW b \in Int, NEW r \in Nat, a >= b
    PROVE  a * r >= b * r /\ a * r \in Int /\ b * r \in Int
  OBVIOUS

-----------------------------------------------------------------------------
(* What a bucket holds when it is full. *)
Full == Burst * Cost

LEMMA Sizes == Full \in Nat /\ Cost <= Full /\ (Burst - 1) * Cost = Full - Cost
               /\ Rate \in Nat /\ Rate > 0 /\ Cost \in Nat /\ Cost > 0 /\ IdleTicks \in Nat
<1>1. /\ Rate \in Nat /\ Rate > 0 /\ Cost \in Nat /\ Cost > 0 /\ IdleTicks \in Nat
      /\ Burst \in Nat /\ Burst > 0
  BY GateAssumption
<1>2. (Burst - 1) * Cost = Burst * Cost - Cost
  BY <1>1
<1>3. Burst * Cost \in Nat
  BY <1>1
<1>4. (Burst - 1) * Cost >= 0
  BY <1>1
<1> QED BY <1>1, <1>2, <1>3, <1>4 DEF Full

(* The refilled bucket. *)
LEMMA RefillSize ==
    ASSUME GateInv, NEW b \in Buckets, buckets[b] # NoBucket
    PROVE  LET c == buckets[b]
               e == (now - c.lastSeen) * Rate IN
           /\ c.tokens \in Nat /\ c.lastSeen \in Nat /\ e \in Nat /\ c.lastSeen <= now
           /\ Refilled(b).tokens = (IF Full <= c.tokens + e THEN Full ELSE c.tokens + e)
           /\ Refilled(b).lastSeen = now
           /\ Refilled(b).tokens \in Nat /\ Refilled(b).tokens <= Full
           /\ Refilled(b) \in [tokens : Nat, lastSeen : Nat]
<1> DEFINE c == buckets[b]
           e == (now - c.lastSeen) * Rate
<1>1. c.tokens \in Nat /\ c.lastSeen \in Nat /\ c.lastSeen <= now /\ now \in Nat
  BY DEF GateInv, GateTypeOK, BucketSound
<1>2. now - c.lastSeen \in Nat
  BY <1>1
<1>3. e \in Nat
  BY <1>2, Sizes
<1>4. Refilled(b) = [tokens |-> Min({Full, c.tokens + e}), lastSeen |-> now]
  BY DEF Refilled, Full
<1> HIDE DEF e, c
<1>5. Full \in Int /\ c.tokens + e \in Int
  BY <1>1, <1>3, Sizes
<1>6. Min({Full, c.tokens + e}) = IF Full <= c.tokens + e THEN Full ELSE c.tokens + e
  BY <1>5, TwoValues
<1>7. Min({Full, c.tokens + e}) \in Nat /\ Min({Full, c.tokens + e}) <= Full
  BY <1>1, <1>3, <1>5, <1>6, Sizes
<1> QED BY <1>1, <1>3, <1>4, <1>6, <1>7 DEF e, c

-----------------------------------------------------------------------------
(* What each step does to one bucket. *)

LEMMA FirstSeen ==
    ASSUME GateInv, NEW b \in Buckets, buckets[b] = NoBucket
    PROVE  BucketSound([tokens |-> (Burst - 1) * Cost, lastSeen |-> now], level[b] + Cost, NoPromise, now)
<1> DEFINE c == [tokens |-> Full - Cost, lastSeen |-> now]
<1>1. (RefillsWhileIdle => level[b] = 0) /\ now \in Nat /\ level[b] \in Nat
  BY DEF GateInv, GateTypeOK, BucketSound
<1>2. c.tokens = Full - Cost /\ c.lastSeen = now /\ c = [tokens |-> (Burst - 1) * Cost, lastSeen |-> now]
  BY Sizes
<1>3. c \in [tokens : Nat, lastSeen : Nat]
  BY <1>1, Sizes
<1>4. (now - now) * Rate = 0
  BY <1>1, Sizes
<1>5. c # NoBucket
  BY <1>1, <1>2 DEF NoBucket
<1> HIDE DEF c
<1>6. RefillsWhileIdle => level[b] + Cost + c.tokens + (now - c.lastSeen) * Rate <= Full
  BY <1>1, <1>2, <1>4, Sizes
<1>7. BucketSound(c, level[b] + Cost, NoPromise, now)
  BY <1>1, <1>2, <1>3, <1>5, <1>6, Sizes DEF BucketSound, Full
<1> QED BY <1>2, <1>7

LEMMA LetThrough ==
    ASSUME GateInv, NEW b \in Buckets, buckets[b] # NoBucket, Refilled(b).tokens >= Cost
    PROVE  BucketSound([Refilled(b) EXCEPT !.tokens = @ - Cost], level[b] + Cost, NoPromise, now)
<1> DEFINE old == buckets[b]
           e == (now - old.lastSeen) * Rate
           r == Refilled(b)
           c == [r EXCEPT !.tokens = @ - Cost]
<1>1. /\ old.tokens \in Nat /\ e \in Nat /\ r.tokens \in Nat /\ r.tokens <= Full /\ r.lastSeen = now
      /\ r.tokens = (IF Full <= old.tokens + e THEN Full ELSE old.tokens + e)
      /\ r \in [tokens : Nat, lastSeen : Nat]
  BY RefillSize
<1>2. /\ now \in Nat /\ level[b] \in Nat
      /\ RefillsWhileIdle => level[b] = 0 \/ level[b] + old.tokens + e <= Full
  BY DEF GateInv, GateTypeOK, BucketSound, Full
<1>3. r.tokens >= Cost
  OBVIOUS
<1> HIDE DEF e, old, r
<1>4. c.tokens = r.tokens - Cost /\ c.lastSeen = now /\ c \in [tokens : Nat, lastSeen : Nat]
  BY <1>1, <1>3, Sizes
<1>5. c # NoBucket
  BY <1>4, <1>2 DEF NoBucket
<1>6. (now - now) * Rate = 0
  BY <1>2, Sizes
<1> HIDE DEF c
<1>7. RefillsWhileIdle => level[b] + r.tokens <= Full
  BY <1>1, <1>2, Sizes
<1>8. /\ RefillsWhileIdle => level[b] + Cost + c.tokens + (now - c.lastSeen) * Rate <= Full
      /\ c.tokens <= Full
  BY <1>1, <1>2, <1>4, <1>6, <1>7, Sizes
<1>9. BucketSound(c, level[b] + Cost, NoPromise, now)
  BY <1>2, <1>4, <1>5, <1>8 DEF BucketSound, Full
<1> QED BY <1>9 DEF c, r

LEMMA Refused ==
    ASSUME GateInv, NEW b \in Buckets, buckets[b] # NoBucket, Refilled(b).tokens < Cost
    PROVE  /\ now + RetryAfter(Refilled(b).tokens) \in Nat
           /\ BucketSound(Refilled(b), level[b], now + RetryAfter(Refilled(b).tokens), now)
           /\ promise[b] # NoPromise => now < promise[b]
<1> DEFINE old == buckets[b]
           e == (now - old.lastSeen) * Rate
           r == Refilled(b)
           w == RetryAfter(r.tokens)
<1>1. /\ old.tokens \in Nat /\ e \in Nat /\ r.tokens \in Nat /\ r.tokens <= Full /\ r.lastSeen = now
      /\ r.tokens = (IF Full <= old.tokens + e THEN Full ELSE old.tokens + e)
      /\ r \in [tokens : Nat, lastSeen : Nat] /\ old.lastSeen \in Nat
  BY RefillSize
<1>2. /\ now \in Nat /\ level[b] \in Nat /\ promise[b] \in Nat \cup {NoPromise}
      /\ RefillsWhileIdle => level[b] = 0 \/ level[b] + old.tokens + e <= Full
      /\ promise[b] # NoPromise => old.tokens + (promise[b] - old.lastSeen) * Rate >= Cost
  BY DEF GateInv, GateTypeOK, BucketSound, Full
<1>3. r.tokens < Cost
  OBVIOUS
<1>4. r.tokens = old.tokens + e
  BY <1>1, <1>3, Sizes
<1>5. w \in Nat /\ w * Rate >= Cost - r.tokens
  <2>1. Cost - r.tokens \in Nat
    BY <1>1, <1>3, Sizes
  <2>2. w = ((Cost - r.tokens) + Rate - 1) \div Rate
    BY DEF RetryAfter
  <2> HIDE DEF w
  <2> QED BY <2>1, <2>2, RoundedUp, Sizes
<1>6. promise[b] # NoPromise => now < promise[b]
  <2> SUFFICES ASSUME promise[b] # NoPromise, promise[b] <= now PROVE FALSE
    BY <1>2 DEF NoPromise
  <2> DEFINE f == (promise[b] - old.lastSeen) * Rate
  <2>1. promise[b] \in Nat
    BY <1>2
  <2>2. e >= f /\ f \in Int
    BY <2>1, <1>1, <1>2, Sizes, Monotone
  <2>3. old.tokens + f >= Cost
    BY <1>2
  <2> HIDE DEF e, f, old, r
  <2> QED BY <2>2, <2>3, <1>1, <1>3, <1>4, Sizes
<1> HIDE DEF e, old, r, w
<1>7. r # NoBucket
  BY <1>1 DEF NoBucket
<1>8. (now - r.lastSeen) * Rate = 0
  BY <1>1, <1>2, Sizes
<1>9. RefillsWhileIdle => level[b] = 0 \/ level[b] + r.tokens + (now - r.lastSeen) * Rate <= Full
  BY <1>1, <1>2, <1>4, <1>8, Sizes
<1>10. r.tokens + ((now + w) - r.lastSeen) * Rate >= Cost
  <2>1. (now + w) - r.lastSeen = w
    BY <1>1, <1>2, <1>5
  <2>2. w * Rate \in Int
    BY <1>5, Sizes
  <2> QED BY <2>1, <2>2, <1>1, <1>5, Sizes
<1>11. BucketSound(r, level[b], now + w, now)
  BY <1>1, <1>2, <1>7, <1>9, <1>10 DEF BucketSound, Full
<1>12. now + w \in Nat
  BY <1>2, <1>5
<1> QED BY <1>6, <1>11, <1>12 DEF r, w

LEMMA Forgotten ==
    ASSUME GateInv, NEW b \in Buckets, now - buckets[b].lastSeen > IdleTicks
    PROVE  BucketSound(NoBucket, level[b], promise[b], now)
<1>1. CASE buckets[b] = NoBucket
  BY <1>1 DEF GateInv, BucketSound
<1>2. CASE buckets[b] # NoBucket
  <2> DEFINE old == buckets[b]
             e == (now - old.lastSeen) * Rate
  <2>1. /\ now \in Nat /\ level[b] \in Nat /\ old.tokens \in Nat /\ old.lastSeen \in Nat
        /\ RefillsWhileIdle => level[b] = 0 \/ level[b] + old.tokens + e <= Full
    BY <1>2 DEF GateInv, GateTypeOK, BucketSound, Full
  <2>2. e >= IdleTicks * Rate /\ e \in Int /\ IdleTicks * Rate \in Int
    BY <2>1, Sizes, Monotone
  <2>3. ASSUME RefillsWhileIdle PROVE level[b] = 0
    <3>1. IdleTicks * Rate >= Full
      BY <2>3 DEF RefillsWhileIdle, Full
    <3> HIDE DEF e, old
    <3> QED BY <2>1, <2>2, <2>3, <3>1, Sizes
  <2> QED BY <2>3 DEF BucketSound
<1> QED BY <1>1, <1>2

LEMMA LevelDrains ==
    ASSUME GateInv, NEW b \in Buckets
    PROVE  /\ Max({0, level[b] - Rate}) \in Nat
           /\ BucketSound(buckets[b], Max({0, level[b] - Rate}), promise[b], now + 1)
<1> DEFINE m == Max({0, level[b] - Rate})
           old == buckets[b]
           e == (now - old.lastSeen) * Rate
           f == ((now + 1) - old.lastSeen) * Rate
<1>1. now \in Nat /\ level[b] \in Nat
  BY DEF GateInv, GateTypeOK
<1>2. m = IF 0 >= level[b] - Rate THEN 0 ELSE level[b] - Rate
  <2>1. 0 \in Int /\ level[b] - Rate \in Int
    BY <1>1, Sizes
  <2> QED BY <2>1, TwoValues
<1> HIDE DEF m
<1>3. m \in Nat
  BY <1>1, <1>2, Sizes
<1>4. CASE old = NoBucket
  <2>1. RefillsWhileIdle => level[b] = 0
    BY <1>4 DEF GateInv, BucketSound
  <2>2. RefillsWhileIdle => m = 0
    BY <2>1, <1>2, Sizes
  <2> QED BY <1>3, <1>4, <2>2 DEF BucketSound, m
<1>5. CASE old # NoBucket
  <2>1. /\ old \in [tokens : Nat, lastSeen : Nat] /\ old.lastSeen <= now /\ old.tokens <= Full
        /\ RefillsWhileIdle => level[b] = 0 \/ level[b] + old.tokens + e <= Full
        /\ promise[b] # NoPromise => old.tokens + (promise[b] - old.lastSeen) * Rate >= Cost
    BY <1>5 DEF GateInv, BucketSound, Full
  <2>2. f = e + Rate /\ e \in Int
    <3>1. now - old.lastSeen \in Int /\ (now + 1) - old.lastSeen = (now - old.lastSeen) + 1
      BY <2>1, <1>1
    <3> QED BY <3>1, Sizes
  <2>3. RefillsWhileIdle => m = 0 \/ m + old.tokens + f <= Full
    <3>1. old.tokens \in Nat
      BY <2>1
    <3> HIDE DEF e, f, old
    <3> QED BY <2>1, <2>2, <3>1, <1>1, <1>2, Sizes
  <2>4. old.lastSeen <= now + 1
    BY <2>1, <1>1
  <2>5. BucketSound(old, m, promise[b], now + 1)
    BY <1>5, <2>1, <2>3, <2>4 DEF BucketSound, Full
  <2> QED BY <1>3, <2>5 DEF m
<1> QED BY <1>4, <1>5

-----------------------------------------------------------------------------
LEMMA GateStarts == GateInit => GateInv
  BY DEF GateInit, GateInv, GateTypeOK, BucketSound, RetryAfterHonoured, NoResponse

(* A request that is limited is charged to one of the buckets: an authenticated *)
(* one to its key's, a webhook call to that of an address.                      *)
LEMMA ChargedToKey ==
    ASSUME NEW key \in DOMAIN KeyScope, NEW peer, NEW f
    PROVE  rateLimitKey(key, peer, f) \in Buckets
<1>1. key # ""
  BY DEF KeyScope
<1> QED BY <1>1 DEF rateLimitKey, Buckets

LEMMA ClientIsAPeer ==
    ASSUME NEW peer \in Peers, NEW f \in Forwarded
    PROVE  clientIP(peer, f) \in Peers
<1> DEFINE hops == {i \in DOMAIN f : f[i] \notin Trusted}
<1>0. f = <<>> \/ f \in {<<p, q>> : p, q \in Peers}
  BY DEF Forwarded
<1>1. CASE peer \notin Trusted \/ hops = {}
  BY <1>1 DEF clientIP
<1>2. CASE f \in {<<p, q>> : p, q \in Peers} /\ hops # {}
  <2>1. PICK p \in Peers, q \in Peers : f = <<p, q>>
    BY <1>2
  <2>2. hops \subseteq {1, 2} /\ f[1] \in Peers /\ f[2] \in Peers
    BY <2>1
  <2>3. hops = {1} \/ hops = {2} \/ hops = {1, 2}
    BY <1>2, <2>2
  <2> HIDE DEF hops
  <2>4. Max(hops) \in {1, 2}
    <3>1. CASE hops = {1} \/ hops = {2}
      BY <3>1 DEF Max
    <3>2. CASE hops = {1, 2}
      BY <3>2 DEF Max
    <3> QED BY <2>3, <3>1, <3>2
  <2>5. clientIP(peer, f) = peer \/ clientIP(peer, f) = f[Max(hops)]
    BY DEF clientIP, hops
  <2> QED BY <2>2, <2>4, <2>5
<1> QED BY <1>0, <1>1, <1>2

LEMMA ChargedToAddress ==
    ASSUME NEW peer \in Peers, NEW f \in Forwarded
    PROVE  \E identity : identity = "" /\ rateLimitKey(identity, peer, f) \in Buckets
<1>1. <<clientIP(peer, f), "ip">> \in Buckets
  BY ClientIsAPeer DEF Buckets
<1>2. ASSUME NEW identity, identity = ""
      PROVE  rateLimitKey(identity, peer, f) \in Buckets
  BY <1>1, <1>2, Zenon DEF rateLimitKey
<1> QED BY <1>2, Zenon

LEMMA LimitedKeeps ==
    ASSUME GateInv, NEW route, NEW identity, NEW peer, NEW f,
           rateLimitKey(identity, peer, f) \in Buckets, Limited(route, identity, peer, f)
    PROVE  GateInv'
<1> DEFINE b == rateLimitKey(identity, peer, f)
<1>0. /\ b \in Buckets /\ now' = now /\ asked' \in Nat /\ now \in Nat
      /\ DOMAIN buckets = Buckets /\ level \in [Buckets -> Nat]
      /\ promise \in [Buckets -> Nat \cup {NoPromise}]
      /\ \A x \in Buckets : BucketSound(buckets[x], level[x], promise[x], now)
  BY DEF Limited, GateInv, GateTypeOK
<1>1. CASE /\ AllowNew(b) \/ AllowKnown(b)
           /\ level' = [level EXCEPT ![b] = @ + Cost]
           /\ promise' = [promise EXCEPT ![b] = NoPromise]
           /\ \E status \in {200, 403} : Respond(status, b)
  <2>1. PICK c : /\ buckets' = [buckets EXCEPT ![b] = c]
                 /\ BucketSound(c, level[b] + Cost, NoPromise, now)
    BY <1>0, <1>1, FirstSeen, LetThrough DEF AllowNew, AllowKnown
  <2>2. RetryAfterHonoured'
    BY <1>1 DEF Respond, RetryAfterHonoured
  <2>3. GateTypeOK'
    BY <1>0, <1>1, <2>1, Sizes DEF GateTypeOK
  <2>4. ASSUME NEW x \in Buckets PROVE BucketSound(buckets[x], level[x], promise[x], now)'
    <3>1. buckets'[b] = c /\ level'[b] = level[b] + Cost /\ promise'[b] = NoPromise
      BY <1>0, <1>1, <2>1
    <3>2. x # b => buckets'[x] = buckets[x] /\ level'[x] = level[x] /\ promise'[x] = promise[x]
      BY <1>0, <1>1, <2>1
    <3>3. BucketSound(buckets'[x], level'[x], promise'[x], now)
      BY <1>0, <2>1, <3>1, <3>2
    <3> QED BY <3>3, <1>0 DEF BucketSound
  <2> QED BY <2>2, <2>3, <2>4 DEF GateInv
<1>2. CASE Refuse(b) /\ UNCHANGED level /\ Respond(429, b)
  <2> DEFINE c == Refilled(b)
             w == now + RetryAfter(c.tokens)
  <2>1. /\ buckets' = [buckets EXCEPT ![b] = c] /\ promise' = [promise EXCEPT ![b] = w]
        /\ w \in Nat /\ BucketSound(c, level[b], w, now)
        /\ promise[b] # NoPromise => now < promise[b]
    BY <1>0, <1>2, Refused DEF Refuse
  <2>2. response'.promised = promise[b] /\ response'.at = now
    BY <1>0, <1>2 DEF Respond
  <2>3. RetryAfterHonoured'
    BY <2>1, <2>2 DEF RetryAfterHonoured, NoPromise
  <2> HIDE DEF c, w
  <2>4. GateTypeOK'
    BY <1>0, <1>2, <2>1 DEF GateTypeOK
  <2>5. ASSUME NEW x \in Buckets PROVE BucketSound(buckets[x], level[x], promise[x], now)'
    <3>1. buckets'[b] = c /\ level'[x] = level[x] /\ promise'[b] = w
      BY <1>0, <1>2, <2>1
    <3>2. x # b => buckets'[x] = buckets[x] /\ promise'[x] = promise[x]
      BY <1>0, <1>2, <2>1
    <3>3. BucketSound(buckets'[x], level'[x], promise'[x], now)
      BY <1>0, <2>1, <3>1, <3>2
    <3> QED BY <3>3, <1>0 DEF BucketSound
  <2> QED BY <2>3, <2>4, <2>5 DEF GateInv
<1> QED BY <1>1, <1>2 DEF Limited

LEMMA CleanupKeeps == GateInv /\ cleanupOldClients => GateInv'
<1> SUFFICES ASSUME GateInv, cleanupOldClients PROVE GateInv'
  OBVIOUS
<1>1. /\ buckets' = [b \in Buckets |-> IF now - buckets[b].lastSeen > IdleTicks THEN NoBucket ELSE buckets[b]]
      /\ UNCHANGED <<now, asked, level, promise, response>>
  BY DEF cleanupOldClients
<1>2. GateTypeOK' /\ RetryAfterHonoured'
  BY <1>1 DEF GateInv, GateTypeOK, RetryAfterHonoured
<1>3. ASSUME NEW b \in Buckets PROVE BucketSound(buckets[b], level[b], promise[b], now)'
  <2>1. BucketSound(buckets'[b], level[b], promise[b], now)
    BY <1>1, Forgotten DEF GateInv
  <2> QED BY <1>1, <2>1
<1> QED BY <1>2, <1>3 DEF GateInv

LEMMA ClockKeeps == GateInv /\ Clock => GateInv'
<1> SUFFICES ASSUME GateInv, Clock PROVE GateInv'
  OBVIOUS
<1>1. /\ level' = [b \in Buckets |-> Max({0, level[b] - Rate})] /\ now' = now + 1
      /\ UNCHANGED <<buckets, asked, promise, response>>
  BY DEF Clock
<1>2. GateTypeOK' /\ RetryAfterHonoured'
  BY <1>1, LevelDrains DEF GateInv, GateTypeOK, RetryAfterHonoured
<1>3. ASSUME NEW b \in Buckets PROVE BucketSound(buckets[b], level[b], promise[b], now)'
  BY <1>1, LevelDrains
<1> QED BY <1>2, <1>3 DEF GateInv

LEMMA GateKeeps == GateInv /\ [GateNext]_gateVars => GateInv'
<1> SUFFICES ASSUME GateInv, [GateNext]_gateVars PROVE GateInv'
  OBVIOUS
<1>1. CASE UNCHANGED <<now, buckets, asked, level, promise>> /\ (UNCHANGED response \/ response'.status # 429)
  <2>1. RetryAfterHonoured'
    BY <1>1 DEF GateInv, RetryAfterHonoured
  <2>2. GateTypeOK'
    BY <1>1 DEF GateInv, GateTypeOK
  <2> QED BY <1>1, <2>1, <2>2 DEF GateInv
<1>2. CASE Public
  BY <1>1, <1>2 DEF Public, Respond
<1>3. ASSUME NEW key \in Presented, Unauthorized(key) PROVE GateInv'
  BY <1>1, <1>3 DEF Unauthorized, Respond
<1>4. ASSUME NEW key \in Presented, Authenticate(key), NEW route \in {"retrieval", "admin"},
             NEW peer \in Trusted, Limited(route, key, peer, <<>>)
      PROVE  GateInv'
  <2>1. key \in DOMAIN KeyScope /\ peer \in Peers
    BY <1>4, GateAssumption DEF Authenticate
  <2> QED BY <2>1, <1>4, ChargedToKey, LimitedKeeps
<1>5. ASSUME NEW peer \in Peers, NEW f \in Forwarded,
             Limited("webhook", "", peer, f)
      PROVE  GateInv'
  <2>1. PICK identity : identity = "" /\ rateLimitKey(identity, peer, f) \in Buckets
    BY ChargedToAddress, Zenon
  <2>2. Limited("webhook", identity, peer, f)
    BY <1>5, <2>1, Zenon
  <2> QED BY <2>1, <2>2, LimitedKeeps, Zenon
<1>6. CASE UNCHANGED gateVars
  BY <1>1, <1>6 DEF gateVars
<1> QED BY <1>2, <1>3, <1>4, <1>5, <1>6, CleanupKeeps, ClockKeeps DEF GateNext

(* A client that waits as long as a refusal told it is let in, for every rate,   *)
(* cost, burst, idle time and set of trusted proxies (Allow, Retry-After).       *)
THEOREM RetryAfterIsHonest == GateSpec => []RetryAfterHonoured
<1>1. GateInv => RetryAfterHonoured
  BY DEF GateInv
<1> QED BY <1>1, GateStarts, GateKeeps, PTL DEF GateSpec

(* The rate limiter keeps its promises in every reachable state, for every rate, *)
(* cost and set of trusted proxies and every burst that refills before a client  *)
(* is forgotten: a bucket never lets through more than the burst and what the    *)
(* rate refills, and a client that waits as long as it was told is let in        *)
(* (Allow, cleanupOldClients).                                                   *)
THEOREM LimiterIsSound ==
    ASSUME RefillsWhileIdle
    PROVE  GateSpec => []LimiterSound
<1>1. GateInv => LimiterSound
  <2> SUFFICES ASSUME GateInv, NEW b \in Buckets PROVE level[b] <= Burst * Cost
    BY DEF GateInv, LimiterSound, BucketBound
  <2>1. level[b] \in Nat
    BY DEF GateInv, GateTypeOK
  <2>2. CASE buckets[b] = NoBucket
    BY <2>2, Sizes DEF GateInv, BucketSound, Full
  <2>3. CASE buckets[b] # NoBucket
    <3> DEFINE e == (now - buckets[b].lastSeen) * Rate
    <3>1. /\ buckets[b].tokens \in Nat /\ e \in Nat
          /\ level[b] = 0 \/ level[b] + buckets[b].tokens + e <= Full
      BY <2>3, RefillSize DEF GateInv, BucketSound, Full
    <3> HIDE DEF e
    <3> QED BY <3>1, <2>1, Sizes DEF Full
  <2> QED BY <2>2, <2>3
<1> QED BY <1>1, GateStarts, GateKeeps, PTL DEF GateSpec

-----------------------------------------------------------------------------
(* ProgressBus: the log ring and the wakeups. *)

(* The remainders the ring needs: below the capacity, and once around. *)
LEMMA Around ==
    ASSUME NEW x \in Nat, x < LogCap + LogCap
    PROVE  x % LogCap = IF x < LogCap THEN x ELSE x - LogCap
<1>1. LogCap \in Nat /\ LogCap > 0
  BY BusAssumption
<1> QED BY <1>1

(* The log of a surface after one entry more. *)
LEMMA Appended ==
    ASSUME NEW b \in SurfaceType, NEW e \in LogEntries
    PROVE  LET c == appendLog(b, e) IN
           /\ c \in SurfaceType
           /\ c.ring = [b.ring EXCEPT ![b.logNext] = e]
           /\ c.logNext = (IF b.logNext + 1 < LogCap THEN b.logNext + 1 ELSE 0)
           /\ c.logLen = (IF b.logLen < LogCap THEN b.logLen + 1 ELSE b.logLen)
           /\ c.errors = (IF e.level = "error" THEN b.errors + 1 ELSE b.errors)
           /\ c.warnings = (IF e.level = "warn" THEN b.warnings + 1 ELSE b.warnings)
<1> DEFINE c == appendLog(b, e)
<1>1. LogCap \in Nat /\ LogCap > 0
  BY BusAssumption
<1>2. /\ b.logNext \in 0 .. LogCap - 1 /\ b.logLen \in 0 .. LogCap /\ b.errors \in Nat /\ b.warnings \in Nat
      /\ b.ring \in [0 .. LogCap - 1 -> LogEntries]
  BY DEF SurfaceType
<1>3. (b.logNext + 1) % LogCap = IF b.logNext + 1 < LogCap THEN b.logNext + 1 ELSE 0
  <2>1. b.logNext + 1 \in Nat /\ b.logNext + 1 < LogCap + LogCap
    BY <1>1, <1>2
  <2> QED BY <2>1, <1>1, <1>2, Around
<1>4. /\ c.ring = [b.ring EXCEPT ![b.logNext] = e]
      /\ c.logNext = (b.logNext + 1) % LogCap
      /\ c.logLen = (IF b.logLen < LogCap THEN b.logLen + 1 ELSE b.logLen)
      /\ c.errors = (IF e.level = "error" THEN b.errors + 1 ELSE b.errors)
      /\ c.warnings = (IF e.level = "warn" THEN b.warnings + 1 ELSE b.warnings)
      /\ c.phase = b.phase
  BY DEF appendLog, SurfaceType
<1>5. c = [phase |-> c.phase, ring |-> c.ring, logNext |-> c.logNext, logLen |-> c.logLen,
           errors |-> c.errors, warnings |-> c.warnings]
  <2>1. DOMAIN c = {"phase", "ring", "logNext", "logLen", "errors", "warnings"} /\ c = [x \in DOMAIN c |-> c[x]]
    BY DEF appendLog, SurfaceType
  <2> HIDE DEF c
  <2> QED BY <2>1
<1>a. c.ring \in [0 .. LogCap - 1 -> LogEntries] /\ c.phase \in [Shown -> {Absent, "idle", "queued", "indexing", "error"}]
  BY <1>2, <1>4 DEF SurfaceType
<1> HIDE DEF c
<1>b. c.logNext \in 0 .. LogCap - 1 /\ c.logLen \in 0 .. LogCap
  <2>1. c.logNext \in 0 .. LogCap - 1
    <3>1. c.logNext = IF b.logNext + 1 < LogCap THEN b.logNext + 1 ELSE 0
      BY <1>3, <1>4
    <3> QED BY <1>1, <1>2, <3>1
  <2>2. c.logLen = IF b.logLen < LogCap THEN b.logLen + 1 ELSE b.logLen
    BY <1>4
  <2>3. c.logLen \in 0 .. LogCap
    BY <1>1, <1>2, <2>2
  <2> QED BY <2>1, <2>3
<1>c. c.errors \in Nat /\ c.warnings \in Nat
  BY <1>2, <1>4
<1>6. c \in SurfaceType
  BY <1>5, <1>a, <1>b, <1>c DEF SurfaceType
<1> QED BY <1>3, <1>4, <1>6 DEF c

LEMMA RingKept ==
    ASSUME NEW b \in SurfaceType, NEW h \in Seq(LogEntries), NEW e \in LogEntries, RingHolds(b, h)
    PROVE  RingHolds(appendLog(b, e), Append(h, e))
<1> DEFINE c == appendLog(b, e)
           g == Append(h, e)
           n == Len(h)
           L == b.logNext
<1>1. LogCap \in Nat /\ LogCap > 0 /\ n \in Nat /\ Len(g) = n + 1
  BY BusAssumption
<1>2. L \in 0 .. LogCap - 1 /\ b.ring \in [0 .. LogCap - 1 -> LogEntries]
  BY DEF SurfaceType
<1>3. \A j \in 1 .. n : g[j] = h[j]
  OBVIOUS
<1>4. g[n + 1] = e
  OBVIOUS
<1>5. /\ c.ring = [b.ring EXCEPT ![L] = e]
      /\ c.logNext = (IF L + 1 < LogCap THEN L + 1 ELSE 0)
      /\ c.logLen = (IF b.logLen < LogCap THEN b.logLen + 1 ELSE b.logLen)
  BY Appended
<1>6. /\ n < LogCap => L = n /\ b.logLen = n /\ \A j \in 1 .. n : b.ring[j - 1] = h[j]
      /\ n >= LogCap => b.logLen = LogCap /\ \A i \in 1 .. LogCap : b.ring[Slot(L, i)] = h[n - LogCap + i]
  BY DEF RingHolds
<1>7. c.ring[L] = e /\ \A k \in 0 .. LogCap - 1 : k # L => c.ring[k] = b.ring[k]
  BY <1>2, <1>5
<1> HIDE DEF c, g, n, L
<1>8. CASE n + 1 < LogCap
  <2>1. L = n /\ c.logNext = n + 1 /\ c.logLen = n + 1
    BY <1>1, <1>5, <1>6, <1>8
  <2>2. ASSUME NEW j \in 1 .. n + 1 PROVE c.ring[j - 1] = g[j]
    <3>1. CASE j = n + 1
      BY <1>1, <1>4, <1>7, <2>1, <3>1
    <3>2. CASE j \in 1 .. n
      BY <1>1, <1>3, <1>6, <1>7, <1>8, <2>1, <3>2
    <3> QED BY <1>1, <3>1, <3>2
  <2> QED BY <1>1, <1>8, <2>1, <2>2 DEF RingHolds, c, g
<1>9. CASE n + 1 = LogCap
  <2>1. L = n /\ c.logNext = 0 /\ c.logLen = LogCap
    BY <1>1, <1>5, <1>6, <1>9
  <2>2. ASSUME NEW i \in 1 .. LogCap PROVE c.ring[Slot(c.logNext, i)] = g[Len(g) - LogCap + i]
    <3>1. Slot(c.logNext, i) = i - 1 /\ Len(g) - LogCap + i = i
      BY <1>1, <1>9, <2>1 DEF Slot
    <3>2. CASE i = n + 1
      BY <1>1, <1>4, <1>7, <2>1, <3>1, <3>2
    <3>3. CASE i \in 1 .. n
      <4>1. n < LogCap /\ i - 1 \in 0 .. LogCap - 1 /\ i - 1 # L
        BY <1>1, <1>9, <2>1, <3>3
      <4>2. c.ring[i - 1] = b.ring[i - 1] /\ b.ring[i - 1] = h[i] /\ g[i] = h[i]
        BY <1>3, <1>6, <1>7, <3>3, <4>1
      <4> QED BY <3>1, <4>2
    <3> QED BY <1>1, <1>9, <3>2, <3>3
  <2>3. Len(g) >= LogCap /\ ~(Len(g) < LogCap)
    BY <1>1, <1>9
  <2>4. RingHolds(c, g)
    BY <2>1, <2>2, <2>3 DEF RingHolds
  <2> QED BY <2>4 DEF c, g
<1>10. CASE n >= LogCap
  <2>1. c.logLen = LogCap
    BY <1>1, <1>5, <1>6, <1>10
  <2>2. ASSUME NEW i \in 1 .. LogCap PROVE c.ring[Slot(c.logNext, i)] = g[Len(g) - LogCap + i]
    <3>1. CASE i = LogCap
      <4>1. Slot(c.logNext, i) = L
        BY <1>1, <1>2, <1>5, <3>1 DEF Slot
      <4> QED BY <1>1, <1>4, <1>7, <3>1, <4>1
    <3>2. CASE i + 1 \in 1 .. LogCap
      <4>1. Slot(c.logNext, i) = Slot(L, i + 1) /\ Slot(L, i + 1) # L /\ Slot(L, i + 1) \in 0 .. LogCap - 1
        BY <1>1, <1>2, <1>5, <3>2 DEF Slot
      <4>2. b.ring[Slot(L, i + 1)] = h[n - LogCap + (i + 1)]
        BY <1>6, <1>10, <3>2
      <4>3. n - LogCap + (i + 1) \in 1 .. n /\ n - LogCap + (i + 1) = Len(g) - LogCap + i
        BY <1>1, <1>10, <3>2
      <4> QED BY <1>3, <1>7, <4>1, <4>2, <4>3
    <3> QED BY <1>1, <3>1, <3>2
  <2>3. Len(g) >= LogCap /\ ~(Len(g) < LogCap)
    BY <1>1, <1>10
  <2>4. RingHolds(c, g)
    BY <2>1, <2>2, <2>3 DEF RingHolds
  <2> QED BY <2>4 DEF c, g
<1> QED BY <1>1, <1>8, <1>9, <1>10

(* How often a level occurs, after one entry more. *)
LEMMA CountKept ==
    ASSUME NEW h \in Seq(LogEntries), NEW e \in LogEntries, NEW l
    PROVE  Cardinality({i \in DOMAIN Append(h, e) : Append(h, e)[i].level = l}) =
             LET k == Cardinality({i \in DOMAIN h : h[i].level = l}) IN IF e.level = l THEN k + 1 ELSE k
<1> DEFINE g == Append(h, e)
           S == {i \in DOMAIN h : h[i].level = l}
           T == {i \in DOMAIN g : g[i].level = l}
           n == Len(h)
<1>1. n \in Nat /\ DOMAIN h = 1 .. n /\ DOMAIN g = 1 .. n + 1 /\ g[n + 1] = e
  OBVIOUS
<1>2. \A j \in 1 .. n : g[j] = h[j]
  OBVIOUS
<1>3. IsFiniteSet(S) /\ n + 1 \notin S
  <2>1. IsFiniteSet(1 .. n) /\ S \in SUBSET (1 .. n)
    BY <1>1, FS_Interval
  <2> QED BY <2>1, <1>1, FS_Subset
<1>4. T = IF e.level = l THEN S \cup {n + 1} ELSE S
  <2> HIDE DEF g, n
  <2> QED BY <1>1, <1>2
<1>5. Cardinality(S \cup {n + 1}) = Cardinality(S) + 1
  <2> HIDE DEF S, n
  <2> QED BY <1>3, FS_AddElement
<1>6. Cardinality(T) = IF e.level = l THEN Cardinality(S) + 1 ELSE Cardinality(S)
  <2> HIDE DEF S, T, n
  <2> QED BY <1>4, <1>5
<1> QED BY <1>6

-----------------------------------------------------------------------------
(* A publication leaves the log to appendLog, and writes at most one entry.    *)
LEMMA PublicationShape ==
    ASSUME BusTypeOK, NEW op \in Publications
    PROVE  /\ op.to \in SurfaceType
           /\ op.to.ring = surface.ring /\ op.to.logNext = surface.logNext /\ op.to.logLen = surface.logLen
           /\ op.to.errors = surface.errors /\ op.to.warnings = surface.warnings
           /\ op.log = <<>> \/ \E e \in LogEntries : op.log = <<e>>
<1> DEFINE Same(b) == /\ b \in SurfaceType /\ b.ring = surface.ring /\ b.logNext = surface.logNext
                      /\ b.logLen = surface.logLen /\ b.errors = surface.errors
                      /\ b.warnings = surface.warnings
           Phases == {Absent, "idle", "queued", "indexing", "error"}
           One(l) == l = <<>> \/ \E e \in LogEntries : l = <<e>>
<1>1. Same(surface)
  BY DEF BusTypeOK
<1>2. ASSUME NEW b, Same(b), NEW r \in Shown, NEW ph \in Phases PROVE Same([b EXCEPT !.phase[r] = ph])
  BY <1>2 DEF SurfaceType
<1>3. ASSUME NEW r \in Shown PROVE Same(state(surface, r))
  <2>1. "idle" \in Phases
    OBVIOUS
  <2> HIDE DEF Same, Phases
  <2> QED BY <1>1, <1>2, <2>1 DEF state
<1>4. ASSUME NEW r \in Shown, NEW ph \in Phases PROVE Same([state(surface, r) EXCEPT !.phase[r] = ph])
  <2> HIDE DEF Same, Phases
  <2> QED BY <1>2, <1>3
<1>5. ASSUME NEW l \in {"info", "warn", "error"} PROVE One(<<Entry(l)>>)
  <2>1. Entry(l) \in LogEntries
    BY DEF Entry, LogEntries, LogLevels, BusTypeOK
  <2> QED BY <2>1
<1>6. One(<<>>)
  OBVIOUS
<1>7. {"idle", "queued", "indexing", "error"} \subseteq Phases
  OBVIOUS
<1> HIDE DEF Same, Phases, One
<1>8. ASSUME op = ReposDormant PROVE Same(op.to) /\ One(op.log)
  BY <1>1, <1>6, <1>8 DEF ReposDormant
<1>9. ASSUME NEW l \in LogLevels, op = Log(l) PROVE Same(op.to) /\ One(op.log)
  BY <1>1, <1>5, <1>9 DEF Log, LogLevels
<1>10. ASSUME NEW r \in Shown, op \in {RepoRegistered(r), IndexProgress(r), Watching(r)}
       PROVE  Same(op.to) /\ One(op.log)
  BY <1>3, <1>6, <1>10 DEF RepoRegistered, IndexProgress, Watching
<1>11. ASSUME NEW r \in Shown, op \in {IndexQueued(r), IndexStarted(r)}
       PROVE  Same(op.to) /\ One(op.log)
  BY <1>4, <1>5, <1>6, <1>7, <1>11 DEF IndexQueued, IndexStarted
<1>12. ASSUME NEW r \in Shown, NEW ok \in BOOLEAN, op = IndexFinished(r, ok) \/ op = WatchApplied(r, ok)
       PROVE  Same(op.to) /\ One(op.log)
  BY <1>4, <1>5, <1>7, <1>12 DEF IndexFinished, WatchApplied
<1>13. Same(op.to) /\ One(op.log)
  <2>1. ASSUME NEW r \in Shown, op \in RepoPublications(r) PROVE Same(op.to) /\ One(op.log)
    BY <2>1, <1>10, <1>11, <1>12 DEF RepoPublications
  <2>2. (\E r \in Shown : op \in RepoPublications(r)) \/ op = ReposDormant \/ \E l \in LogLevels : op = Log(l)
    BY DEF Publications
  <2> QED BY <2>1, <2>2, <1>8, <1>9
<1> QED BY <1>13 DEF Same, One

LEMMA BusStarts == BusInit => BusInv
<1> SUFFICES ASSUME BusInit PROVE BusInv
  OBVIOUS
<1>1. LogCap \in Nat /\ LogCap > 0
  BY BusAssumption
<1>2. surface \in SurfaceType
  BY <1>1 DEF BusInit, SurfaceType, LogEntries
<1>3. history \in Seq(LogEntries) /\ Len(history) = 0 /\ DOMAIN history = {}
  BY DEF BusInit
<1>4. BusTypeOK
  BY <1>2, <1>3 DEF BusInit, BusTypeOK, IdlePub, NoDash
<1>5. RingHolds(surface, history)
  BY <1>1, <1>3 DEF BusInit, RingHolds
<1>6. Counted(surface, history)
  <2>1. {i \in DOMAIN history : history[i].level = "error"} = {}
        /\ {i \in DOMAIN history : history[i].level = "warn"} = {}
    BY <1>3
  <2>2. surface.errors = 0 /\ surface.warnings = 0
    BY DEF BusInit
  <2> QED BY <2>1, <2>2, FS_EmptySet DEF Counted
<1>7. DashboardsOpen /\ NoMissedChange /\ Senders
  BY DEF BusInit, DashboardsOpen, NoMissedChange, Senders, IdlePub
<1> QED BY <1>4, <1>5, <1>6, <1>7 DEF BusInv

LEMMA PublishKeeps ==
    ASSUME BusInv, NEW p \in Publishers, Publish(p)
    PROVE  BusInv'
<1>1. PICK op \in Publications :
        /\ surface' = IF op.log = <<>> THEN op.to ELSE appendLog(op.to, op.log[1])
        /\ history' = history \o op.log
  BY DEF Publish
<1>2. /\ op.to \in SurfaceType
      /\ op.to.ring = surface.ring /\ op.to.logNext = surface.logNext /\ op.to.logLen = surface.logLen
      /\ op.to.errors = surface.errors /\ op.to.warnings = surface.warnings
      /\ op.log = <<>> \/ \E e \in LogEntries : op.log = <<e>>
  BY PublicationShape DEF BusInv
<1>3. RingHolds(op.to, history) /\ Counted(op.to, history)
  BY <1>2 DEF BusInv, RingHolds, Counted
<1>4. surface' \in SurfaceType /\ history' \in Seq(LogEntries)
      /\ RingHolds(surface', history') /\ Counted(surface', history')
  <2>0. history \in Seq(LogEntries)
    BY DEF BusInv, BusTypeOK
  <2>1. CASE op.log = <<>>
    <3>1. history' = history
      BY <1>1, <2>0, <2>1
    <3>2. surface' = op.to
      BY <1>1, <2>1
    <3> QED BY <3>1, <3>2, <2>0, <1>2, <1>3
  <2>2. ASSUME NEW e \in LogEntries, op.log = <<e>>
        PROVE  /\ surface' \in SurfaceType /\ history' \in Seq(LogEntries)
               /\ RingHolds(surface', history') /\ Counted(surface', history')
    <3>1. history' = Append(history, e)
      BY <1>1, <2>0, <2>2
    <3>2. surface' = appendLog(op.to, e)
      BY <1>1, <2>2
    <3>3. appendLog(op.to, e) \in SurfaceType /\ Append(history, e) \in Seq(LogEntries)
      <4>1. Append(history, e) \in Seq(LogEntries)
        BY <2>0
      <4>2. appendLog(op.to, e) \in SurfaceType
        BY <1>2, Appended
      <4> QED BY <4>1, <4>2
    <3>4. RingHolds(appendLog(op.to, e), Append(history, e))
      BY <1>2, <1>3, <2>0, RingKept
    <3>5. Counted(appendLog(op.to, e), Append(history, e))
      <4>1. appendLog(op.to, e).errors = (IF e.level = "error" THEN op.to.errors + 1 ELSE op.to.errors)
        BY <1>2, Appended
      <4>2. appendLog(op.to, e).warnings = (IF e.level = "warn" THEN op.to.warnings + 1 ELSE op.to.warnings)
        BY <1>2, Appended
      <4>3. Cardinality({i \in DOMAIN Append(history, e) : Append(history, e)[i].level = "error"}) =
              LET k == Cardinality({i \in DOMAIN history : history[i].level = "error"})
              IN IF e.level = "error" THEN k + 1 ELSE k
        BY <2>0, CountKept
      <4>4. Cardinality({i \in DOMAIN Append(history, e) : Append(history, e)[i].level = "warn"}) =
              LET k == Cardinality({i \in DOMAIN history : history[i].level = "warn"})
              IN IF e.level = "warn" THEN k + 1 ELSE k
        BY <2>0, CountKept
      <4>5. /\ op.to.errors = Cardinality({i \in DOMAIN history : history[i].level = "error"})
            /\ op.to.warnings = Cardinality({i \in DOMAIN history : history[i].level = "warn"})
        BY <1>3 DEF Counted
      <4> QED BY <4>1, <4>2, <4>3, <4>4, <4>5, Zenon DEF Counted
    <3> QED BY <3>1, <3>2, <3>3, <3>4, <3>5
  <2> QED BY <1>2, <2>1, <2>2
<1>5. /\ published' = published + 1 /\ pub' = [pub EXCEPT ![p].pc = "notify"]
      /\ UNCHANGED <<sub, dash, panicked>>
  BY DEF Publish
<1>6. BusTypeOK'
  <2>1. /\ published' \in Nat
        /\ pub' \in [Publishers -> [pc : {"idle", "notify", "send"}, targets : SUBSET Dashboards]]
    <3> DEFINE q == [pub[p] EXCEPT !.pc = "notify"]
    <3>1. q \in [pc : {"idle", "notify", "send"}, targets : SUBSET Dashboards]
      BY DEF BusInv, BusTypeOK
    <3>2. pub' = [pub EXCEPT ![p] = q]
      BY <1>5
    <3> HIDE DEF q
    <3> QED BY <3>1, <3>2, <1>5 DEF BusInv, BusTypeOK
  <2> QED BY <2>1, <1>4, <1>5 DEF BusInv, BusTypeOK
<1>7. NoMissedChange'
  <2>1. pub'[p].pc = "notify"
    BY <1>5 DEF BusInv, BusTypeOK
  <2> QED BY <2>1 DEF NoMissedChange
<1>8. DashboardsOpen'
  BY <1>5 DEF BusInv, DashboardsOpen
<1>a. Senders'
  <2>1. pub[p].targets = {} /\ pub[p].pc = "idle"
    BY DEF Publish, BusInv, Senders
  <2> QED BY <2>1, <1>5 DEF BusInv, Senders, BusTypeOK
<1>9. RingHolds(surface, history)' /\ Counted(surface, history)'
  BY <1>4
<1> QED BY <1>6, <1>7, <1>8, <1>9, <1>a DEF BusInv

PubType == [pc : {"idle", "notify", "send"}, targets : SUBSET Dashboards]
SubType == [state : {"none", "open", "closed"}, token : BOOLEAN]
DashType == [waiting : BOOLEAN, changed : BOOLEAN, asked : Nat, msgs : SUBSET Nat, shown : Nat, seen : Nat]

(* A step that leaves the surface and its log alone. *)
LEMMA SurfaceKept ==
    ASSUME BusInv, UNCHANGED <<surface, published, history>>,
           pub' \in [Publishers -> PubType], sub' \in [Dashboards -> SubType], dash' \in [Dashboards -> DashType],
           DashboardsOpen', Senders', NoMissedChange'
    PROVE  BusInv'
<1>1. BusTypeOK'
  BY DEF BusInv, BusTypeOK, PubType, SubType, DashType
<1>2. RingHolds(surface, history)' /\ Counted(surface, history)'
  BY DEF BusInv, RingHolds, Counted
<1> QED BY <1>1, <1>2 DEF BusInv

LEMMA BusTyped ==
    ASSUME BusInv
    PROVE  /\ pub \in [Publishers -> PubType] /\ sub \in [Dashboards -> SubType] /\ dash \in [Dashboards -> DashType]
           /\ published \in Nat /\ NoDash \in DashType /\ DashboardsOpen /\ Senders /\ NoMissedChange
  BY DEF BusInv, BusTypeOK, PubType, SubType, DashType, NoDash

LEMMA CopySubsKeeps ==
    ASSUME BusInv, NEW p \in Publishers, CopySubs(p)
    PROVE  BusInv'
<1> DEFINE T == {s \in Dashboards : sub[s].state = "open"}
<1>1. pub' = [pub EXCEPT ![p] = Sending(T)] /\ UNCHANGED <<surface, published, history, sub, dash, panicked>>
  BY DEF CopySubs
<1>2. Sending(T) \in PubType /\ Sending(T).targets = T
  BY DEF Sending, PubType, IdlePub
<1>3. pub' \in [Publishers -> PubType]
  <2> HIDE DEF T
  <2> QED BY <1>1, <1>2, BusTyped
<1>4. NoMissedChange'
  <2>1. pub'[p].targets = T
    BY <1>1, <1>2, BusTyped
  <2> SUFFICES ASSUME NEW s \in Dashboards, sub[s].state = "open" PROVE s \in pub'[p].targets
    BY <1>1, <2>1 DEF NoMissedChange
  <2> QED BY <2>1
<1>5. DashboardsOpen'
  BY <1>1, BusTyped DEF DashboardsOpen
<1>6. Senders'
  <2>1. Sending(T).targets # {} => Sending(T).pc = "send"
    BY DEF Sending, IdlePub
  <2> HIDE DEF T
  <2> QED BY <1>1, <2>1, BusTyped DEF Senders
<1> HIDE DEF T
<1> QED BY <1>1, <1>3, <1>4, <1>5, <1>6, BusTyped, SurfaceKept

LEMMA SendKeeps ==
    ASSUME BusInv, NEW p \in Publishers, Send(p)
    PROVE  BusInv'
<1>1. PICK s \in pub[p].targets :
        /\ pub' = [pub EXCEPT ![p] = Sending(pub[p].targets \ {s})]
        /\ IF sub[s].state = "open"
           THEN sub' = [sub EXCEPT ![s].token = TRUE] /\ UNCHANGED panicked
           ELSE panicked' = TRUE /\ UNCHANGED sub
  BY DEF Send
<1>2. UNCHANGED <<surface, published, history, dash>>
  BY DEF Send
<1>3. pub[p] \in PubType /\ s \in Dashboards
  BY BusTyped DEF PubType
<1>4. Sending(pub[p].targets \ {s}) \in PubType
      /\ Sending(pub[p].targets \ {s}).targets = pub[p].targets \ {s}
  BY <1>3 DEF Sending, PubType, IdlePub
<1>5. pub' \in [Publishers -> PubType]
  BY <1>1, <1>4, BusTyped
<1>6. /\ sub' \in [Dashboards -> SubType]
      /\ \A d \in Dashboards : sub'[d].state = sub[d].state /\ (sub[d].token => sub'[d].token)
      /\ sub[s].state = "open" => sub'[s].token
  BY <1>1, <1>3, BusTyped DEF SubType
<1>7. DashboardsOpen'
  BY <1>2, <1>6, BusTyped DEF DashboardsOpen
<1>8. NoMissedChange'
  <2> SUFFICES ASSUME NEW d \in Dashboards, sub[d].state = "open", dash[d] # NoDash, dash[d].seen < published
               PROVE  \/ sub'[d].token \/ dash[d].changed \/ dash[d].asked > 0
                      \/ \E q \in Publishers : pub'[q].pc = "notify" \/ d \in pub'[q].targets
    BY <1>2, <1>6 DEF NoMissedChange
  <2>1. CASE d = s
    BY <1>6, <2>1
  <2>2. CASE d # s
    <3>1. \/ sub[d].token \/ dash[d].changed \/ dash[d].asked > 0
          \/ \E q \in Publishers : pub[q].pc = "notify" \/ d \in pub[q].targets
      BY BusTyped DEF NoMissedChange
    <3>2. ASSUME NEW q \in Publishers, pub[q].pc = "notify" \/ d \in pub[q].targets
          PROVE  pub'[q].pc = "notify" \/ d \in pub'[q].targets
      <4>1. CASE q # p
        BY <1>1, <3>2, <4>1, BusTyped
      <4>2. CASE q = p /\ d \in pub[p].targets
        BY <1>1, <1>4, <2>2, <4>2, BusTyped
      <4>3. CASE q = p /\ pub[p].pc = "notify"
        BY <4>3, BusTyped DEF Senders
      <4> QED BY <3>2, <4>1, <4>2, <4>3
    <3> QED BY <1>6, <3>1, <3>2
  <2> QED BY <2>1, <2>2
<1>9. Senders'
  <2>1. LET q == Sending(pub[p].targets \ {s}) IN q.targets # {} => q.pc = "send"
    BY DEF Sending, IdlePub
  <2> QED BY <1>1, <2>1, BusTyped DEF Senders
<1> QED BY <1>2, <1>5, <1>6, <1>7, <1>8, <1>9, BusTyped, SurfaceKept

(* The steps of a subscription and its dashboard.  The publishers stay where   *)
(* they are, so what is owed to the other dashboards is owed to them still.    *)
LEMMA DashboardStep ==
    ASSUME BusInv, NEW s \in Dashboards, NEW d \in DashType, NEW c \in SubType,
           UNCHANGED <<surface, published, history, pub>>,
           dash' = [dash EXCEPT ![s] = d], sub' = [sub EXCEPT ![s] = c],
           c.state # "open" => d = NoDash,
           \/ c.state # "open" \/ d = NoDash \/ d.seen = published \/ d.changed \/ d.asked > 0
           \/ d.seen = dash[s].seen /\ d.asked = dash[s].asked /\ d.changed = dash[s].changed
              /\ c = sub[s] /\ dash[s] # NoDash
    PROVE  BusInv'
<1>1. dash' \in [Dashboards -> DashType] /\ sub' \in [Dashboards -> SubType]
      /\ dash'[s] = d /\ sub'[s] = c /\ \A x \in Dashboards : x # s => dash'[x] = dash[x] /\ sub'[x] = sub[x]
  BY BusTyped
<1>2. DashboardsOpen'
  BY <1>1, BusTyped DEF DashboardsOpen
<1>3. Senders'
  BY BusTyped DEF Senders
<1>4. NoMissedChange'
  <2> SUFFICES ASSUME NEW x \in Dashboards, sub'[x].state = "open", dash'[x] # NoDash, dash'[x].seen < published
               PROVE  \/ sub'[x].token \/ dash'[x].changed \/ dash'[x].asked > 0
                      \/ \E q \in Publishers : pub[q].pc = "notify" \/ x \in pub[q].targets
    BY DEF NoMissedChange
  <2>1. CASE x # s
    BY <1>1, <2>1, BusTyped DEF NoMissedChange
  <2>2. CASE x = s /\ (d.seen = published \/ d.changed \/ d.asked > 0)
    <3>1. d.seen \in Nat /\ published \in Nat
      BY BusTyped DEF DashType
    <3> QED BY <1>1, <2>2, <3>1
  <2>3. CASE x = s /\ d.seen = dash[s].seen /\ d.asked = dash[s].asked /\ d.changed = dash[s].changed
             /\ c = sub[s] /\ dash[s] # NoDash
    BY <1>1, <2>3, BusTyped DEF NoMissedChange
  <2> QED BY <1>1, <2>1, <2>2, <2>3
<1> QED BY <1>1, <1>2, <1>3, <1>4, BusTyped, SurfaceKept

LEMMA DashboardKeeps ==
    ASSUME BusInv, NEW s \in Dashboards,
           \/ Subscribe(s) \/ Cancel(s) \/ DashOpen(s) \/ waitForChange(s)
           \/ OnChanged(s) \/ readSnapshot(s) \/ OnSnap(s)
    PROVE  BusInv'
<1> DEFINE o == dash[s]
           b == sub[s]
<1>0. /\ o \in DashType /\ b \in SubType /\ published \in Nat /\ NoDash \in DashType
      /\ dash = [dash EXCEPT ![s] = o] /\ sub = [sub EXCEPT ![s] = b]
      /\ b.state # "open" => o = NoDash
  BY BusTyped DEF DashboardsOpen
<1>n. NoDash.waiting = FALSE /\ NoDash.changed = FALSE /\ NoDash.asked = 0 /\ NoDash.msgs = {}
  BY DEF NoDash
<1>1. CASE Subscribe(s)
  <2> DEFINE c == [b EXCEPT !.state = "open"]
  <2>1. sub' = [sub EXCEPT ![s] = c] /\ UNCHANGED <<surface, published, history, pub, dash>> /\ b.state = "none"
    BY <1>1 DEF Subscribe
  <2>2. c \in SubType /\ c.state = "open"
    BY <1>0 DEF SubType
  <2>3. dash' = [dash EXCEPT ![s] = NoDash]
    BY <1>0, <2>1
  <2> HIDE DEF c
  <2> QED BY <1>0, <2>1, <2>2, <2>3, DashboardStep
<1>2. CASE Cancel(s)
  <2> DEFINE c == [b EXCEPT !.state = "closed"]
  <2>1. sub' = [sub EXCEPT ![s] = c] /\ UNCHANGED <<surface, published, history, pub>>
        /\ dash' = [dash EXCEPT ![s] = NoDash]
    BY <1>2 DEF Cancel
  <2>2. c \in SubType
    BY <1>0 DEF SubType
  <2> HIDE DEF c
  <2> QED BY <1>0, <2>1, <2>2, DashboardStep
<1>3. CASE DashOpen(s)
  <2> DEFINE d == [NoDash EXCEPT !.waiting = TRUE, !.asked = 1, !.shown = published, !.seen = published]
  <2>1. dash' = [dash EXCEPT ![s] = d] /\ UNCHANGED <<surface, published, history, pub, sub>> /\ b.state = "open"
    BY <1>3 DEF DashOpen, Dash
  <2>2. d \in DashType /\ d.seen = published
    BY <1>0 DEF DashType, NoDash
  <2>3. sub' = [sub EXCEPT ![s] = b]
    BY <1>0, <2>1
  <2> HIDE DEF d
  <2> QED BY <1>0, <2>1, <2>2, <2>3, DashboardStep
<1>4. CASE waitForChange(s)
  <2> DEFINE d == [o EXCEPT !.waiting = FALSE, !.changed = TRUE]
             c == [b EXCEPT !.token = FALSE]
  <2>1. /\ dash' = [dash EXCEPT ![s] = d] /\ sub' = [sub EXCEPT ![s] = c] /\ o.waiting
        /\ UNCHANGED <<surface, published, history, pub>>
    BY <1>4 DEF waitForChange, Dash
  <2>2. d \in DashType /\ d.changed /\ c \in SubType /\ c.state = b.state
    BY <1>0 DEF DashType, SubType
  <2>3. b.state = "open"
    BY <1>0, <1>n, <2>1
  <2> HIDE DEF d, c
  <2> QED BY <1>0, <2>1, <2>2, <2>3, DashboardStep
<1>5. CASE OnChanged(s)
  <2> DEFINE k == o.asked + 1
             d == [o EXCEPT !.changed = FALSE, !.waiting = TRUE, !.asked = k]
  <2>0. k \in Nat /\ k > 0
    BY <1>0 DEF DashType
  <2>1. /\ dash' = [dash EXCEPT ![s] = d] /\ UNCHANGED <<surface, published, history, pub, sub>> /\ o.changed
    BY <1>5 DEF OnChanged, Dash
  <2>2. d \in DashType /\ d.asked > 0
    <3> HIDE DEF k, o
    <3> QED BY <1>0, <2>0 DEF DashType
  <2>3. b.state = "open" /\ sub' = [sub EXCEPT ![s] = b]
    BY <1>0, <1>n, <2>1
  <2> HIDE DEF d
  <2> QED BY <1>0, <2>1, <2>2, <2>3, DashboardStep
<1>6. CASE readSnapshot(s)
  <2> DEFINE k == o.asked - 1
             m == o.msgs \cup {published}
             d == [o EXCEPT !.asked = k, !.msgs = m, !.seen = published]
  <2>0. o.asked > 0
    BY <1>6 DEF readSnapshot
  <2>a. k \in Nat
    BY <1>0, <2>0 DEF DashType
  <2>b. m \in SUBSET Nat
    BY <1>0 DEF DashType
  <2>1. /\ dash' = [dash EXCEPT ![s] = d] /\ UNCHANGED <<surface, published, history, pub, sub>> /\ o.asked > 0
    BY <1>6 DEF readSnapshot, Dash
  <2>2. d \in DashType /\ d.seen = published
    <3> HIDE DEF k, m, o
    <3> QED BY <1>0, <2>a, <2>b DEF DashType
  <2>3. b.state = "open" /\ sub' = [sub EXCEPT ![s] = b]
    BY <1>0, <1>n, <2>1
  <2> HIDE DEF d
  <2> QED BY <1>0, <2>1, <2>2, <2>3, DashboardStep
<1>7. CASE OnSnap(s)
  <2>1. PICK v \in o.msgs : Dash(s, [o EXCEPT !.msgs = @ \ {v}, !.shown = v])
    BY <1>7 DEF OnSnap
  <2> DEFINE d == [o EXCEPT !.msgs = @ \ {v}, !.shown = v]
  <2>2. dash' = [dash EXCEPT ![s] = d] /\ UNCHANGED <<surface, published, history, pub, sub>>
    BY <1>7, <2>1 DEF OnSnap, Dash
  <2>3. d \in DashType /\ d.seen = o.seen /\ d.asked = o.asked /\ d.changed = o.changed
    BY <1>0 DEF DashType
  <2>4. o # NoDash
    BY <1>n
  <2>5. b.state = "open" /\ sub' = [sub EXCEPT ![s] = b]
    BY <1>0, <2>2, <2>4
  <2> HIDE DEF d
  <2> QED BY <1>0, <2>2, <2>3, <2>4, <2>5, DashboardStep
<1> QED BY <1>1, <1>2, <1>3, <1>4, <1>5, <1>6, <1>7

LEMMA BusKeeps == BusInv /\ [BusNext]_busVars => BusInv'
<1> SUFFICES ASSUME BusInv, [BusNext]_busVars PROVE BusInv'
  OBVIOUS
<1>1. CASE UNCHANGED busVars
  <2>1. UNCHANGED <<surface, published, history, pub, sub, dash>>
    BY <1>1 DEF busVars
  <2> QED BY <2>1, BusTyped, SurfaceKept DEF DashboardsOpen, Senders, NoMissedChange
<1>2. CASE BusNext
  BY <1>2, PublishKeeps, CopySubsKeeps, SendKeeps, DashboardKeeps DEF BusNext
<1> QED BY <1>1, <1>2

(* The reading of the ring, from the oldest entry held. *)
LEMMA LogRead == BusInv => SnapshotLogIsSuffix
<1> SUFFICES ASSUME BusInv PROVE SnapshotLogIsSuffix
  OBVIOUS
<1> DEFINE n == Len(history)
           held == IF n < LogCap THEN n ELSE LogCap
           L == surface.logNext
           start == (L - surface.logLen + LogCap) % LogCap
<1>1. LogCap \in Nat /\ LogCap > 0 /\ n \in Nat
  BY BusAssumption DEF BusInv, BusTypeOK
<1>2. L \in 0 .. LogCap - 1 /\ history \in Seq(LogEntries)
  BY DEF BusInv, BusTypeOK, SurfaceType
<1>3. /\ n < LogCap => L = n /\ surface.logLen = n /\ \A j \in 1 .. n : surface.ring[j - 1] = history[j]
      /\ n >= LogCap => surface.logLen = LogCap
                        /\ \A i \in 1 .. LogCap : surface.ring[Slot(L, i)] = history[n - LogCap + i]
  BY DEF BusInv, RingHolds
<1>4. surface.logLen = held /\ held \in Nat
  BY <1>1, <1>3
<1>5. SnapLog(surface) = [i \in 1 .. held |-> surface.ring[(start + i - 1) % LogCap]]
  BY <1>4 DEF SnapLog
<1>6. SubSeq(history, n - held + 1, n) = [i \in 1 .. held |-> history[n - held + i]]
  <2> DEFINE m == n - held + 1
             t == SubSeq(history, m, n)
  <2>1. m \in Int /\ m >= 1 /\ n - m + 1 = held
    BY <1>1, <1>4
  <2>2. \A i \in m .. n : history[i] \in LogEntries
    BY <1>1, <1>2, <2>1
  <2> HIDE DEF m
  <2>3. /\ t \in Seq(LogEntries) /\ Len(t) = (IF m <= n THEN n - m + 1 ELSE 0)
        /\ \A i \in 1 .. n - m + 1 : t[i] = history[m + i - 1]
    BY <1>1, <2>1, <2>2, SubSeqProperties
  <2> HIDE DEF t, n, held
  <2>4. Len(t) = held
    BY <1>1, <1>4, <2>1, <2>3
  <2>5. \A i \in 1 .. held : t[i] = history[n - held + i]
    <3>1. \A i \in 1 .. held : m + i - 1 = n - held + i
      BY <1>1, <1>4 DEF m
    <3> QED BY <2>1, <2>3, <3>1
  <2>6. t = [i \in 1 .. held |-> t[i]]
    BY <2>3, <2>4
  <2>7. t = [i \in 1 .. held |-> history[n - held + i]]
    BY <2>5, <2>6
  <2> QED BY <2>7 DEF t, m
<1>7. ASSUME NEW i \in 1 .. held PROVE surface.ring[(start + i - 1) % LogCap] = history[n - held + i]
  <2>1. CASE n < LogCap
    <3>1. L - surface.logLen + LogCap = LogCap
      BY <1>1, <1>3, <2>1
    <3>2. start = 0
      BY <3>1, <1>1, Around
    <3>3. (start + i - 1) % LogCap = i - 1
      <4>1. start + i - 1 = i - 1 /\ i - 1 \in Nat /\ i - 1 < LogCap
        BY <3>2, <1>1, <1>4, <2>1
      <4> HIDE DEF start
      <4> QED BY <4>1, <1>1, Around
    <3> HIDE DEF start
    <3> QED BY <1>1, <1>3, <2>1, <3>3
  <2>2. CASE n >= LogCap
    <3>1. L - surface.logLen + LogCap = L /\ L \in Nat /\ L < LogCap + LogCap /\ L < LogCap
      BY <1>1, <1>2, <1>3, <2>2
    <3>2. start = L
      BY <3>1, Around
    <3>3. (start + i - 1) % LogCap = Slot(L, i)
      <4>1. start + i - 1 = L + i - 1
        BY <3>2
      <4>2. i \in 1 .. LogCap
        BY <1>1, <2>2
      <4> HIDE DEF start, L
      <4>3. L + i - 1 \in Nat /\ L + i - 1 < LogCap + LogCap
        BY <3>1, <4>2, <1>1
      <4>4. (L + i - 1) % LogCap = IF L + i - 1 < LogCap THEN L + i - 1 ELSE L + i - 1 - LogCap
        <5>1. PICK x \in Nat : x = L + i - 1
          BY <4>3
        <5>2. x % LogCap = IF x < LogCap THEN x ELSE x - LogCap
          BY <4>3, <5>1, Around
        <5> QED BY <1>1, <3>1, <4>2, <5>1, <5>2
      <4> QED BY <4>1, <4>4 DEF Slot
    <3>4. held = LogCap
      BY <1>1, <2>2
    <3>5. i \in 1 .. LogCap /\ surface.ring[Slot(L, i)] = history[n - LogCap + i]
      BY <1>1, <1>3, <2>2, <3>4
    <3> HIDE DEF start, L, n, held
    <3>6. surface.ring[(start + i - 1) % LogCap] = surface.ring[Slot(L, i)]
      BY <3>3
    <3>7. history[n - held + i] = history[n - LogCap + i]
      BY <3>4
    <3> QED BY <3>5, <3>6, <3>7
  <2> HIDE DEF start, L, n, held
  <2> QED BY <1>1, <2>1, <2>2
<1>8. SnapLog(surface) = SubSeq(history, n - held + 1, n)
  <2> HIDE DEF start, n, held
  <2> QED BY <1>5, <1>6, <1>7
<1> QED BY <1>8 DEF SnapshotLogIsSuffix, BusInv, Counted

(* For every capacity of the log ring, number of publishers and of dashboards:  *)
(* a snapshot's log is the newest entries in order, the counters count every     *)
(* entry, and no open dashboard misses a change (appendLog, Snapshot, notify).   *)
THEOREM BusIsConsistent == BusSpec => []BusConsistent
<1>1. BusInv => BusConsistent
  BY LogRead DEF BusInv, BusConsistent
<1> QED BY <1>1, BusStarts, BusKeeps, PTL DEF BusSpec

-----------------------------------------------------------------------------
(* The agent gateway *)

(* A call says nothing before it is answered, and then only what it knows. *)
Settled(c) == AnswerSound(c) /\ (c.pc # "answered" => c.answer = NoText)

LEMMA NoTextFacts == NoText # "none" /\ NoText # "hits" /\ NoText # "unknownRepo" /\ NoText # "repo_busy"
  BY Zenon DEF NoText

LEMMA NoToolFields ==
    /\ NoTool \in ToolType /\ NoTool.pc = "idle" /\ NoTool.since = 0 /\ NoTool.answer = NoText
    /\ NoTool.second = FALSE /\ NoTool.arrived = FALSE
  BY DEF NoTool, ToolType, Wordings

LEMMA AnswerFields ==
    ASSUME NEW c \in ToolType, NEW text \in Wordings
    PROVE  LET n == Answer(c, text) IN
           /\ n \in ToolType /\ n.pc = "answered" /\ n.answer = text /\ n.since = c.since /\ n.listed = c.listed
           /\ n.whole = c.whole /\ n.running = c.running
  BY NoToolFields DEF Answer, ToolType

(* What the server's state is when a request reaches it goes with the call. *)
LEMMA ArrivesFields ==
    ASSUME GatewayInv, NEW c \in ToolType
    PROVE  LET n == Arrives(c) IN
           /\ n \in ToolType /\ n.pc = c.pc /\ n.op = c.op /\ n.want = c.want /\ n.second = c.second
           /\ n.since = c.since /\ n.listed = c.listed /\ n.scope = c.scope /\ n.attempt = c.attempt
           /\ n.answer = c.answer /\ n.arrived = TRUE
           /\ estate.health = "whole" => n.whole
           /\ ~c.arrived => n.running = estate.pass
<1>1. PICK q \in BOOLEAN : q = (estate.health = "whole")
  BY Zenon
<1>2. PICK r \in BOOLEAN : r = IF c.arrived THEN c.running ELSE estate.pass
  BY DEF ToolType, GatewayInv, GatewayTypeOK
<1>3. Arrives(c) = [c EXCEPT !.whole = q, !.arrived = TRUE, !.running = r]
  BY <1>1, <1>2 DEF Arrives
<1>4. q = TRUE <=> estate.health = "whole"
  BY <1>1
<1>5. ~c.arrived => r = estate.pass
  BY <1>2
<1> QED BY <1>3, <1>4, <1>5 DEF ToolType

LEMMA SendNextFields ==
    ASSUME NEW c \in ToolType
    PROVE  LET n == SendNext(c) IN
           /\ n \in ToolType /\ n.pc \in {"starting", "searching"} /\ n.since = c.since /\ n.answer = c.answer
           /\ n.arrived = FALSE /\ n.listed = c.listed /\ n.whole = c.whole /\ n.running = c.running
  BY DEF SendNext, ToolType, Requesting

(* A call of one asker moves; the others keep what they know. *)
NamesStep ==
    /\ names' \in [repos : SUBSET GatewayRepos, fetched : Nat, filled : BOOLEAN]
    /\ names' = names \/ names'.filled = FALSE \/ names'.fetched = clock

LEMMA KnowledgeKept ==
    ASSUME GatewayInv, NamesStep, clock' \in Nat, clock' >= clock, NEW c \in ToolType, CallSound(c)
    PROVE  /\ c.since <= clock'
           /\ c.pc = "naming" /\ c.second /\ names'.filled => names'.fetched >= c.since
           /\ c.pc = "starting" => ~c.arrived
           /\ c.pc # "answered" => c.answer = NoText
<1>1. c.since \in Nat /\ clock \in Nat /\ c.since <= clock
  BY DEF ToolType, CallSound, GatewayInv, GatewayTypeOK
<1> QED BY <1>1 DEF NamesStep, CallSound

LEMMA ToolMoves ==
    ASSUME GatewayInv, NEW a \in Askers, NEW n \in ToolType, Goes(a, n), UNCHANGED clock, NamesStep,
           estate' \in [repos : SUBSET GatewayRepos, health : Healths, pass : BOOLEAN],
           spentOn' \in [asks : Nat, changes : Nat, losses : Nat],
           n.since <= clock, n.pc = "naming" /\ n.second /\ names'.filled => names'.fetched >= n.since,
           n.pc = "starting" => ~n.arrived, Settled(n)
    PROVE  GatewayInv'
<1>1. asking' \in [Askers -> ToolType] /\ asking'[a] = n /\ \A b \in Askers : b # a => asking'[b] = asking[b]
  BY DEF Goes, GatewayInv, GatewayTypeOK
<1>2. GatewayTypeOK'
  BY <1>1 DEF GatewayInv, GatewayTypeOK, NamesStep
<1>3. clock \in Nat /\ clock' = clock
  BY DEF GatewayInv, GatewayTypeOK
<1>4. ASSUME NEW b \in Askers PROVE (CallSound(asking[b]) /\ AnswerSound(asking[b]))'
  <2>1. CASE b = a
    BY <1>1, <1>3, <2>1 DEF CallSound, AnswerSound, Settled
  <2>2. CASE b # a
    <3>1. asking'[b] = asking[b] /\ asking[b] \in ToolType /\ CallSound(asking[b]) /\ AnswerSound(asking[b])
      BY <1>1, <2>2 DEF GatewayInv, GatewayTypeOK
    <3>2. /\ asking[b].since <= clock'
          /\ asking[b].pc = "naming" /\ asking[b].second /\ names'.filled => names'.fetched >= asking[b].since
          /\ asking[b].pc = "starting" => ~asking[b].arrived
          /\ asking[b].pc # "answered" => asking[b].answer = NoText
      BY <1>3, <3>1, KnowledgeKept
    <3> QED BY <3>1, <3>2 DEF CallSound, AnswerSound
  <2> QED BY <2>1, <2>2
<1> QED BY <1>2, <1>4 DEF GatewayInv

LEMMA GatewayFacts ==
    ASSUME GatewayInv
    PROVE  /\ estate \in [repos : SUBSET GatewayRepos, health : Healths, pass : BOOLEAN]
           /\ spentOn \in [asks : Nat, changes : Nat, losses : Nat] /\ clock \in Nat
           /\ names \in [repos : SUBSET GatewayRepos, fetched : Nat, filled : BOOLEAN]
           /\ \A a \in Askers : asking[a] \in ToolType /\ CallSound(asking[a]) /\ AnswerSound(asking[a])
  BY DEF GatewayInv, GatewayTypeOK

LEMMA NamesKept == GatewayInv /\ UNCHANGED names => NamesStep
  BY DEF GatewayInv, GatewayTypeOK, NamesStep

(* A call that is under way has said nothing yet. *)
LEMMA SilentUntilAnswered ==
    ASSUME GatewayInv, NEW a \in Askers, asking[a].pc # "answered"
    PROVE  asking[a].answer = NoText
  BY GatewayFacts DEF CallSound

-----------------------------------------------------------------------------
(* What a listing makes of a name: the next request, or an answer that says no    *)
(* more than the listing does.                                                    *)
LEMMA MatchFields ==
    ASSUME NEW list \in SUBSET GatewayRepos, NEW want \in Wants \cup {Nobody}
    PROVE  LET m == matchRepo(list, want) IN
           m.found \in {"one", "unknown", "several"} /\ (m.found = "one" => m.id \in GatewayRepos)
  BY DEF matchRepo

LEMMA ResolvedFields ==
    ASSUME NEW c \in ToolType, NEW list \in SUBSET GatewayRepos, NEW at \in Nat,
           AnswerSound(c), c.answer = NoText, c.second => at >= c.since
    PROVE  LET n == NameResolved(c, list, at) IN
           /\ n \in ToolType /\ n.since = c.since /\ n.pc # "naming" /\ Settled(n)
           /\ n.pc = "starting" => ~n.arrived
<1> DEFINE aged == [c EXCEPT !.listed = at]
           m == matchRepo(list, c.want)
           n == NameResolved(c, list, at)
<1>1. /\ aged \in ToolType /\ aged.since = c.since /\ aged.listed = at /\ aged.answer = NoText
      /\ aged.second = c.second
  BY DEF ToolType
<1>2. m.found \in {"one", "unknown", "several"} /\ (m.found = "one" => m.id \in GatewayRepos)
  BY MatchFields DEF ToolType
<1> HIDE DEF aged
<1>3. CASE m.found = "one"
  <2> DEFINE id == m.id
             scoped == [aged EXCEPT !.scope = id]
  <2>1. n = SendNext(scoped)
    BY <1>3 DEF NameResolved, aged
  <2>2. id \in GatewayRepos
    BY <1>2, <1>3
  <2> HIDE DEF id
  <2>3. scoped \in ToolType /\ scoped.since = c.since /\ scoped.answer = NoText
    BY <1>1, <2>2 DEF ToolType
  <2> HIDE DEF scoped, n
  <2>4. /\ n \in ToolType /\ n.pc \in {"starting", "searching"} /\ n.since = c.since /\ n.answer = NoText
        /\ n.arrived = FALSE
    BY <2>1, <2>3, SendNextFields
  <2>5. Settled(n)
    BY <2>4, NoTextFacts DEF AnswerSound, Settled
  <2>6. n \in ToolType /\ n.since = c.since /\ n.pc # "naming" /\ Settled(n) /\ (n.pc = "starting" => ~n.arrived)
    BY <2>4, <2>5
  <2> QED BY <2>6 DEF n
<1>4. ASSUME NEW text \in {"unknownRepo", "severalRepos"}, text = "unknownRepo" => at >= c.since
      PROVE  LET r == Answer(aged, text) IN
             r \in ToolType /\ r.since = c.since /\ r.pc # "naming" /\ Settled(r) /\ (r.pc = "starting" => ~r.arrived)
  <2> DEFINE r == Answer(aged, text)
  <2>0. text \in Wordings
    BY <1>4 DEF Wordings
  <2>1. r \in ToolType /\ r.pc = "answered" /\ r.answer = text /\ r.since = c.since /\ r.listed = at
    BY <1>1, <2>0, AnswerFields
  <2> HIDE DEF r
  <2>2. r \in ToolType /\ r.since = c.since /\ r.pc # "naming" /\ Settled(r) /\ (r.pc = "starting" => ~r.arrived)
    BY <1>4, <2>1 DEF AnswerSound, Settled
  <2> QED BY <2>2 DEF r
<1>5. CASE m.found = "several"
  <2>1. n = Answer(aged, "severalRepos")
    BY <1>5 DEF NameResolved, aged
  <2> HIDE DEF n, m
  <2>2. n \in ToolType /\ n.since = c.since /\ n.pc # "naming" /\ Settled(n) /\ (n.pc = "starting" => ~n.arrived)
    BY <1>4, <2>1
  <2> QED BY <2>2 DEF n
<1>6. CASE m.found = "unknown"
  <2>1. n = unknownName(aged)
    BY <1>6 DEF NameResolved, aged
  <2> HIDE DEF n, m
  <2>2. CASE c.second
    <3>1. n = Answer(aged, "unknownRepo")
      BY <1>1, <2>1, <2>2 DEF unknownName
    <3>2. n \in ToolType /\ n.since = c.since /\ n.pc # "naming" /\ Settled(n) /\ (n.pc = "starting" => ~n.arrived)
      BY <1>4, <2>2, <3>1
    <3> QED BY <3>2 DEF n
  <2>3. CASE ~c.second
    <3>1. n = [aged EXCEPT !.pc = "invalidating", !.second = TRUE]
      BY <1>1, <2>1, <2>3 DEF unknownName
    <3>2. n \in ToolType /\ n.since = c.since /\ n.pc = "invalidating" /\ n.answer = NoText
      BY <1>1, <3>1 DEF ToolType
    <3>3. Settled(n)
      BY <3>2, NoTextFacts DEF AnswerSound, Settled
    <3>4. n \in ToolType /\ n.since = c.since /\ n.pc # "naming" /\ Settled(n) /\ (n.pc = "starting" => ~n.arrived)
      BY <3>2, <3>3
    <3> QED BY <3>4 DEF n
  <2> QED BY <2>2, <2>3
<1> QED BY <1>2, <1>3, <1>5, <1>6

-----------------------------------------------------------------------------
(* What the server says: absence without a caveat from whole indexes only, and    *)
(* busy only when a pass is running.                                              *)
Says(c, code) ==
    /\ code \in Wordings /\ code # "unknownRepo"
    /\ code \in {"none", "hits"} => c.pc # "starting" /\ (estate.health = "whole" \/ (c.op = "context" /\ c.pc = "searching"))
    /\ code = "repo_busy" => c.pc = "starting" /\ estate.pass

LEMMA HandledSays ==
    ASSUME GatewayInv, NEW c \in ToolType, c.pc \in {"searching", "probing", "starting"}, NEW thin \in BOOLEAN,
           NEW replaced \in BOOLEAN
    PROVE  Says(c, toAPIError(Handled(c, thin), replaced))
<1> DEFINE reply == Handled(c, thin)
           found == HandleSearch(c, thin)
<1>1. estate.health \in Healths
  BY GatewayFacts
<1>2. /\ found.status \in {200, 503} /\ found.code \in {"index_damaged", "noneDegraded", "hitsDegraded", "none", "hits"}
      /\ found.code \in {"none", "hits"} => estate.health = "whole"
  BY <1>1 DEF HandleSearch, writeError, Ok, Healths
<1>3. CASE c.pc = "starting"
  <2>1. reply = HandleIndex(c)
    BY <1>3 DEF Handled
  <2>2. /\ reply.status \in {200, 404, 409} /\ reply.code \in {"not_found", "repo_busy", "indexing"}
        /\ reply.code = "repo_busy" => estate.pass
    BY <2>1 DEF HandleIndex, writeError, Ok
  <2> HIDE DEF reply
  <2> DEFINE code == toAPIError(reply, replaced)
  <2>4. code = reply.code \/ code \in {"not_found", NoText}
    BY <2>2 DEF toAPIError, codeForStatus
  <2> HIDE DEF code
  <2>3. Says(c, code)
    BY <1>3, <2>2, <2>4, NoTextFacts DEF Says, Wordings
  <2> QED BY <2>3 DEF reply, code
<1>4. CASE c.pc # "starting"
  <2>2. CASE c.pc = "searching" /\ c.op = "context"
    <3>0. reply = HandleContext(c, thin)
      BY <2>2 DEF Handled
    <3>1. /\ reply.status \in {200, 503}
          /\ reply.code \in {"index_damaged", "none", "hits"}
      BY <1>2, <3>0 DEF HandleContext, Ok
    <3> HIDE DEF reply
    <3>2. Says(c, toAPIError(reply, replaced))
      BY <2>2, <3>1, NoTextFacts DEF Says, toAPIError, codeForStatus, Wordings
    <3> QED BY <3>2 DEF reply
  <2>3. CASE ~(c.pc = "searching" /\ c.op = "context")
    <3>1. reply = found
      BY <1>4, <2>3 DEF Handled
    <3> HIDE DEF found, reply
    <3>2. Says(c, toAPIError(reply, replaced))
      BY <1>2, <1>4, <3>1, NoTextFacts DEF Says, toAPIError, codeForStatus, Wordings
    <3> QED BY <3>2 DEF reply
  <2> QED BY <2>2, <2>3
<1> QED BY <1>3, <1>4

(* What a tool makes of it. *)
LEMMA ConcludedFields ==
    ASSUME NEW c \in ToolType, c.pc \in {"searching", "probing", "starting"}, NEW code, Says(c, code),
           AnswerSound(c), c.answer = NoText, estate.health = "whole" => c.whole,
           c.pc = "starting" => c.running = estate.pass
    PROVE  LET n == Concluded(c, code) IN
           n \in ToolType /\ n.since = c.since /\ n.pc \notin {"naming", "starting"} /\ Settled(n)
<1> DEFINE n == Concluded(c, code)
<1>0. code \in Wordings
  BY DEF Says
<1>1. ASSUME NEW text \in Wordings, text # "unknownRepo", text = "none" => c.whole, text = "repo_busy" => c.running
      PROVE  LET r == Answer(c, text) IN
             r \in ToolType /\ r.since = c.since /\ r.pc \notin {"naming", "starting"} /\ Settled(r)
  <2> DEFINE r == Answer(c, text)
  <2>1. /\ r \in ToolType /\ r.pc = "answered" /\ r.answer = text /\ r.since = c.since /\ r.whole = c.whole
        /\ r.running = c.running
    BY AnswerFields
  <2> HIDE DEF r
  <2>2. r \in ToolType /\ r.since = c.since /\ r.pc \notin {"naming", "starting"} /\ Settled(r)
    BY <1>1, <2>1 DEF AnswerSound, Settled
  <2> QED BY <2>2 DEF r
<1>2. CASE c.pc = "searching" /\ c.op = "context" /\ code = "none"
  <2>1. n = [c EXCEPT !.pc = "probing", !.attempt = 0]
    BY <1>2 DEF Concluded, probeRetrieval
  <2> HIDE DEF n
  <2>2. n \in ToolType /\ n.since = c.since /\ n.pc = "probing" /\ n.answer = NoText
    BY <2>1 DEF ToolType, Requesting
  <2>3. Settled(n)
    BY <2>2, NoTextFacts DEF AnswerSound, Settled
  <2>4. n \in ToolType /\ n.since = c.since /\ n.pc \notin {"naming", "starting"} /\ Settled(n)
    BY <2>2, <2>3
  <2> QED BY <2>4 DEF n
<1>3. CASE c.pc = "probing"
  <2> DEFINE text == IF code \in {"none", "hits"} THEN "none" ELSE "noneDegraded"
  <2>1. n = Answer(c, text)
    BY <1>3 DEF Concluded
  <2>2. text \in Wordings /\ text # "unknownRepo" /\ text # "repo_busy" /\ (text = "none" => c.whole)
    BY <1>3 DEF Says, Wordings
  <2> HIDE DEF n, text
  <2>3. n \in ToolType /\ n.since = c.since /\ n.pc \notin {"naming", "starting"} /\ Settled(n)
    BY <1>1, <2>1, <2>2
  <2> QED BY <2>3 DEF n
<1>4. CASE c.pc # "probing" /\ ~(c.pc = "searching" /\ c.op = "context" /\ code = "none")
  <2>1. n = Answer(c, code)
    BY <1>4 DEF Concluded, probeRetrieval
  <2>2. code # "unknownRepo" /\ (code = "none" => c.whole) /\ (code = "repo_busy" => c.running)
    BY <1>4 DEF Says
  <2> HIDE DEF n
  <2>3. n \in ToolType /\ n.since = c.since /\ n.pc \notin {"naming", "starting"} /\ Settled(n)
    BY <1>0, <1>1, <2>1, <2>2
  <2> QED BY <2>3 DEF n
<1> QED BY <1>2, <1>3, <1>4

-----------------------------------------------------------------------------
LEMMA AskKeeps ==
    ASSUME GatewayInv, NEW a \in Askers, NEW op \in {"search", "context", "index"},
           NEW want \in Wants \cup {Nobody}, Ask(a, op, want)
    PROVE  GatewayInv'
<1> DEFINE c == [NoTool EXCEPT !.op = op, !.want = want, !.since = clock]
           n == IF want = Nobody THEN SendNext(c) ELSE [c EXCEPT !.pc = "naming"]
<1>1. Goes(a, n) /\ UNCHANGED <<estate, names, clock>>
  BY DEF Ask
<1>2. spentOn' \in [asks : Nat, changes : Nat, losses : Nat]
  BY GatewayFacts DEF Ask
<1>3. c \in ToolType /\ c.since = clock /\ c.answer = NoText /\ c.second = FALSE /\ c.arrived = FALSE
  BY NoToolFields, GatewayFacts DEF ToolType
<1> HIDE DEF c
<1>4. n \in ToolType /\ n.since = clock /\ n.answer = NoText /\ (n.pc = "naming" => ~n.second)
      /\ n.arrived = FALSE
  <2>1. CASE want = Nobody
    <3>1. n = SendNext(c)
      BY <2>1
    <3> QED BY <1>3, <3>1, SendNextFields
  <2>2. CASE want # Nobody
    <3>1. n = [c EXCEPT !.pc = "naming"]
      BY <2>2
    <3> QED BY <1>3, <3>1 DEF ToolType
  <2> QED BY <2>1, <2>2
<1> HIDE DEF n
<1>5. Settled(n)
  BY <1>4, NoTextFacts DEF AnswerSound, Settled
<1>6. NamesStep /\ n.since <= clock
  BY <1>1, <1>4, NamesKept, GatewayFacts
<1>7. estate' \in [repos : SUBSET GatewayRepos, health : Healths, pass : BOOLEAN]
  BY <1>1, GatewayFacts
<1> QED BY <1>1, <1>2, <1>4, <1>5, <1>6, <1>7, ToolMoves

(* A call that is not answered yet says nothing. *)
LEMMA NamingKeeps ==
    ASSUME GatewayInv, NEW a \in Askers, NameFromCache(a) \/ StartListing(a) \/ invalidate(a) \/ Read(a)
    PROVE  GatewayInv'
<1> DEFINE c == asking[a]
<1>1. /\ c \in ToolType /\ CallSound(c) /\ AnswerSound(c) /\ c.since <= clock /\ c.since \in Nat
      /\ names \in [repos : SUBSET GatewayRepos, fetched : Nat, filled : BOOLEAN]
      /\ clock \in Nat
  BY GatewayFacts DEF CallSound, ToolType
<1>2. /\ UNCHANGED <<estate, clock, spentOn>>
      /\ estate' \in [repos : SUBSET GatewayRepos, health : Healths, pass : BOOLEAN]
      /\ spentOn' \in [asks : Nat, changes : Nat, losses : Nat]
  BY GatewayFacts DEF NameFromCache, StartListing, invalidate, Read
<1>3. CASE NameFromCache(a)
  <2> DEFINE n == NameResolved(c, names.repos, names.fetched)
  <2>1. Goes(a, n) /\ c.pc = "naming" /\ names.filled /\ UNCHANGED names
    BY <1>3 DEF NameFromCache, Fresh
  <2>2. c.second => names.fetched >= c.since
    BY <1>1, <2>1 DEF CallSound
  <2>3. names.repos \in SUBSET GatewayRepos /\ names.fetched \in Nat
    BY <1>1
  <2>4. /\ n \in ToolType /\ n.since = c.since /\ n.pc # "naming" /\ Settled(n)
        /\ n.pc = "starting" => ~n.arrived
    BY <1>1, <2>2, <2>3, ResolvedFields, SilentUntilAnswered, <2>1
  <2> HIDE DEF n
  <2> QED BY <1>1, <1>2, <2>1, <2>4, NamesKept, ToolMoves
<1>4. CASE StartListing(a)
  <2> DEFINE n == [c EXCEPT !.pc = "listing"]
  <2>0. c.answer = NoText
    BY <1>4, SilentUntilAnswered DEF StartListing
  <2>1. Goes(a, n) /\ UNCHANGED names
    BY <1>4 DEF StartListing
  <2>2. n \in ToolType /\ n.since = c.since /\ n.pc = "listing" /\ Settled(n)
    BY <1>1, <2>0 DEF ToolType, Requesting, AnswerSound, Settled
  <2> HIDE DEF n
  <2> QED BY <1>1, <1>2, <2>1, <2>2, NamesKept, ToolMoves
<1>5. CASE invalidate(a)
  <2> DEFINE n == [c EXCEPT !.pc = "naming"]
  <2>0. c.answer = NoText
    BY <1>5, SilentUntilAnswered DEF invalidate
  <2>1. Goes(a, n) /\ names' = [names EXCEPT !.filled = FALSE]
    BY <1>5 DEF invalidate
  <2>2. n \in ToolType /\ n.since = c.since /\ n.pc = "naming" /\ Settled(n)
    BY <1>1, <2>0 DEF ToolType, AnswerSound, Settled
  <2>3. NamesStep /\ names'.filled = FALSE
    BY <1>1, <2>1 DEF NamesStep
  <2> HIDE DEF n
  <2> QED BY <1>1, <1>2, <2>1, <2>2, <2>3, ToolMoves
<1>6. CASE Read(a)
  <2>1. Goes(a, NoTool) /\ UNCHANGED names
    BY <1>6 DEF Read
  <2>2. Settled(NoTool)
    BY NoToolFields, NoTextFacts DEF AnswerSound, Settled
  <2>3. NoTool.since <= clock
    BY <1>1, NoToolFields
  <2> QED BY <1>1, <1>2, <2>1, <2>2, <2>3, NoToolFields, NamesKept, ToolMoves
<1> QED BY <1>3, <1>4, <1>5, <1>6

LEMMA ServedTyped ==
    ASSUME GatewayInv, NEW c, estate' \in {estate, ServedEstate(c)}
    PROVE  estate' \in [repos : SUBSET GatewayRepos, health : Healths, pass : BOOLEAN]
<1>1. estate \in [repos : SUBSET GatewayRepos, health : Healths, pass : BOOLEAN]
  BY GatewayFacts
<1>2. estate' = estate \/ estate' = [estate EXCEPT !.pass = TRUE]
  BY DEF ServedEstate
<1> QED BY <1>1, <1>2

(* The call repeats its request. *)
LEMMA RetryFields ==
    ASSUME NEW c \in ToolType, c.answer = NoText, c.pc \in Requesting, c.attempt < extraTries(c)
    PROVE  LET n == [c EXCEPT !.attempt = @ + 1] IN
           n \in ToolType /\ n.since = c.since /\ n.pc \notin {"naming", "starting"} /\ Settled(n)
<1> DEFINE n == [c EXCEPT !.attempt = @ + 1]
<1>1. c.pc # "starting" /\ c.pc # "naming"
  BY DEF extraTries, Requesting, ToolType
<1>2. n \in ToolType /\ n.since = c.since /\ n.pc = c.pc /\ n.answer = c.answer /\ n.whole = c.whole
      /\ n.listed = c.listed /\ n.running = c.running
  BY DEF ToolType
<1> HIDE DEF n
<1>3. n \in ToolType /\ n.since = c.since /\ n.pc \notin {"naming", "starting"} /\ Settled(n)
  BY <1>1, <1>2, NoTextFacts DEF AnswerSound, Settled
<1> QED BY <1>3 DEF n

LEMMA RepliedKeeps ==
    ASSUME GatewayInv, NEW a \in Askers, NEW thin \in BOOLEAN, NEW replaced \in BOOLEAN, Replied(a, thin, replaced)
    PROVE  GatewayInv'
<1> DEFINE b == asking[a]
           c == Arrives(b)
           reply == Handled(c, thin)
           code == toAPIError(reply, replaced)
<1>1. /\ b \in ToolType /\ CallSound(b) /\ AnswerSound(b) /\ b.since <= clock /\ b.since \in Nat
      /\ clock \in Nat /\ estate.repos \in SUBSET GatewayRepos
  BY GatewayFacts DEF CallSound, ToolType
<1>2. /\ b.pc \in Requesting /\ estate' = ServedEstate(c) /\ UNCHANGED <<clock, spentOn>>
  BY DEF Replied
<1>3. b.answer = NoText
  BY <1>2, SilentUntilAnswered DEF Requesting
<1>4. /\ c \in ToolType /\ c.pc = b.pc /\ c.op = b.op /\ c.second = b.second /\ c.since = b.since
      /\ c.answer = NoText /\ (estate.health = "whole" => c.whole) /\ (~b.arrived => c.running = estate.pass)
  BY <1>1, <1>3, ArrivesFields
<1>5. AnswerSound(c)
  BY <1>4, NoTextFacts DEF AnswerSound
<1>6. /\ estate' \in [repos : SUBSET GatewayRepos, health : Healths, pass : BOOLEAN]
      /\ spentOn' \in [asks : Nat, changes : Nat, losses : Nat]
  BY <1>2, ServedTyped, GatewayFacts
<1>7. c.pc = "starting" => c.running = estate.pass
  BY <1>1, <1>4 DEF CallSound
<1>8. \/ c.attempt < extraTries(c) /\ Goes(a, [c EXCEPT !.attempt = @ + 1]) /\ UNCHANGED names
      \/ /\ c.pc = "listing" /\ names' = [repos |-> estate.repos, fetched |-> clock, filled |-> TRUE]
         /\ Goes(a, NameResolved(c, estate.repos, clock))
      \/ c.pc # "listing" /\ Goes(a, Concluded(c, code)) /\ UNCHANGED names
  BY DEF Replied
<1> HIDE DEF c
<1>9. CASE c.attempt < extraTries(c) /\ Goes(a, [c EXCEPT !.attempt = @ + 1]) /\ UNCHANGED names
  <2> DEFINE n == [c EXCEPT !.attempt = @ + 1]
  <2>1. n \in ToolType /\ n.since = c.since /\ n.pc \notin {"naming", "starting"} /\ Settled(n)
    BY <1>2, <1>4, <1>5, <1>9, RetryFields
  <2> HIDE DEF n
  <2>2. Goes(a, n)
    BY <1>9 DEF n
  <2> QED BY <1>1, <1>2, <1>4, <1>6, <1>9, <2>1, <2>2, NamesKept, ToolMoves
<1>10. CASE /\ c.pc = "listing" /\ names' = [repos |-> estate.repos, fetched |-> clock, filled |-> TRUE]
            /\ Goes(a, NameResolved(c, estate.repos, clock))
  <2> DEFINE n == NameResolved(c, estate.repos, clock)
  <2>1. /\ n \in ToolType /\ n.since = c.since /\ n.pc # "naming" /\ Settled(n)
        /\ n.pc = "starting" => ~n.arrived
    BY <1>1, <1>4, <1>5, ResolvedFields
  <2>2. NamesStep
    BY <1>1, <1>10 DEF NamesStep
  <2> HIDE DEF n
  <2>3. Goes(a, n)
    BY <1>10 DEF n
  <2> QED BY <1>1, <1>2, <1>4, <1>6, <2>1, <2>2, <2>3, ToolMoves
<1>11. CASE c.pc # "listing" /\ Goes(a, Concluded(c, code)) /\ UNCHANGED names
  <2> DEFINE n == Concluded(c, code)
  <2>1. c.pc \in {"searching", "probing", "starting"}
    BY <1>2, <1>4, <1>11 DEF Requesting
  <2>2. Says(c, code)
    BY <1>4, <2>1, HandledSays
  <2> HIDE DEF code
  <2>3. n \in ToolType /\ n.since = c.since /\ n.pc \notin {"naming", "starting"} /\ Settled(n)
    BY <1>4, <1>5, <1>7, <2>1, <2>2, ConcludedFields
  <2>4. Goes(a, n)
    BY <1>11
  <2> HIDE DEF n
  <2> QED BY <1>1, <1>2, <1>4, <1>6, <1>11, <2>3, <2>4, NamesKept, ToolMoves
<1> QED BY <1>8, <1>9, <1>10, <1>11

LEMMA LostKeeps ==
    ASSUME GatewayInv, NEW a \in Askers, NEW acted \in BOOLEAN, Lost(a, acted)
    PROVE  GatewayInv'
<1> DEFINE b == asking[a]
           c == IF acted THEN Arrives(b) ELSE b
<1>1. /\ b \in ToolType /\ CallSound(b) /\ b.since <= clock /\ clock \in Nat
  BY GatewayFacts DEF CallSound
<1>2. /\ b.pc \in Requesting /\ estate' \in {estate, ServedEstate(c)} /\ UNCHANGED <<names, clock>>
  BY DEF Lost
<1>3. b.answer = NoText
  BY <1>2, SilentUntilAnswered DEF Requesting
<1>4. c \in ToolType /\ c.pc = b.pc /\ c.since = b.since /\ c.answer = NoText
  <2>1. CASE acted
    <3>1. c = Arrives(b)
      BY <2>1
    <3> HIDE DEF c
    <3> QED BY <1>1, <1>3, <3>1, ArrivesFields
  <2>2. CASE ~acted
    BY <1>1, <1>3, <2>2
  <2> QED BY <2>1, <2>2
<1>5. \/ c.attempt < extraTries(c) /\ Goes(a, [c EXCEPT !.attempt = @ + 1])
      \/ \E text \in {"noneDegraded", "unreachable"} : Goes(a, Answer(c, text))
  BY DEF Lost
<1>6. spentOn' \in [asks : Nat, changes : Nat, losses : Nat]
  BY GatewayFacts DEF Lost
<1> HIDE DEF c
<1>7. estate' \in [repos : SUBSET GatewayRepos, health : Healths, pass : BOOLEAN]
  BY <1>2, ServedTyped
<1>8. CASE c.attempt < extraTries(c) /\ Goes(a, [c EXCEPT !.attempt = @ + 1])
  <2> DEFINE n == [c EXCEPT !.attempt = @ + 1]
  <2>0. AnswerSound(c)
    BY <1>4, NoTextFacts DEF AnswerSound
  <2>1. n \in ToolType /\ n.since = c.since /\ n.pc \notin {"naming", "starting"} /\ Settled(n)
    BY <1>2, <1>4, <1>8, <2>0, RetryFields
  <2> HIDE DEF n
  <2>2. Goes(a, n)
    BY <1>8 DEF n
  <2> QED BY <1>1, <1>2, <1>4, <1>6, <1>7, <2>1, <2>2, NamesKept, ToolMoves
<1>9. ASSUME NEW text \in {"noneDegraded", "unreachable"}, Goes(a, Answer(c, text)) PROVE GatewayInv'
  <2> DEFINE n == Answer(c, text)
  <2>0. text \in Wordings
    BY DEF Wordings
  <2>1. n \in ToolType /\ n.since = c.since /\ n.pc = "answered" /\ n.answer = text
    BY <1>4, <2>0, AnswerFields
  <2> HIDE DEF n
  <2>2. Settled(n)
    BY <1>9, <2>1 DEF AnswerSound, Settled
  <2>3. Goes(a, n)
    BY <1>9 DEF n
  <2> QED BY <1>1, <1>2, <1>4, <1>6, <1>7, <2>1, <2>2, <2>3, NamesKept, ToolMoves
<1> QED BY <1>5, <1>8, <1>9

(* Nobody's call moves. *)
LEMMA AroundKeeps ==
    ASSUME GatewayInv, UNCHANGED <<names, asking>>, clock' \in Nat, clock' >= clock,
           estate' \in [repos : SUBSET GatewayRepos, health : Healths, pass : BOOLEAN],
           spentOn' \in [asks : Nat, changes : Nat, losses : Nat]
    PROVE  GatewayInv'
<1>1. GatewayTypeOK'
  BY DEF GatewayInv, GatewayTypeOK
<1>2. ASSUME NEW b \in Askers PROVE (CallSound(asking[b]) /\ AnswerSound(asking[b]))'
  <2>1. /\ asking[b] \in ToolType /\ CallSound(asking[b]) /\ AnswerSound(asking[b])
        /\ asking[b].since \in Nat /\ clock \in Nat
    BY GatewayFacts DEF ToolType
  <2> QED BY <2>1 DEF CallSound, AnswerSound
<1> QED BY <1>1, <1>2 DEF GatewayInv

LEMMA GatewayStarts == GatewayInit => GatewayInv
<1> SUFFICES ASSUME GatewayInit PROVE GatewayInv
  OBVIOUS
<1>1. \A a \in Askers : asking[a] = NoTool
  BY DEF GatewayInit
<1>2. GatewayTypeOK
  BY NoToolFields, AgentGatewayAssumption DEF GatewayInit, GatewayTypeOK, Healths
<1>3. CallSound(NoTool) /\ AnswerSound(NoTool)
  BY NoToolFields, NoTextFacts DEF GatewayInit, CallSound, AnswerSound, Settled
<1> QED BY <1>1, <1>2, <1>3 DEF GatewayInv

LEMMA GatewayKeeps == GatewayInv /\ [GatewayNext]_gatewayVars => GatewayInv'
<1> SUFFICES ASSUME GatewayInv, [GatewayNext]_gatewayVars PROVE GatewayInv'
  OBVIOUS
<1>0. /\ estate \in [repos : SUBSET GatewayRepos, health : Healths, pass : BOOLEAN]
      /\ spentOn \in [asks : Nat, changes : Nat, losses : Nat] /\ clock \in Nat
  BY GatewayFacts
<1>1. ASSUME NEW a \in Askers,
             \/ \E op \in {"search", "context", "index"}, want \in Wants \cup {Nobody} : Ask(a, op, want)
             \/ NameFromCache(a) \/ StartListing(a) \/ invalidate(a)
             \/ \E thin, replaced \in BOOLEAN : Replied(a, thin, replaced)
             \/ \E acted \in BOOLEAN : Lost(a, acted)
             \/ Read(a)
      PROVE  GatewayInv'
  BY <1>1, AskKeeps, NamingKeeps, RepliedKeeps, LostKeeps
<1>2. ASSUME NEW e \in [repos : SUBSET GatewayRepos, health : Healths, pass : BOOLEAN], Changes(e)
      PROVE  GatewayInv'
  <2>1. UNCHANGED <<names, asking, clock>> /\ estate' = e
    BY <1>2 DEF Changes
  <2>2. spentOn' \in [asks : Nat, changes : Nat, losses : Nat]
    BY <1>0, <1>2 DEF Changes
  <2> QED BY <1>0, <2>1, <2>2, AroundKeeps
<1>3. ASSUME NEW r \in GatewayRepos, Changes([estate EXCEPT !.repos = (@ \cup {r}) \ (@ \cap {r})])
      PROVE  GatewayInv'
  <2>1. [estate EXCEPT !.repos = (@ \cup {r}) \ (@ \cap {r})]
          \in [repos : SUBSET GatewayRepos, health : Healths, pass : BOOLEAN]
    BY <1>0
  <2> QED BY <1>2, <1>3, <2>1
<1>4. ASSUME NEW h \in {"whole", "degraded", "damaged"}, Changes([estate EXCEPT !.health = h]) PROVE GatewayInv'
  <2>1. [estate EXCEPT !.health = h] \in [repos : SUBSET GatewayRepos, health : Healths, pass : BOOLEAN]
    BY <1>0 DEF Healths
  <2> QED BY <1>2, <1>4, <2>1
<1>5. CASE Changes([estate EXCEPT !.pass = FALSE])
  <2>1. [estate EXCEPT !.pass = FALSE] \in [repos : SUBSET GatewayRepos, health : Healths, pass : BOOLEAN]
    BY <1>0
  <2> QED BY <1>2, <1>5, <2>1
<1>6. CASE TickClock
  BY <1>0, <1>6, AroundKeeps DEF TickClock
<1>7. CASE UNCHANGED gatewayVars
  BY <1>0, <1>7, AroundKeeps DEF gatewayVars
<1> QED BY <1>1, <1>3, <1>4, <1>5, <1>6, <1>7 DEF GatewayNext

(* The MCP tools over the retrying client: whatever is lost, retried, replaced or  *)
(* changed on the server meanwhile, absence is only reported from whole indexes    *)
(* (or with its caveat), a name is refused only on a listing taken since the       *)
(* question was asked, and a call told that the repository is busy did not itself  *)
(* make it so.                                                                     *)
THEOREM GatewayIsHonest == GatewaySpec => []GatewayHonest
<1>1. GatewayInit => GatewayInv
  BY GatewayStarts
<1>2. GatewayInv /\ [GatewayNext]_gatewayVars => GatewayInv'
  BY GatewayKeeps
<1>3. GatewayInv => GatewayHonest
  BY DEF GatewayInv, AnswerSound, GatewayHonest, AbsenceIsEarned, UnknownIsFresh, AckIsOwn
<1> QED BY <1>1, <1>2, <1>3, PTL DEF GatewaySpec

-----------------------------------------------------------------------------
(* Startup and shutdown *)

ProcessType ==
    [pc : Wired \cup {"editing", "refused", "ended", "exited"}, source : BOOLEAN, watch : BOOLEAN,
     outcome : {"none", "built", "broken", "rejected"}, stopped : BOOLEAN, late : BOOLEAN]
TasksType ==
    [scan : {"off", "running", "done"}, follow : {"off", "running", "done"}, pass : BOOLEAN, request : BOOLEAN]
ResourceType == SUBSET {"store", "qdrant", "bm25", "listener", "watches"}

(* The file. *)
LEMMA SettingsTyped ==
    ASSUME NEW c, WellFormed(c)
    PROVE  /\ c.rerank \in {"off", "noURL", "on"}
           /\ c.summaries \in {"off", "ollama", "openai", "other"}
           /\ c.openai \in {"absent", "keyed", "public", "gateway"}
           /\ c.assistant \in {"off", "ollama", "openaiKeyed", "openaiBare", "other"}
<1>1. {"rerank", "summaries", "openai", "assistant"} \subseteq DOMAIN Settings
  BY DEF Settings
<1>2. /\ c["rerank"] \in Settings["rerank"] /\ c["summaries"] \in Settings["summaries"]
      /\ c["openai"] \in Settings["openai"] /\ c["assistant"] \in Settings["assistant"]
  BY <1>1 DEF WellFormed
<1> QED BY <1>2 DEF Settings

LEMMA EditedWellFormed ==
    ASSUME NEW c, WellFormed(c), NEW f \in DOMAIN Settings, NEW v \in Settings[f]
    PROVE  WellFormed([c EXCEPT ![f] = v])
  BY DEF WellFormed

(* No rule is broken. *)
LEMMA ValidSettings ==
    ASSUME NEW c, Validate(c) = {}
    PROVE  /\ c.relational # {} /\ ("postgres" \in c.relational => c.dsn)
           /\ c.qdrant = "cloud" => c.qdrantKey
           /\ VectorOn(c) => c.vector \in {"ollama", "openai"} /\ c.model # Unset /\ c.qdrant # "none"
           /\ c.summaries # "other" /\ (c.summaries # "off" => c.summariesModel)
           /\ c.assistant \notin {"other", "openaiBare"} /\ (c.assistant # "off" => c.assistantModel)
           /\ c.openai = "public" => c.summaries # "openai"
           /\ c.rerank # "noURL"
<1>1. /\ validateStorage(c) = {} /\ validateIndexes(c) = {} /\ validateModels(c) = {} /\ validateRest(c) = {}
  BY DEF Validate
<1>2. c.relational # {} /\ ("postgres" \in c.relational => c.dsn) /\ (c.qdrant = "cloud" => c.qdrantKey)
  <2>1. "relational" \notin validateStorage(c) /\ "dsn" \notin validateStorage(c) /\ "qdrantKey" \notin validateStorage(c)
    BY <1>1
  <2> QED BY <2>1 DEF validateStorage
<1>3. VectorOn(c) => c.vector \in {"ollama", "openai"} /\ c.model # Unset /\ c.qdrant # "none"
  <2>1. "provider" \notin validateIndexes(c) /\ "model" \notin validateIndexes(c) /\ "vectorStore" \notin validateIndexes(c)
    BY <1>1
  <2> QED BY <2>1 DEF validateIndexes
<1>4. /\ c.summaries # "other" /\ (c.summaries # "off" => c.summariesModel)
      /\ c.assistant \notin {"other", "openaiBare"} /\ (c.assistant # "off" => c.assistantModel)
      /\ c.openai = "public" => c.summaries # "openai"
  <2>1. \A e \in {"summaries", "summariesModel", "assistant", "assistantModel", "assistantKey", "openaiKey"} :
          e \notin validateModels(c)
    BY <1>1
  <2> QED BY <2>1 DEF validateModels
<1>5. c.rerank # "noURL"
  <2>1. "rerank" \notin validateRest(c)
    BY <1>1
  <2> QED BY <2>1 DEF validateRest
<1> QED BY <1>2, <1>3, <1>4, <1>5

(* What a valid file can still be refused for. *)
LEMMA ValidIsWired ==
    ASSUME WellFormed(config), Validate(config) = {}, NEW step, Configures(config, step), ~Accepted(config, step)
    PROVE  UncheckedSetting
<1>1. /\ config.rerank \in {"off", "noURL", "on"}
      /\ config.summaries \in {"off", "ollama", "openai", "other"}
      /\ config.openai \in {"absent", "keyed", "public", "gateway"}
      /\ config.assistant \in {"off", "ollama", "openaiKeyed", "openaiBare", "other"}
  BY SettingsTyped
<1>2. /\ config.relational # {} /\ ("postgres" \in config.relational => config.dsn)
      /\ config.qdrant = "cloud" => config.qdrantKey
      /\ VectorOn(config) => config.vector \in {"ollama", "openai"} /\ config.model # Unset /\ config.qdrant # "none"
      /\ config.summaries # "other" /\ (config.summaries # "off" => config.summariesModel)
      /\ config.assistant \notin {"other", "openaiBare"} /\ (config.assistant # "off" => config.assistantModel)
      /\ config.openai = "public" => config.summaries # "openai"
      /\ config.rerank # "noURL"
  BY ValidSettings
<1>3. step \in {"store", "qdrant", "ollama", "openai", "vector", "rerank", "generator", "assistant"}
  BY DEF Accepted
<1>4. CASE step \in {"store", "qdrant", "vector", "rerank", "assistant"}
  BY <1>1, <1>2, <1>4 DEF Accepted, Configures, initVectorIndexer, initAssistant
<1>5. CASE step = "ollama"
  BY <1>2, <1>5 DEF Accepted, Configures, initOllamaEmbedder, UncheckedSetting
<1>6. CASE step = "openai"
  BY <1>6 DEF Accepted, Configures, UncheckedSetting
<1>7. CASE step = "generator"
  BY <1>1, <1>2, <1>7 DEF Accepted, Configures, initGenerator, UncheckedSetting
<1> QED BY <1>3, <1>4, <1>5, <1>6, <1>7

(* The wiring stops at its first failure. *)
LEMMA FirstIsThere ==
    ASSUME NEW S \in SUBSET (1 .. 12), S # {}
    PROVE  \E i \in S : \A j \in S : i <= j
<1> SUFFICES ASSUME \A i \in S : \E j \in S : ~(i <= j) PROVE FALSE
  OBVIOUS
<1>1. \A i \in S : \E j \in S : j < i
  OBVIOUS
<1>2. 1 \notin S /\ 2 \notin S /\ 3 \notin S /\ 4 \notin S
  BY <1>1
<1>3. 5 \notin S /\ 6 \notin S /\ 7 \notin S /\ 8 \notin S
  BY <1>1, <1>2
<1>4. 9 \notin S /\ 10 \notin S /\ 11 \notin S /\ 12 \notin S
  BY <1>1, <1>2, <1>3
<1>5. PICK i \in S : TRUE
  OBVIOUS
<1>6. i \in Nat /\ 1 <= i /\ i <= 12
  OBVIOUS
<1>7. i = 1 \/ i = 2 \/ i = 3 \/ i = 4 \/ i = 5 \/ i = 6 \/ i = 7 \/ i = 8 \/ i = 9 \/ i = 10 \/ i = 11 \/ i = 12
  BY <1>6
<1> QED BY <1>2, <1>3, <1>4, <1>5, <1>7

LEMMA StepsOfWiring == DOMAIN WireSteps = 1 .. 12 /\ WireSteps[2] = "store" /\ Len(WireSteps) = 12
  BY DEF WireSteps

LEMMA FailureIsReal ==
    ASSUME NEW c, NEW broken, Fails(c, broken) # {}
    PROVE  FirstFailure(c, broken) \in Fails(c, broken)
<1>1. Fails(c, broken) \in SUBSET (1 .. 12)
  BY StepsOfWiring DEF Fails
<1>2. \E i \in Fails(c, broken) : \A j \in Fails(c, broken) : i <= j
  BY <1>1, FirstIsThere
<1> QED BY <1>2 DEF FirstFailure

LEMMA AfterDeferred ==
    /\ After("stopWatcher") = "waitBackground" /\ After("waitBackground") = "closeService"
    /\ After("closeService") = "ended"
<1>1. Deferred[1] = "stopWatcher" /\ Deferred[2] = "waitBackground" /\ Deferred[3] = "closeService" /\ Deferred[4] = "ended"
  BY DEF Deferred
<1>2. (CHOOSE i \in 1..3 : Deferred[i] = "stopWatcher") = 1
  BY <1>1
<1>3. (CHOOSE i \in 1..3 : Deferred[i] = "waitBackground") = 2
  BY <1>1
<1>4. (CHOOSE i \in 1..3 : Deferred[i] = "closeService") = 3
  BY <1>1
<1> QED BY <1>1, <1>2, <1>3, <1>4 DEF After

-----------------------------------------------------------------------------
LEMMA StartupFacts ==
    ASSUME StartupInv
    PROVE  /\ process \in ProcessType /\ tasks \in TasksType /\ resources \in ResourceType
           /\ mishaps \in [edits : Nat, faults : Nat] /\ WellFormed(config)
           /\ verdict \in {"none", "invalid", "unreachable", "ok"}
  BY DEF StartupInv, StartupTypeOK, ProcessType, TasksType, ResourceType

(* A step of the running process: the file and what was said of it stay. *)
LEMMA ProcessMoves ==
    ASSUME StartupInv, UNCHANGED <<config, verdict>>, process' \in ProcessType, tasks' \in TasksType,
           resources' \in ResourceType, mishaps' \in [edits : Nat, faults : Nat],
           process'.outcome = process.outcome, process'.pc # "editing" \/ process'.pc = process.pc,
           StoreOutlivesWriters', RefusedReleases'
    PROVE  StartupInv'
<1>1. StartupTypeOK'
  BY DEF StartupInv, StartupTypeOK, ProcessType, TasksType, ResourceType
<1>2. VerdictStands'
  BY DEF StartupInv, VerdictStands
<1> QED BY <1>1, <1>2 DEF StartupInv

LEMMA EditKeeps ==
    ASSUME StartupInv, NEW f \in DOMAIN Settings, NEW v \in Settings[f], EditConfig(f, v)
    PROVE  StartupInv'
<1>1. /\ config' = [config EXCEPT ![f] = v] /\ verdict' = "none" /\ UNCHANGED <<process, resources, tasks>>
      /\ process.pc = "editing"
  BY DEF EditConfig
<1>2. mishaps' \in [edits : Nat, faults : Nat]
  BY StartupFacts DEF EditConfig
<1>3. WellFormed(config')
  BY <1>1, StartupFacts, EditedWellFormed
<1>4. StartupTypeOK'
  BY <1>1, <1>2, <1>3 DEF StartupInv, StartupTypeOK, WellFormed
<1>5. VerdictStands'
  BY <1>1 DEF StartupInv, VerdictStands
<1>6. StoreOutlivesWriters' /\ RefusedReleases'
  BY <1>1 DEF StartupInv, StoreOutlivesWriters, RefusedReleases
<1> QED BY <1>4, <1>5, <1>6 DEF StartupInv

LEMMA CheckKeeps ==
    ASSUME StartupInv, NEW down, runCheckConfig(down)
    PROVE  StartupInv'
<1>1. /\ UNCHANGED <<config, process, resources, tasks, mishaps>> /\ process.pc = "editing"
      /\ verdict' \in {"invalid", "unreachable", "ok"}
      /\ verdict' = "ok" => Validate(config) = {}
  BY DEF runCheckConfig
<1>2. StartupTypeOK'
  BY <1>1 DEF StartupInv, StartupTypeOK, WellFormed
<1>3. Validate(config)' = Validate(config)
  BY <1>1
<1>4. VerdictStands'
  BY <1>1, <1>3 DEF StartupInv, VerdictStands
<1>5. StoreOutlivesWriters' /\ RefusedReleases'
  BY <1>1 DEF StartupInv, StoreOutlivesWriters, RefusedReleases
<1> QED BY <1>2, <1>4, <1>5 DEF StartupInv

LEMMA BuildKeeps ==
    ASSUME StartupInv, NEW cmd \in {"repos", "run"}, NEW source \in BOOLEAN, NEW watch \in BOOLEAN,
           NEW broken, Build(cmd, source, watch, broken)
    PROVE  StartupInv'
<1>1. process.pc = "editing" /\ UNCHANGED <<config, verdict, tasks>>
  BY DEF Build
<1>2. mishaps' \in [edits : Nat, faults : Nat]
  <2>1. mishaps \in [edits : Nat, faults : Nat]
    BY StartupFacts
  <2>2. mishaps' = mishaps \/ mishaps' = [mishaps EXCEPT !.faults = mishaps.faults + 1]
    BY <2>1 DEF Build
  <2> QED BY <2>1, <2>2
<1>3. CASE Fails(config, broken) = {}
  <2>1. /\ resources' = OpenedBefore(config, 13)
        /\ process' = [NotRunning EXCEPT !.pc = cmd, !.source = source, !.watch = watch, !.outcome = "built"]
    BY <1>3, StepsOfWiring DEF Build
  <2>2. resources' \in ResourceType /\ "store" \in resources'
    BY <2>1, StepsOfWiring DEF OpenedBefore, ResourceType, Configures
  <2>3. process' \in ProcessType /\ process'.pc = cmd /\ process'.outcome = "built"
    BY <2>1 DEF NotRunning, ProcessType, Wired
  <2>4. StartupTypeOK'
    BY <1>1, <1>2, <2>2, <2>3 DEF StartupInv, StartupTypeOK, WellFormed, ProcessType, ResourceType
  <2>5. VerdictStands'
    BY <1>1, <2>3 DEF StartupInv, VerdictStands
  <2>6. StoreOutlivesWriters' /\ RefusedReleases'
    BY <1>1, <2>2, <2>3 DEF StoreOutlivesWriters, RefusedReleases, Wired, Stopping
  <2> QED BY <2>4, <2>5, <2>6 DEF StartupInv
<1>4. CASE Fails(config, broken) # {}
  <2> DEFINE i == FirstFailure(config, broken)
             outcome == IF WireSteps[i] = broken THEN "broken" ELSE "rejected"
  <2>1. /\ resources' = AfterFailure(OpenedBefore(config, i))
        /\ process' = [NotRunning EXCEPT !.pc = "refused", !.outcome = outcome]
    BY <1>4 DEF Build
  <2>2. i \in Fails(config, broken)
    BY <1>4, FailureIsReal
  <2>3. outcome \in {"broken", "rejected"}
    OBVIOUS
  <2>4. outcome = "rejected" =>
          i \in DOMAIN WireSteps /\ Configures(config, WireSteps[i]) /\ ~Accepted(config, WireSteps[i])
    BY <2>2 DEF Fails
  <2> HIDE DEF outcome, i
  <2>5. resources' \in ResourceType /\ resources' \cap {"store", "qdrant"} = {}
    BY <2>1 DEF AfterFailure, OpenedBefore, ResourceType
  <2>6. process' \in ProcessType /\ process'.pc = "refused" /\ process'.outcome = outcome
    BY <2>1, <2>3 DEF NotRunning, ProcessType
  <2>7. StartupTypeOK'
    BY <1>1, <1>2, <2>5, <2>6 DEF StartupInv, StartupTypeOK, WellFormed, ProcessType, ResourceType
  <2>8. VerdictStands'
    BY <1>1, <2>4, <2>6 DEF StartupInv, VerdictStands
  <2>9. StoreOutlivesWriters' /\ RefusedReleases'
    BY <1>1, <2>3, <2>5, <2>6 DEF StoreOutlivesWriters, RefusedReleases, Wired, Stopping
  <2> QED BY <2>7, <2>8, <2>9 DEF StartupInv
<1> QED BY <1>3, <1>4

(* The process ends, with what it held. *)
LEMMA ExitKeeps ==
    ASSUME StartupInv, runRepos \/ (\E pc \in {"run", "listening", "serving"} : fatalf(pc)) \/ Exit
    PROVE  StartupInv'
<1>1. /\ UNCHANGED <<config, verdict, mishaps>> /\ resources' = {} /\ tasks' \in {tasks, NoTasks}
      /\ process' = [process EXCEPT !.pc = "exited"]
  BY DEF runRepos, fatalf, Exit, Phase
<1>2. process' \in ProcessType /\ process'.pc = "exited" /\ process'.outcome = process.outcome
  BY <1>1, StartupFacts DEF ProcessType
<1>3. tasks' \in TasksType /\ resources' \in ResourceType /\ mishaps' \in [edits : Nat, faults : Nat]
  <2>1. tasks \in TasksType /\ NoTasks \in TasksType
    BY StartupFacts DEF TasksType, NoTasks
  <2>2. tasks' = tasks \/ tasks' = NoTasks
    BY <1>1
  <2>3. mishaps' \in [edits : Nat, faults : Nat]
    BY <1>1, StartupFacts
  <2> QED BY <1>1, <2>1, <2>2, <2>3 DEF ResourceType
<1>4. StoreOutlivesWriters' /\ RefusedReleases'
  BY <1>2 DEF StoreOutlivesWriters, RefusedReleases, Wired, Stopping
<1> QED BY <1>1, <1>2, <1>3, <1>4, ProcessMoves

(* Scan, listener, watcher: the store is open. *)
LEMMA ComingUpKeeps ==
    ASSUME StartupInv,
           (\E found \in BOOLEAN : activateSource(found)) \/ Listen \/ (\E started \in BOOLEAN : startWatcher(started))
    PROVE  StartupInv'
<1>1. PICK pc \in {"listening", "watching", "serving"} :
        /\ process.pc \in {"run", "listening", "watching"} /\ process' = [process EXCEPT !.pc = pc]
        /\ UNCHANGED <<config, verdict, mishaps>>
  BY DEF activateSource, Listen, startWatcher, Phase
<1>2. process' \in ProcessType /\ process'.pc = pc /\ process'.outcome = process.outcome
  BY <1>1, StartupFacts DEF ProcessType, Wired
<1>3. tasks' \in TasksType
  <2>1. tasks \in TasksType
    BY StartupFacts
  <2>2. \/ tasks' = tasks
        \/ \E v \in {"off", "running"} : tasks' = [tasks EXCEPT !.scan = v] \/ tasks' = [tasks EXCEPT !.follow = v]
    BY DEF activateSource, Listen, startWatcher
  <2> QED BY <2>1, <2>2 DEF TasksType
<1>4. resources' \in ResourceType /\ resources \subseteq resources' /\ mishaps' \in [edits : Nat, faults : Nat]
  BY <1>1, StartupFacts DEF activateSource, Listen, startWatcher, ResourceType
<1>5. process.pc \in Wired
  BY <1>1 DEF Wired
<1>6. process.outcome = "built" /\ "store" \in resources
  BY <1>5 DEF StartupInv, StoreOutlivesWriters
<1>7. StoreOutlivesWriters' /\ RefusedReleases'
  BY <1>2, <1>4, <1>6 DEF StoreOutlivesWriters, RefusedReleases, Wired, Stopping
<1> QED BY <1>1, <1>2, <1>3, <1>4, <1>7, ProcessMoves

(* Requests, passes and the ends of the tasks. *)
LEMMA TasksKeep ==
    ASSUME StartupInv,
           \/ Request \/ StartPass \/ AnswerRequest \/ FinishPass
           \/ \E task \in {"scan", "follow"} : Finish(task)
    PROVE  StartupInv'
<1>1. UNCHANGED <<config, verdict, process, resources, mishaps>>
  BY DEF Request, StartPass, AnswerRequest, FinishPass, Finish
<1>2. tasks \in TasksType /\ process \in ProcessType /\ resources \in ResourceType
      /\ mishaps \in [edits : Nat, faults : Nat]
  BY StartupFacts
<1>3. /\ tasks' \in TasksType
      /\ tasks'.request => tasks.request \/ process.pc = "serving"
      /\ tasks'.pass => tasks.pass \/ tasks.request
      /\ tasks'.scan = "running" => tasks.scan = "running"
      /\ tasks'.follow = "running" => tasks.follow = "running"
  <2>1. CASE Request
    BY <1>2, <2>1 DEF Request, TasksType
  <2>2. CASE StartPass
    BY <1>2, <2>2 DEF StartPass, TasksType
  <2>3. CASE AnswerRequest
    BY <1>2, <2>3 DEF AnswerRequest, TasksType
  <2>4. CASE FinishPass
    BY <1>2, <2>4 DEF FinishPass, TasksType
  <2>5. CASE Finish("scan")
    <3>1. tasks' = [tasks EXCEPT !.scan = "done"]
      BY <2>5 DEF Finish
    <3> QED BY <1>2, <3>1 DEF TasksType
  <2>6. CASE Finish("follow")
    <3>1. tasks' = [tasks EXCEPT !.follow = "done"]
      BY <2>6 DEF Finish
    <3> QED BY <1>2, <3>1 DEF TasksType
  <2> QED BY <2>1, <2>2, <2>3, <2>4, <2>5, <2>6
<1>4. StoreOutlivesWriters' /\ RefusedReleases'
  BY <1>1, <1>2, <1>3 DEF StartupInv, StoreOutlivesWriters, RefusedReleases, Stopping
<1> QED BY <1>1, <1>2, <1>3, <1>4, ProcessMoves

(* Shutdown: the watcher, the background work, the passes, and only then the store. *)
LEMMA QuitKeeps ==
    ASSUME StartupInv, Quit
    PROVE  StartupInv'
<1>1. /\ process.pc = "serving" /\ process' = [process EXCEPT !.pc = "draining", !.stopped = TRUE]
      /\ resources' = resources \ {"listener"} /\ UNCHANGED <<config, verdict, tasks, mishaps>>
  BY DEF Quit
<1>2. process' \in ProcessType /\ process'.pc = "draining" /\ process'.outcome = process.outcome
  BY <1>1, StartupFacts DEF ProcessType, Wired
<1>3. process.outcome = "built" /\ "store" \in resources'
  BY <1>1 DEF StartupInv, StoreOutlivesWriters, Wired
<1>4. resources' \in ResourceType /\ tasks' \in TasksType /\ mishaps' \in [edits : Nat, faults : Nat]
  BY <1>1, StartupFacts DEF ResourceType
<1>5. StoreOutlivesWriters' /\ RefusedReleases'
  BY <1>2, <1>3 DEF StoreOutlivesWriters, RefusedReleases, Wired, Stopping
<1> QED BY <1>1, <1>2, <1>4, <1>5, ProcessMoves

LEMMA DrainedKeeps ==
    ASSUME StartupInv, NEW late \in BOOLEAN, Drained(late)
    PROVE  StartupInv'
<1>1. /\ process.pc = "draining" /\ tasks.request = late
      /\ process' = [process EXCEPT !.pc = "stopWatcher", !.late = late]
      /\ UNCHANGED <<config, verdict, resources, tasks, mishaps>>
  BY DEF Drained
<1>2. process' \in ProcessType /\ process'.pc = "stopWatcher" /\ process'.outcome = process.outcome /\ process'.late = late
  BY <1>1, StartupFacts DEF ProcessType, Wired
<1>3. process.outcome = "built" /\ "store" \in resources
  BY <1>1 DEF StartupInv, StoreOutlivesWriters, Wired
<1>4. resources' \in ResourceType /\ tasks' \in TasksType /\ mishaps' \in [edits : Nat, faults : Nat]
  BY <1>1, StartupFacts
<1>5. StoreOutlivesWriters' /\ RefusedReleases'
  BY <1>1, <1>2, <1>3 DEF StoreOutlivesWriters, RefusedReleases, Wired, Stopping
<1> QED BY <1>1, <1>2, <1>4, <1>5, ProcessMoves

LEMMA StoppingKeeps ==
    ASSUME StartupInv, StopWatcher \/ WaitBackground \/ CloseService \/ CloseStore
    PROVE  StartupInv'
<1>1. /\ process.pc \in {"stopWatcher", "waitBackground", "closeService", "closeStore"}
      /\ UNCHANGED <<config, verdict, tasks, mishaps>>
      /\ process.pc = "stopWatcher" =>
            process' = [process EXCEPT !.pc = "waitBackground"] /\ resources' = resources \ {"watches"}
      /\ process.pc = "waitBackground" =>
            /\ process' = [process EXCEPT !.pc = "closeService"] /\ resources' = resources
            /\ "running" \notin {tasks.scan, tasks.follow}
      /\ process.pc = "closeService" =>
            process' = [process EXCEPT !.pc = "closeStore"] /\ resources' = resources /\ ~tasks.pass
      /\ process.pc = "closeStore" =>
            process' = [process EXCEPT !.pc = "ended"] /\ resources' = resources \ {"store", "qdrant", "bm25"}
  BY AfterDeferred DEF StopWatcher, WaitBackground, CloseService, CloseStore, Phase
<1>2. /\ process' \in ProcessType /\ process'.outcome = process.outcome /\ process'.late = process.late
      /\ process.pc = "stopWatcher" => process'.pc = "waitBackground"
      /\ process.pc = "waitBackground" => process'.pc = "closeService"
      /\ process.pc = "closeService" => process'.pc = "closeStore"
      /\ process.pc = "closeStore" => process'.pc = "ended"
  <2>1. PICK pc \in {"waitBackground", "closeService", "closeStore", "ended"} : process' = [process EXCEPT !.pc = pc]
    BY <1>1
  <2>2. process' \in ProcessType /\ process'.outcome = process.outcome /\ process'.late = process.late /\ process'.pc = pc
    BY <2>1, StartupFacts DEF ProcessType, Wired
  <2>3. process \in ProcessType
    BY StartupFacts
  <2> QED BY <1>1, <2>2, <2>3 DEF ProcessType
<1>3. process.outcome = "built" /\ "store" \in resources
  BY <1>1 DEF StartupInv, StoreOutlivesWriters, Wired
<1>4. resources' \in ResourceType /\ tasks' \in TasksType /\ mishaps' \in [edits : Nat, faults : Nat]
  BY <1>1, StartupFacts DEF ResourceType
<1>5. StoreOutlivesWriters'
  BY <1>1, <1>2, <1>3 DEF StartupInv, StoreOutlivesWriters, Wired, Stopping
<1>6. RefusedReleases'
  BY <1>1, <1>2 DEF RefusedReleases
<1> QED BY <1>1, <1>2, <1>4, <1>5, <1>6, ProcessMoves

LEMMA StartupStarts == StartupInit => StartupInv
<1> SUFFICES ASSUME StartupInit PROVE StartupInv
  OBVIOUS
<1>1. WellFormed(config)
  BY StartupAssumption DEF StartupInit
<1>2. process.pc = "editing" /\ process.outcome = "none" /\ process \in ProcessType
  BY DEF StartupInit, NotRunning, ProcessType
<1>3. StartupTypeOK
  BY <1>1, <1>2 DEF StartupInit, StartupTypeOK, ProcessType, NoTasks
<1>4. VerdictStands /\ StoreOutlivesWriters /\ RefusedReleases
  BY <1>2 DEF StartupInit, VerdictStands, StoreOutlivesWriters, RefusedReleases, Wired, Stopping
<1> QED BY <1>3, <1>4 DEF StartupInv

LEMMA StartupKeeps == StartupInv /\ [StartupNext]_startupVars => StartupInv'
<1> SUFFICES ASSUME StartupInv, [StartupNext]_startupVars PROVE StartupInv'
  OBVIOUS
<1>1. CASE \E f \in DOMAIN Settings : \E v \in Settings[f] : EditConfig(f, v)
  BY <1>1, EditKeeps
<1>2. CASE \E down \in SUBSET dependencyProbes(config) : runCheckConfig(down)
  BY <1>2, CheckKeeps
<1>3. CASE \E broken \in {"none"} \cup {WireSteps[i] : i \in DOMAIN WireSteps} :
             \/ Build("repos", FALSE, FALSE, broken)
             \/ \E source, watch \in BOOLEAN : Build("run", source, watch, broken)
  <2>1. PICK broken : \/ Build("repos", FALSE, FALSE, broken)
                      \/ \E source, watch \in BOOLEAN : Build("run", source, watch, broken)
    BY <1>3
  <2>2. CASE Build("repos", FALSE, FALSE, broken)
    BY <2>2, BuildKeeps
  <2>3. CASE \E source, watch \in BOOLEAN : Build("run", source, watch, broken)
    BY <2>3, BuildKeeps
  <2> QED BY <2>1, <2>2, <2>3
<1>4. CASE runRepos \/ (\E pc \in {"run", "listening", "serving"} : fatalf(pc)) \/ Exit
  BY <1>4, ExitKeeps
<1>5. CASE (\E found \in BOOLEAN : activateSource(found)) \/ Listen \/ (\E started \in BOOLEAN : startWatcher(started))
  BY <1>5, ComingUpKeeps
<1>6. CASE Request \/ StartPass \/ AnswerRequest \/ FinishPass \/ \E task \in {"scan", "follow"} : Finish(task)
  BY <1>6, TasksKeep
<1>7. CASE Quit \/ \E late \in BOOLEAN : Drained(late)
  BY <1>7, QuitKeeps, DrainedKeeps
<1>8. CASE StopWatcher \/ WaitBackground \/ CloseService \/ CloseStore
  BY <1>8, StoppingKeeps
<1>9. CASE UNCHANGED startupVars
  <2>1. /\ UNCHANGED <<config, verdict>> /\ UNCHANGED process /\ UNCHANGED tasks /\ UNCHANGED resources
        /\ UNCHANGED mishaps
    BY <1>9 DEF startupVars
  <2>2. StoreOutlivesWriters' /\ RefusedReleases'
    BY <2>1 DEF StartupInv, StoreOutlivesWriters, RefusedReleases
  <2> QED BY <2>1, <2>2, StartupFacts, ProcessMoves
<1> QED BY <1>1, <1>2, <1>3, <1>4, <1>5, <1>6, <1>7, <1>8, <1>9 DEF StartupNext

LEMMA StartupInvSuffices == StartupInv => StartupSafe
<1> SUFFICES ASSUME StartupInv PROVE StartupSafe
  OBVIOUS
<1>1. CheckedIsWired
  <2> SUFFICES ASSUME verdict = "ok", process.outcome = "rejected" PROVE UncheckedSetting
    BY DEF CheckedIsWired
  <2>1. PICK i \in DOMAIN WireSteps : Configures(config, WireSteps[i]) /\ ~Accepted(config, WireSteps[i])
    BY DEF StartupInv, VerdictStands
  <2>2. Validate(config) = {} /\ WellFormed(config)
    BY StartupFacts DEF StartupInv, VerdictStands
  <2> QED BY <2>1, <2>2, ValidIsWired
<1>2. WritersWithinStore
  <2> SUFFICES ASSUME process.outcome = "built", process.pc # "exited", "store" \notin resources
               PROVE  "running" \notin {tasks.scan, tasks.follow} /\ (tasks.pass => process.late)
    BY DEF WritersWithinStore
  <2>1. process.pc = "ended"
    BY StartupFacts DEF StartupInv, StoreOutlivesWriters
  <2> QED BY <2>1 DEF StartupInv, StoreOutlivesWriters
<1> QED BY <1>1, <1>2 DEF StartupInv, StartupSafe

(* main and bootstrap.Build: a file that --check-config reported OK is refused     *)
(* only for the settings neither Validate nor the probes look at; a failed Build   *)
(* leaves neither store nor vector store open; and the store is not closed while   *)
(* the scan, the watcher or a pass may still write to it, unless a handler         *)
(* outlived the shutdown timeout.                                                  *)
THEOREM StartupIsSafe == StartupSpec => []StartupSafe
<1>1. StartupInit => StartupInv
  BY StartupStarts
<1>2. StartupInv /\ [StartupNext]_startupVars => StartupInv'
  BY StartupKeeps
<1>3. StartupInv => StartupSafe
  BY StartupInvSuffices
<1> QED BY <1>1, <1>2, <1>3, PTL DEF StartupSpec

-----------------------------------------------------------------------------
(* RepoCatalog: rows, admins and the steps of a deletion. *)

LEMMA RowFields ==
    ASSUME NEW x \in CatalogRow
    PROVE  /\ x # NoRepoRow <=> x.status # "absent"
           /\ x.status \in {"absent", "idle", "indexing"}
           /\ x.active \in BOOLEAN /\ x.cursor \in BOOLEAN
<1>1. NoRepoRow.status = "absent" /\ NoRepoRow.active = FALSE /\ NoRepoRow.cursor = FALSE
  BY DEF NoRepoRow
<1>2. CASE x = NoRepoRow
  BY <1>1, <1>2
<1>3. CASE x \in [status : {"idle", "indexing"}, cursor : BOOLEAN, active : BOOLEAN]
  <2>1. x.status \in {"idle", "indexing"} /\ x.active \in BOOLEAN /\ x.cursor \in BOOLEAN
    BY <1>3
  <2> QED BY <1>1, <2>1
<1> QED BY <1>2, <1>3 DEF CatalogRow

(* A row with another status, after a pass, and in or out of the working set. *)
WithStatus(x, st) == [x EXCEPT !.status = st]
AfterPass(x) == [x EXCEPT !.status = "idle", !.cursor = TRUE]
WithActive(x, on) == [x EXCEPT !.active = on]

LEMMA StatusWrites ==
    ASSUME NEW x \in CatalogRow, x # NoRepoRow, NEW st \in {"idle", "indexing"}
    PROVE  /\ WithStatus(x, st) \in CatalogRow /\ WithStatus(x, st) # NoRepoRow
           /\ WithStatus(x, st).active = x.active
  BY DEF CatalogRow, NoRepoRow, WithStatus

LEMMA PassEndWrites ==
    ASSUME NEW x \in CatalogRow, x # NoRepoRow
    PROVE  /\ AfterPass(x) \in CatalogRow /\ AfterPass(x) # NoRepoRow
           /\ AfterPass(x).active = x.active
  BY DEF CatalogRow, NoRepoRow, AfterPass

LEMMA ActiveWrites ==
    ASSUME NEW x \in CatalogRow, x # NoRepoRow, NEW on \in BOOLEAN
    PROVE  /\ WithActive(x, on) \in CatalogRow /\ WithActive(x, on) # NoRepoRow
           /\ WithActive(x, on).active = on
  BY DEF CatalogRow, NoRepoRow, WithActive

LEMMA StoreRepoRow ==
    ASSUME row \in [Repos -> CatalogRow], NEW r \in Repos, NEW saved \in CatalogRow
    PROVE  /\ StoreRepo(r, saved) \in CatalogRow /\ StoreRepo(r, saved) # NoRepoRow
           /\ row[r] # NoRepoRow => StoreRepo(r, saved) = row[r]
<1>1. CASE row[r] # NoRepoRow
  BY <1>1 DEF StoreRepo
<1>2. CASE row[r] = NoRepoRow
  <2> DEFINE st == IF saved = NoRepoRow THEN "idle" ELSE saved.status
             new == [status |-> st, cursor |-> saved.cursor, active |-> TRUE]
  <2>1. st \in {"idle", "indexing"} /\ saved.cursor \in BOOLEAN
    BY RowFields
  <2>2. new \in CatalogRow /\ new # NoRepoRow
    <3> HIDE DEF st
    <3> QED BY <2>1 DEF CatalogRow, NoRepoRow
  <2> QED BY <1>2, <2>2 DEF StoreRepo
<1> QED BY <1>1, <1>2

LEMMA RestingOK == AdminOK(Resting) /\ Resting.op = "none"
  BY DEF Resting, AdminOK

LEMMA StepsOf ==
    /\ Len(DeleteSteps) = 6
    /\ \A i \in 1 .. 5 : DeleteSteps[i] \in Stores
    /\ \A i \in 1 .. 6 : DeleteSteps[i] # "row" => i \in 1 .. 5
    /\ \A k \in Stores : \E i \in 1 .. 5 : DeleteSteps[i] = k
    /\ DeleteSteps[6] = "row" /\ "row" \notin Stores
  BY DEF DeleteSteps, Stores

OneFurther(w) == [w EXCEPT !.step = w.step + 1]

LEMMA NextStep ==
    ASSUME NEW w, AdminOK(w), w.op = "delete", w.step \in 1 .. 5
    PROVE  LET n == OneFurther(w)
           IN  AdminOK(n) /\ n.op = "delete" /\ n.repo = w.repo /\ n.step = w.step + 1
<1>1. PICK op, repo, step, saved : w = [op |-> op, repo |-> repo, step |-> step, saved |-> saved]
  BY DEF AdminOK
<1>2. w.op = op /\ w.repo = repo /\ w.step = step
  BY <1>1
<1> DEFINE n == [op |-> op, repo |-> repo, step |-> step + 1, saved |-> saved]
<1>3. OneFurther(w) = n
  BY <1>1 DEF OneFurther
<1>4. n.op = op /\ n.repo = repo /\ n.step = step + 1 /\ n.saved = saved
  OBVIOUS
<1>5. repo \in Repos /\ step + 1 \in 1 .. Len(DeleteSteps) /\ op = "delete"
  BY <1>2, StepsOf DEF AdminOK
<1>6. AdminOK(n)
  BY <1>4, <1>5 DEF AdminOK
<1> HIDE DEF n
<1> QED BY <1>2, <1>3, <1>4, <1>5, <1>6

(* An admin that begins or ends touches no other. *)
LEMMA AdminUpdate ==
    ASSUME CatalogTypeOK, NEW a \in Admins, NEW w, AdminOK(w), admin' = [admin EXCEPT ![a] = w]
    PROVE  /\ admin' = [b \in Admins |-> admin'[b]] /\ \A b \in Admins : AdminOK(admin'[b])
           /\ admin'[a] = w /\ \A b \in Admins : b # a => admin'[b] = admin[b]
<1>1. admin = [b \in Admins |-> admin[b]] /\ \A b \in Admins : AdminOK(admin[b])
  BY DEF CatalogTypeOK
<1>2. admin' = [b \in Admins |-> IF b = a THEN w ELSE admin[b]]
  BY <1>1
<1> QED BY <1>1, <1>2

LEMMA BeginAdmin ==
    ASSUME NEW op \in {"add", "delete", "active"}, NEW r \in Repos, NEW saved,
           op = "add" => saved \in CatalogRow
    PROVE  LET w == [op |-> op, repo |-> r, step |-> 1, saved |-> saved]
           IN  AdminOK(w) /\ w.op = op /\ w.repo = r /\ w.step = 1
<1> DEFINE w == [op |-> op, repo |-> r, step |-> 1, saved |-> saved]
<1>1. w.op = op /\ w.repo = r /\ w.step = 1 /\ w.saved = saved
  OBVIOUS
<1> QED BY <1>1, StepsOf DEF AdminOK

-----------------------------------------------------------------------------
LEMMA CatalogInitInv == CatalogInit => CatalogInv
<1> SUFFICES ASSUME CatalogInit PROVE CatalogInv
  OBVIOUS
<1>1. \A a \in Admins : admin[a] = Resting
  BY DEF CatalogInit
<1>2. CatalogTypeOK
  BY <1>1, RestingOK DEF CatalogInit, CatalogTypeOK, CatalogRow
<1>3. NoneUnaccounted
  BY DEF CatalogInit, NoneUnaccounted, HeldParts
<1>4. PassedStoresAccounted
  BY <1>1, RestingOK DEF PassedStoresAccounted
<1> QED BY <1>2, <1>3, <1>4 DEF CatalogInv

(* An admin that begins an operation. *)
LEMMA BeginKeeps ==
    ASSUME CatalogInv, NEW a \in Admins, admin[a].op = "none",
           NEW op \in {"add", "delete", "active"}, NEW r \in Repos, NEW saved,
           op = "add" => saved \in CatalogRow,
           op = "delete" => row[r] # NoRepoRow,
           admin' = [admin EXCEPT ![a] = [op |-> op, repo |-> r, step |-> 1, saved |-> saved]],
           edits' = edits + 1, UNCHANGED <<row, data, passOf, left>>
    PROVE  CatalogInv'
<1> DEFINE w == [op |-> op, repo |-> r, step |-> 1, saved |-> saved]
<1>1. AdminOK(w) /\ w.op = op /\ w.repo = r /\ w.step = 1
  BY BeginAdmin
<1>2. CatalogTypeOK
  BY DEF CatalogInv
<1> HIDE DEF w
<1>3. /\ admin' = [b \in Admins |-> admin'[b]] /\ \A b \in Admins : AdminOK(admin'[b])
      /\ admin'[a] = w /\ \A b \in Admins : b # a => admin'[b] = admin[b]
  <2>1. admin' = [admin EXCEPT ![a] = w]
    BY DEF w
  <2> QED BY <1>1, <1>2, <2>1, AdminUpdate
<1>4. CatalogTypeOK'
  BY <1>2, <1>3 DEF CatalogTypeOK
<1>5. \A x \in Repos : Deleting(x) => Deleting(x)'
  BY <1>3 DEF Deleting
<1>6. NoneUnaccounted'
  BY <1>5 DEF CatalogInv, NoneUnaccounted, HeldParts
<1>7. PassedStoresAccounted'
  BY <1>1, <1>3 DEF CatalogInv, PassedStoresAccounted
<1> QED BY <1>4, <1>6, <1>7 DEF CatalogInv

(* A row that is written, or not deleted, while the data stay. *)
LEMMA RowsKeep ==
    ASSUME CatalogInv, row' \in [Repos -> CatalogRow],
           \A r \in Repos : row'[r] = NoRepoRow => row[r] = NoRepoRow,
           passOf' \in [Repos -> {"none", "running"}], UNCHANGED <<data, edits, left>>,
           \/ admin' = admin
           \/ \E a \in Admins : admin[a].op # "delete" /\ admin' = [admin EXCEPT ![a] = Resting]
    PROVE  CatalogInv'
<1>1. CatalogTypeOK
  BY DEF CatalogInv
<1>2. /\ admin' = [b \in Admins |-> admin'[b]] /\ \A b \in Admins : AdminOK(admin'[b])
      /\ \A b \in Admins : admin'[b] = admin[b]
                           \/ (admin[b].op # "delete" /\ admin'[b].op # "delete")
  <2>1. CASE admin' = admin
    BY <1>1, <2>1 DEF CatalogTypeOK
  <2>2. ASSUME NEW a \in Admins, admin[a].op # "delete", admin' = [admin EXCEPT ![a] = Resting]
        PROVE  /\ admin' = [b \in Admins |-> admin'[b]] /\ \A b \in Admins : AdminOK(admin'[b])
               /\ \A b \in Admins : admin'[b] = admin[b]
                                    \/ (admin[b].op # "delete" /\ admin'[b].op # "delete")
    BY <1>1, <2>2, AdminUpdate, RestingOK
  <2> QED BY <2>1, <2>2
<1>3. CatalogTypeOK'
  BY <1>1, <1>2 DEF CatalogTypeOK
<1>4. \A r \in Repos : Deleting(r) => Deleting(r)'
  BY <1>2 DEF Deleting
<1>5. NoneUnaccounted'
  BY <1>4 DEF CatalogInv, NoneUnaccounted, HeldParts
<1>6. PassedStoresAccounted'
  BY <1>2 DEF CatalogInv, PassedStoresAccounted
<1> QED BY <1>3, <1>5, <1>6 DEF CatalogInv

(* One step of a deletion. *)
LEMMA DeleteKeeps ==
    ASSUME CatalogInv, NEW a \in Admins, NEW ok \in BOOLEAN, DeleteStep(a, ok)
    PROVE  CatalogInv'
<1> DEFINE r == admin[a].repo
           s == admin[a].step
           what == DeleteSteps[s]
           next == OneFurther(admin[a])
<1>1. /\ CatalogTypeOK /\ admin[a].op = "delete" /\ r \in Repos /\ s \in 1 .. 6 /\ AdminOK(admin[a])
      /\ data \in [Repos -> SUBSET Stores] /\ row \in [Repos -> CatalogRow]
  BY StepsOf DEF CatalogInv, CatalogTypeOK, AdminOK, DeleteStep
<1>2. /\ passOf' = passOf /\ edits' = edits
      /\ admin' = [admin EXCEPT ![a] = IF s = 6 THEN Resting ELSE next]
  <2>1. admin' = [admin EXCEPT ![a] = IF admin[a].step = Len(DeleteSteps) THEN Resting
                                      ELSE OneFurther(admin[a])]
    BY Zenon DEF DeleteStep, OneFurther
  <2> QED BY <2>1, StepsOf DEF DeleteStep
<1>3. s # 6 => AdminOK(next) /\ next.op = "delete" /\ next.repo = r /\ next.step = s + 1
  BY <1>1, NextStep
<1>4. ASSUME s # 6 PROVE what # "row" /\ what \in Stores /\ s \in 1 .. 5
  BY <1>1, <1>4, StepsOf
<1>5. CASE s # 6
  <2>1. /\ row' = row /\ data' = [data EXCEPT ![r] = IF ok THEN @ \ {what} ELSE @]
        /\ left' = (IF ok THEN left \ {<<r, what>>} ELSE left \cup ({<<r, what>>} \cap HeldParts(r)))
    BY <1>4, <1>5 DEF DeleteStep
  <2>2. what \in Stores
    BY <1>4, <1>5
  <2> HIDE DEF next, what
  <2>3. /\ admin' = [b \in Admins |-> admin'[b]] /\ \A b \in Admins : AdminOK(admin'[b])
        /\ admin'[a] = next /\ \A b \in Admins : b # a => admin'[b] = admin[b]
    BY <1>1, <1>2, <1>3, <1>5, AdminUpdate
  <2>4. /\ data' \in [Repos -> SUBSET Stores]
        /\ \A x \in Repos : data'[x] \subseteq data[x] /\ (ok /\ x = r => what \notin data'[x])
    BY <1>1, <2>1, <2>2
  <2>5. left' \subseteq Repos \X Stores
    BY <1>1, <2>1, <2>2 DEF CatalogTypeOK
  <2>6. CatalogTypeOK'
    BY <1>1, <1>2, <2>1, <2>3, <2>4, <2>5 DEF CatalogTypeOK
  <2>7. ASSUME NEW x \in Repos, NEW k \in data'[x], <<x, k>> \in left PROVE <<x, k>> \in left'
    BY <2>1, <2>4, <2>7
  <2>8. \A x \in Repos : Deleting(x) => Deleting(x)'
    BY <1>1, <1>3, <1>5, <2>3 DEF Deleting
  <2>9. NoneUnaccounted'
    <3> SUFFICES ASSUME NEW x \in Repos, row[x] = NoRepoRow, ~Deleting(x), NEW k \in data'[x]
                 PROVE  <<x, k>> \in left'
      BY <2>1, <2>8 DEF NoneUnaccounted, HeldParts
    <3>1. <<x, k>> \in left
      BY <2>4 DEF CatalogInv, NoneUnaccounted, HeldParts
    <3> QED BY <2>7, <3>1
  <2>10. PassedStoresAccounted'
    <3> SUFFICES ASSUME NEW b \in Admins, admin'[b].op = "delete", NEW i \in 1 .. admin'[b].step - 1,
                        DeleteSteps[i] \in data'[admin'[b].repo]
                 PROVE  <<admin'[b].repo, DeleteSteps[i]>> \in left'
      BY DEF PassedStoresAccounted
    <3>1. admin'[b].repo \in Repos
      BY <2>3 DEF AdminOK
    <3>2. CASE b = a /\ i = s
      <4>1. admin'[b].repo = r /\ DeleteSteps[i] = what
        BY <1>3, <1>5, <2>3, <3>2 DEF what
      <4>2. what \in data'[r] /\ what \in data[r] /\ ~ok
        BY <1>1, <2>4, <4>1
      <4>3. <<r, what>> \in HeldParts(r)
        BY <4>2 DEF HeldParts
      <4> QED BY <2>1, <4>1, <4>2, <4>3
    <3>3. CASE ~(b = a /\ i = s)
      <4>1. /\ admin[b].op = "delete" /\ admin'[b].repo = admin[b].repo /\ i \in 1 .. admin[b].step - 1
        BY <1>1, <1>3, <1>5, <2>3, <3>3 DEF AdminOK
      <4>2. <<admin'[b].repo, DeleteSteps[i]>> \in left
        BY <2>4, <3>1, <4>1 DEF CatalogInv, PassedStoresAccounted
      <4> QED BY <2>7, <3>1, <4>2
    <3> QED BY <3>2, <3>3
  <2> QED BY <2>6, <2>9, <2>10 DEF CatalogInv
<1>6. CASE s = 6
  <2>1. /\ row' = [row EXCEPT ![r] = IF ok THEN NoRepoRow ELSE @] /\ data' = data /\ left' = left
    BY <1>6, StepsOf DEF DeleteStep
  <2>2. /\ admin' = [b \in Admins |-> admin'[b]] /\ \A b \in Admins : AdminOK(admin'[b])
        /\ admin'[a] = Resting /\ \A b \in Admins : b # a => admin'[b] = admin[b]
    BY <1>1, <1>2, <1>6, AdminUpdate, RestingOK
  <2>3. CatalogTypeOK'
    BY <1>1, <1>2, <2>1, <2>2 DEF CatalogTypeOK, CatalogRow
  <2>4. PassedStoresAccounted'
    BY <2>1, <2>2, RestingOK DEF CatalogInv, PassedStoresAccounted
  <2>5. HeldParts(r) \subseteq left
    <3> SUFFICES ASSUME NEW k \in data[r] PROVE <<r, k>> \in left
      BY DEF HeldParts
    <3>1. PICK i \in 1 .. 5 : DeleteSteps[i] = k
      BY <1>1, StepsOf
    <3> QED BY <1>1, <1>6, <3>1 DEF CatalogInv, PassedStoresAccounted
  <2>6. \A x \in Repos : x # r => row'[x] = row[x] /\ (Deleting(x) => Deleting(x)')
    BY <1>1, <2>1, <2>2 DEF Deleting
  <2>7. NoneUnaccounted'
    BY <2>1, <2>5, <2>6 DEF CatalogInv, NoneUnaccounted, HeldParts
  <2> QED BY <2>3, <2>4, <2>7 DEF CatalogInv
<1> QED BY <1>5, <1>6

LEMMA CatalogStep ==
    ASSUME CatalogInv, [CatalogNext]_catalogVars
    PROVE  CatalogInv'
<1>1. /\ CatalogTypeOK /\ row \in [Repos -> CatalogRow] /\ \A r \in Repos : row[r] \in CatalogRow
      /\ Indexed \subseteq Repos
  BY CatalogAssumption DEF CatalogInv, CatalogTypeOK
<1>2. ASSUME NEW a \in Admins, NEW r \in Repos, NEW on \in BOOLEAN,
             DeleteRepoReads(a, r) \/ AddRepoReads(a, r) \/ SetRepoActiveReads(a, r, on)
      PROVE  CatalogInv'
  BY <1>1, <1>2, BeginKeeps DEF DeleteRepoReads, AddRepoReads, SetRepoActiveReads, Begin
<1>3. ASSUME NEW a \in Admins, AddRepoStores(a) PROVE CatalogInv'
  <2> DEFINE r == admin[a].repo
             new == StoreRepo(r, admin[a].saved)
  <2>1. admin[a].op = "add" /\ r \in Repos /\ admin[a].saved \in CatalogRow
    BY <1>1, <1>3 DEF AddRepoStores, CatalogTypeOK, AdminOK
  <2>2. new \in CatalogRow /\ new # NoRepoRow
    BY <1>1, <2>1, StoreRepoRow
  <2>3. /\ row' = [row EXCEPT ![r] = new] /\ admin' = [admin EXCEPT ![a] = Resting]
        /\ UNCHANGED <<data, passOf, edits, left>>
    BY <1>3 DEF AddRepoStores
  <2> HIDE DEF new, r
  <2>4. row' \in [Repos -> CatalogRow] /\ \A x \in Repos : row'[x] = NoRepoRow => row[x] = NoRepoRow
    BY <1>1, <2>2, <2>3
  <2> QED BY <1>1, <2>1, <2>3, <2>4, RowsKeep DEF CatalogTypeOK
<1>4. ASSUME NEW a \in Admins, SetActiveRepos(a) PROVE CatalogInv'
  <2>1. row' \in [Repos -> CatalogRow] /\ \A x \in Repos : row'[x] = NoRepoRow => row[x] = NoRepoRow
    <3> DEFINE on(x) == x \in admin[a].saved
    <3>1. \A x \in Repos : on(x) \in BOOLEAN
      OBVIOUS
    <3>2. row' = [x \in Repos |-> IF row[x] = NoRepoRow THEN NoRepoRow ELSE WithActive(row[x], on(x))]
      BY <1>4 DEF SetActiveRepos, WithActive
    <3> HIDE DEF on
    <3> QED BY <1>1, <3>1, <3>2, ActiveWrites DEF CatalogRow
  <2> QED BY <1>1, <1>4, <2>1, RowsKeep DEF SetActiveRepos, CatalogTypeOK
<1>5. ASSUME NEW r \in Indexed, ResetRepo(r) \/ PassClaims(r) PROVE CatalogInv'
  <2>1. row[r] # NoRepoRow /\ r \in Repos
    BY <1>1, <1>5, RowFields DEF ResetRepo, PassClaims
  <2>2. \E st \in {"idle", "indexing"} : row' = [row EXCEPT ![r] = WithStatus(row[r], st)]
    BY <1>5 DEF ResetRepo, PassClaims, WithStatus
  <2>3. PICK new \in CatalogRow : new # NoRepoRow /\ row' = [row EXCEPT ![r] = new]
    <3>1. PICK st \in {"idle", "indexing"} : row' = [row EXCEPT ![r] = WithStatus(row[r], st)]
      BY <2>2
    <3>2. WithStatus(row[r], st) \in CatalogRow /\ WithStatus(row[r], st) # NoRepoRow
      BY <1>1, <2>1, StatusWrites
    <3> QED BY <3>1, <3>2
  <2>5. row' \in [Repos -> CatalogRow] /\ \A x \in Repos : row'[x] = NoRepoRow => row[x] = NoRepoRow
    BY <1>1, <2>3
  <2>4. /\ passOf' \in [Repos -> {"none", "running"}] /\ admin' = admin
        /\ UNCHANGED <<data, edits, left>>
    BY <1>1, <1>5 DEF ResetRepo, PassClaims, CatalogTypeOK
  <2> QED BY <2>4, <2>5, RowsKeep
<1>6. ASSUME NEW r \in Indexed, PassEnds(r) PROVE CatalogInv'
  <2> DEFINE new == AfterPass(row[r])
  <2>1. row' = [row EXCEPT ![r] = IF row[r] = NoRepoRow THEN NoRepoRow ELSE new] /\ r \in Repos
    BY <1>1, <1>6 DEF PassEnds, AfterPass
  <2>2. row[r] # NoRepoRow => new \in CatalogRow /\ new # NoRepoRow
    BY <1>1, <2>1, PassEndWrites
  <2> HIDE DEF new
  <2>3. row' \in [Repos -> CatalogRow] /\ \A x \in Repos : row'[x] = NoRepoRow => row[x] = NoRepoRow
    BY <1>1, <2>1, <2>2
  <2>4. /\ passOf' \in [Repos -> {"none", "running"}] /\ admin' = admin
        /\ UNCHANGED <<data, edits, left>>
    BY <1>1, <1>6 DEF PassEnds, CatalogTypeOK
  <2> QED BY <2>3, <2>4, RowsKeep
<1>7. ASSUME NEW r \in Indexed, NEW k \in Stores, PassWrites(r, k) PROVE CatalogInv'
  <2>1. /\ data' = [data EXCEPT ![r] = @ \cup {k}] /\ r \in Repos
        /\ left' = (IF Deleting(r) \/ row[r] = NoRepoRow THEN left \cup {<<r, k>>} ELSE left)
        /\ UNCHANGED <<row, admin, passOf, edits>>
    BY <1>1, <1>7 DEF PassWrites
  <2>2. CatalogTypeOK'
    BY <1>1, <2>1 DEF CatalogTypeOK
  <2>3. /\ \A x \in Repos : data'[x] \subseteq data[x] \cup (IF x = r THEN {k} ELSE {})
        /\ left \subseteq left'
    BY <1>1, <2>1 DEF CatalogTypeOK
  <2>4. \A x \in Repos : Deleting(x)' = Deleting(x)
    BY <2>1 DEF Deleting
  <2>5. NoneUnaccounted'
    <3> SUFFICES ASSUME NEW x \in Repos, row[x] = NoRepoRow, ~Deleting(x), NEW j \in data'[x]
                 PROVE  <<x, j>> \in left'
      BY <2>1, <2>4 DEF NoneUnaccounted, HeldParts
    <3> QED BY <2>1, <2>3 DEF CatalogInv, NoneUnaccounted, HeldParts
  <2>6. PassedStoresAccounted'
    <3> SUFFICES ASSUME NEW b \in Admins, admin[b].op = "delete", NEW i \in 1 .. admin[b].step - 1,
                        DeleteSteps[i] \in data'[admin[b].repo]
                 PROVE  <<admin[b].repo, DeleteSteps[i]>> \in left'
      BY <2>1 DEF PassedStoresAccounted
    <3>1. admin[b].repo \in Repos /\ Deleting(admin[b].repo)
      BY <1>1 DEF CatalogTypeOK, AdminOK, Deleting
    <3> QED BY <2>1, <2>3, <3>1 DEF CatalogInv, PassedStoresAccounted
  <2> QED BY <2>2, <2>5, <2>6 DEF CatalogInv
<1>8. CASE UNCHANGED catalogVars
  BY <1>8 DEF catalogVars, CatalogInv, CatalogTypeOK, NoneUnaccounted, PassedStoresAccounted, Deleting,
      HeldParts
<1> QED BY <1>1, <1>2, <1>3, <1>4, <1>5, <1>6, <1>7, <1>8, DeleteKeeps DEF CatalogNext

(***************************************************************************)
(* Whatever a deletion leaves of a repository is the work of a pass that   *)
(* ran under it or of a step that failed, with any number of overlapping   *)
(* deletions, registrations and passes.                                    *)
(***************************************************************************)
THEOREM LeftoversAccounted == CatalogSpec => []OrphansAccounted
<1>1. CatalogInv => OrphansAccounted
  BY DEF CatalogInv, NoneUnaccounted, OrphansAccounted, HeldParts
<1> QED BY <1>1, CatalogInitInv, CatalogStep, PTL DEF CatalogSpec

(***************************************************************************)
(* No interleaving of edits of the working set, registrations, deletions   *)
(* and passes lets a search find nothing active unless an edit asked for   *)
(* that or the registered repositories changed.                            *)
(***************************************************************************)
THEOREM WorkingSetKept == CatalogSpec => NeverEmptiedByAnEdit
<1> DEFINE Asked == \/ \E a \in Admins : admin[a].op = "active" /\ admin[a].saved \cap Registered = {}
                    \/ Registered' # Registered
           Emptied == retrievalScope # "nothing" /\ retrievalScope' = "nothing"
<1>1. ASSUME CatalogInv, [CatalogNext]_catalogVars, Emptied, Registered' = Registered
      PROVE  \E a \in Admins : admin[a].op = "active" /\ admin[a].saved \cap Registered = {}
  <2>1. /\ row \in [Repos -> CatalogRow] /\ \A r \in Repos : row[r] \in CatalogRow /\ row[r].active \in BOOLEAN
        /\ CatalogTypeOK /\ Indexed \subseteq Repos
    BY <1>1, RowFields, CatalogAssumption DEF CatalogInv, CatalogTypeOK
  <2>2. PICK r \in Repos : row[r] # NoRepoRow /\ row[r].active
    BY <1>1 DEF retrievalScope, Active, Registered
  <2>3. \A x \in Repos : row'[x] # NoRepoRow => ~row'[x].active
    BY <1>1 DEF retrievalScope, Active, Registered
  <2>4. row'[r] # NoRepoRow
    BY <1>1, <2>2 DEF Registered
  <2>5. row'[r] # row[r]
    BY <2>2, <2>3, <2>4
  <2>6. ASSUME NEW a \in Admins, SetActiveRepos(a) PROVE admin[a].saved \cap Registered = {}
    <3> SUFFICES ASSUME NEW x \in Repos, row[x] # NoRepoRow, x \in admin[a].saved PROVE FALSE
      BY DEF Registered
    <3>1. row'[x] = WithActive(row[x], TRUE)
      <4> DEFINE on(y) == y \in admin[a].saved
      <4>1. row' = [y \in Repos |-> IF row[y] = NoRepoRow THEN NoRepoRow ELSE WithActive(row[y], on(y))]
        BY <2>6 DEF SetActiveRepos, WithActive
      <4>2. on(x) = TRUE
        OBVIOUS
      <4> HIDE DEF on
      <4> QED BY <4>1, <4>2
    <3>2. WithActive(row[x], TRUE) # NoRepoRow /\ WithActive(row[x], TRUE).active = TRUE
      BY <2>1, ActiveWrites
    <3>3. row'[x] # NoRepoRow /\ row'[x].active = TRUE
      BY <3>1, <3>2
    <3> QED BY <2>3, <3>3
  <2>7. ASSUME NEW a \in Admins, AddRepoStores(a) PROVE FALSE
    <3>1. admin[a].repo \in Repos /\ admin[a].saved \in CatalogRow
      BY <2>1, <2>7 DEF AddRepoStores, CatalogTypeOK, AdminOK
    <3> QED BY <2>1, <2>2, <2>5, <2>7, <3>1, StoreRepoRow DEF AddRepoStores
  <2>8. ASSUME NEW x \in Indexed, ResetRepo(x) \/ PassClaims(x) PROVE FALSE
    <3>1. \E st \in {"idle", "indexing"} : row' = [row EXCEPT ![x] = WithStatus(row[x], st)]
      BY <2>8 DEF ResetRepo, PassClaims, WithStatus
    <3>2. PICK st \in {"idle", "indexing"} : row' = [row EXCEPT ![x] = WithStatus(row[x], st)]
      BY <3>1
    <3>3. x = r
      BY <2>1, <2>5, <3>2
    <3>4. row'[r] = WithStatus(row[r], st)
      BY <2>1, <3>2, <3>3
    <3>5. row'[r].active = row[r].active
      <4>1. WithStatus(row[r], st).active = row[r].active
        BY <2>1, <2>2, StatusWrites
      <4> QED BY <3>4, <4>1
    <3> QED BY <2>2, <2>3, <2>4, <3>5
  <2>9. ASSUME NEW x \in Indexed, PassEnds(x) PROVE FALSE
    <3> DEFINE new == AfterPass(row[x])
    <3>1. row' = [row EXCEPT ![x] = IF row[x] = NoRepoRow THEN NoRepoRow ELSE new]
      BY <2>9 DEF PassEnds, AfterPass
    <3>2. x = r => new.active = row[r].active
      BY <2>1, <2>2, PassEndWrites
    <3> HIDE DEF new
    <3>3. x = r
      BY <2>1, <2>5, <3>1
    <3>4. row'[r] = new
      BY <2>1, <2>2, <3>1, <3>3
    <3> QED BY <2>2, <2>3, <2>4, <3>2, <3>3, <3>4
  <2>10. ASSUME NEW a \in Admins, NEW ok \in BOOLEAN, DeleteStep(a, ok) PROVE FALSE
    <3>1. row' = row \/ row' = [row EXCEPT ![admin[a].repo] = IF ok THEN NoRepoRow ELSE @]
      BY <2>10 DEF DeleteStep
    <3> QED BY <2>1, <2>4, <2>5, <3>1
  <2>11. ASSUME \/ \E a \in Admins, x \in Repos : \/ DeleteRepoReads(a, x) \/ AddRepoReads(a, x)
                                                  \/ \E on \in BOOLEAN : SetRepoActiveReads(a, x, on)
                \/ \E x \in Indexed, k \in Stores : PassWrites(x, k)
                \/ UNCHANGED catalogVars
         PROVE  FALSE
    BY <2>5, <2>11 DEF DeleteRepoReads, AddRepoReads, SetRepoActiveReads, PassWrites, catalogVars
  <2>12. PICK a \in Admins : SetActiveRepos(a)
    BY <1>1, <2>1, <2>7, <2>8, <2>9, <2>10, <2>11 DEF CatalogNext
  <2> QED BY <2>6, <2>12 DEF SetActiveRepos
<1>2. CatalogInv /\ [CatalogNext]_catalogVars => [Emptied => Asked]_catalogVars
  BY <1>1
<1> QED BY <1>2, CatalogInitInv, CatalogStep, PTL DEF CatalogSpec, NeverEmptiedByAnEdit

-----------------------------------------------------------------------------
(* The clones on disk. *)

LEMMA GotoRequest ==
    ASSUME ClonesTypeOK, NEW q \in Requesters, NEW op \in {"cloned", "placed", "tracked", "unrow"},
           Goto(q, op)
    PROVE  /\ request' \in [Requesters -> CloneRequest]
           /\ request'[q].op = op /\ request'[q].repo = request[q].repo
           /\ \A x \in Requesters : x # q => request'[x] = request[x]
<1> DEFINE new == [request[q] EXCEPT !.op = op]
<1>1. request[q] \in CloneRequest /\ request \in [Requesters -> CloneRequest]
  BY DEF ClonesTypeOK
<1>2. new \in CloneRequest /\ new.op = op /\ new.repo = request[q].repo
  BY <1>1 DEF CloneRequest
<1>3. request' = [request EXCEPT ![q] = new]
  BY DEF Goto
<1> HIDE DEF new
<1> QED BY <1>1, <1>2, <1>3

LEMMA RequestIs ==
    ASSUME ClonesTypeOK, NEW q \in Requesters, NEW new \in CloneRequest,
           request' = [request EXCEPT ![q] = new]
    PROVE  /\ request' \in [Requesters -> CloneRequest]
           /\ request'[q].op = new.op /\ request'[q].repo = new.repo
           /\ \A x \in Requesters : x # q => request'[x] = request[x]
  BY DEF ClonesTypeOK

LEMMA NoRequestIs == NoRequest \in CloneRequest /\ NoRequest.op = "none"
<1>1. (CHOOSE r \in CloneRepos : TRUE) \in CloneRepos
  BY GitClonesAssumption
<1> QED BY <1>1 DEF NoRequest, CloneRequest

LEMMA RequestOf ==
    ASSUME ClonesTypeOK, NEW q \in Requesters
    PROVE  /\ request[q] \in CloneRequest /\ request[q].repo \in CloneRepos
           /\ DirOf[request[q].repo] \in CloneDirs
           /\ request[q].repo # "none" /\ request[q].repo # "partial"
  BY GitClonesAssumption DEF ClonesTypeOK, CloneRequest, CloneDirs

LEMMA ClonesInitInv == ClonesInit => ClonesInv
<1> SUFFICES ASSUME ClonesInit PROVE ClonesInv
  OBVIOUS
<1>1. \A q \in Requesters : request[q] = NoRequest
  BY DEF ClonesInit
<1>2. \A d \in CloneDirs : disk[d] = "none" /\ disk[d] \notin CloneRepos
  BY GitClonesAssumption DEF ClonesInit
<1> QED BY <1>1, <1>2, NoRequestIs DEF ClonesInit, ClonesInv, ClonesTypeOK, ClonesInPlace, ClonesTracked,
           ClonesAccounted, At

(* A request that begins, or goes on without touching a clone or a row. *)
LEMMA RequestMoves ==
    ASSUME ClonesInv, NEW q \in Requesters, ops' \in Nat, UNCHANGED <<disk, tracked, repoRows, stranded, torn>>,
           request' \in [Requesters -> CloneRequest],
           \A x \in Requesters : x # q => request'[x] = request[x],
           request[q].op \in {"none", "clone", "cloned"}, request'[q].op # "placed"
    PROVE  ClonesInv'
<1>1. ClonesTypeOK' /\ ClonesInPlace'
  BY DEF ClonesInv, ClonesTypeOK, ClonesInPlace
<1>2. ClonesTracked'
  BY DEF ClonesInv, ClonesTracked, At
<1>3. ClonesAccounted'
  <2> SUFFICES ASSUME NEW d \in CloneDirs, disk[d] \in CloneRepos, d \notin stranded, disk[d] \notin repoRows
               PROVE  \E x \in Requesters : /\ request'[x].op \in {"placed", "tracked", "remove", "unrow"}
                                            /\ request'[x].repo = disk[d]
    BY DEF ClonesAccounted
  <2>1. PICK x \in Requesters : /\ request[x].op \in {"placed", "tracked", "remove", "unrow"}
                                /\ request[x].repo = disk[d]
    BY DEF ClonesInv, ClonesAccounted
  <2>2. x # q
    BY <2>1
  <2> QED BY <2>1, <2>2
<1> QED BY <1>1, <1>2, <1>3 DEF ClonesInv

LEMMA PlacedKeeps ==
    ASSUME ClonesInv, NEW q \in Requesters, RenameIntoPlace(q)
    PROVE  ClonesInv'
<1> DEFINE r == request[q].repo
           d == DirOf[r]
<1>1. /\ ClonesTypeOK /\ r \in CloneRepos /\ d \in CloneDirs /\ r # "none" /\ r # "partial"
      /\ request[q].op = "cloned"
      /\ disk \in [CloneDirs -> CloneRepos \cup {"none", "partial"}]
      /\ UNCHANGED <<tracked, repoRows, stranded, torn, ops>>
  BY RequestOf DEF ClonesInv, ClonesTypeOK, RenameIntoPlace, At
<1>2. CASE disk[d] # "none"
  <2>1. request' = [request EXCEPT ![q] = NoRequest] /\ disk' = disk
    BY <1>2 DEF RenameIntoPlace, Ends
  <2>2. /\ request' \in [Requesters -> CloneRequest] /\ request'[q].op = "none"
        /\ \A x \in Requesters : x # q => request'[x] = request[x]
    BY <1>1, <2>1, NoRequestIs, RequestIs
  <2>3. ops' \in Nat
    BY <1>1 DEF ClonesTypeOK
  <2> QED BY <1>1, <2>1, <2>2, <2>3, RequestMoves
<1>3. CASE disk[d] = "none"
  <2>1. disk' = [disk EXCEPT ![d] = r] /\ Goto(q, "placed")
    BY <1>3 DEF RenameIntoPlace
  <2>2. /\ request' \in [Requesters -> CloneRequest] /\ request'[q].op = "placed" /\ request'[q].repo = r
        /\ \A x \in Requesters : x # q => request'[x] = request[x]
    BY <1>1, <2>1, GotoRequest
  <2>3. /\ disk' \in [CloneDirs -> CloneRepos \cup {"none", "partial"}] /\ disk'[d] = r
        /\ \A e \in CloneDirs : e # d => disk'[e] = disk[e]
    BY <1>1, <2>1
  <2>4. ClonesTypeOK'
    BY <1>1, <2>2, <2>3 DEF ClonesTypeOK
  <2>5. ClonesInPlace'
    BY <1>1, <1>3, <2>3 DEF ClonesInv, ClonesInPlace
  <2>6. \A t \in CloneRepos : disk[DirOf[t]] = t => DirOf[t] # d
    BY <1>3, GitClonesAssumption
  <2>7. ClonesTracked'
    <3>0. \A t \in tracked : DirOf[t] # d
      BY <1>1, <1>3, <2>6 DEF ClonesInv, ClonesTracked, ClonesInPlace, ClonesTypeOK
    <3>1. \A t \in tracked : disk'[DirOf[t]] = t \/ DirOf[t] \in torn
      BY <1>1, <2>3, <3>0 DEF ClonesInv, ClonesTracked, ClonesTypeOK, CloneDirs
    <3>2. r \notin tracked
      BY <3>0
    <3>3. ASSUME NEW x \in Requesters, x # q, request'[x].op = "placed"
          PROVE  /\ disk'[DirOf[request'[x].repo]] = request'[x].repo
                 /\ request'[x].repo \notin tracked /\ request'[x].repo # r
      <4>1. /\ request'[x] = request[x] /\ disk[DirOf[request[x].repo]] = request[x].repo
            /\ request[x].repo \notin tracked /\ request[x].repo \in CloneRepos
            /\ DirOf[request[x].repo] \in CloneDirs
        BY <1>1, <2>2, <3>3, RequestOf DEF ClonesInv, ClonesTracked, At
      <4> QED BY <2>3, <2>6, <4>1
    <3>4. ASSUME NEW x \in Requesters, NEW y \in Requesters, request'[x].op = "placed",
                 request'[y].op = "placed", request'[y].repo = request'[x].repo
          PROVE  y = x
      BY <2>2, <3>3, <3>4 DEF ClonesInv, ClonesTracked, At
    <3>5. \A x \in Requesters : request'[x].op = "placed" =>
             disk'[DirOf[request'[x].repo]] = request'[x].repo /\ request'[x].repo \notin tracked
      BY <2>2, <2>3, <3>2, <3>3
    <3> QED BY <1>1, <3>1, <3>4, <3>5 DEF ClonesInv, ClonesTracked, At
  <2>8. ClonesAccounted'
    <3> SUFFICES ASSUME NEW e \in CloneDirs, disk'[e] \in CloneRepos, e \notin stranded, disk'[e] \notin repoRows
                 PROVE  \E x \in Requesters : /\ request'[x].op \in {"placed", "tracked", "remove", "unrow"}
                                              /\ request'[x].repo = disk'[e]
      BY <1>1 DEF ClonesAccounted
    <3>1. CASE e = d
      BY <2>2, <2>3, <3>1
    <3>2. CASE e # d
      <4>1. PICK x \in Requesters : /\ request[x].op \in {"placed", "tracked", "remove", "unrow"}
                                    /\ request[x].repo = disk[e]
        BY <2>3, <3>2 DEF ClonesInv, ClonesAccounted
      <4>2. x # q
        BY <1>1, <4>1
      <4> QED BY <2>2, <2>3, <3>2, <4>1, <4>2
    <3> QED BY <3>1, <3>2
  <2> QED BY <2>4, <2>5, <2>7, <2>8 DEF ClonesInv
<1> QED BY <1>2, <1>3

(* Remembering a clone, storing its row, and reading a row to delete it. *)
LEMMA TrackKeeps ==
    ASSUME ClonesInv, NEW q \in Requesters, Track(q)
    PROVE  ClonesInv'
<1> DEFINE r == request[q].repo
<1>1. /\ ClonesTypeOK /\ r \in CloneRepos /\ request[q].op = "placed" /\ disk[DirOf[r]] = r
      /\ tracked' = tracked \cup {r} /\ UNCHANGED <<disk, repoRows, stranded, torn, ops>> /\ Goto(q, "tracked")
  BY RequestOf DEF ClonesInv, ClonesTracked, Track, At
<1>2. /\ request' \in [Requesters -> CloneRequest] /\ request'[q].op = "tracked" /\ request'[q].repo = r
      /\ \A x \in Requesters : x # q => request'[x] = request[x]
  BY <1>1, GotoRequest
<1>3. ClonesTypeOK' /\ ClonesInPlace'
  BY <1>1, <1>2 DEF ClonesInv, ClonesTypeOK, ClonesInPlace
<1>4. ClonesTracked'
  <2>1. \A s \in tracked : DirOf[s] = DirOf[r] => s = r
    BY <1>1, RequestOf DEF ClonesInv, ClonesTracked, ClonesInPlace
  <2> QED BY <1>1, <1>2, <2>1 DEF ClonesInv, ClonesTracked, At
<1>5. ClonesAccounted'
  BY <1>1, <1>2 DEF ClonesInv, ClonesAccounted
<1> QED BY <1>3, <1>4, <1>5 DEF ClonesInv

LEMMA StoreKeeps ==
    ASSUME ClonesInv, NEW q \in Requesters, NEW ok \in BOOLEAN, StoreRow(q, ok)
    PROVE  ClonesInv'
<1> DEFINE r == request[q].repo
<1>1. /\ ClonesTypeOK /\ r \in CloneRepos /\ DirOf[r] \in CloneDirs
      /\ request' = [request EXCEPT ![q] = NoRequest] /\ UNCHANGED <<disk, tracked, torn, ops>>
      /\ repoRows' = (IF ok THEN repoRows \cup {r} ELSE repoRows)
      /\ stranded' = (IF ok THEN stranded ELSE stranded \cup {DirOf[r]})
  BY RequestOf DEF ClonesInv, StoreRow, At, Ends
<1>2. /\ request' \in [Requesters -> CloneRequest] /\ request'[q].op = "none"
      /\ \A x \in Requesters : x # q => request'[x] = request[x]
  BY <1>1, NoRequestIs, RequestIs
<1>3. ClonesTypeOK' /\ ClonesInPlace'
  BY <1>1, <1>2 DEF ClonesInv, ClonesTypeOK, ClonesInPlace
<1>4. ClonesTracked'
  BY <1>1, <1>2 DEF ClonesInv, ClonesTracked, At
<1>5. ClonesAccounted'
  <2> SUFFICES ASSUME NEW d \in CloneDirs, disk[d] \in CloneRepos, d \notin stranded', disk[d] \notin repoRows'
               PROVE  \E x \in Requesters : /\ request'[x].op \in {"placed", "tracked", "remove", "unrow"}
                                            /\ request'[x].repo = disk[d]
    BY <1>1 DEF ClonesAccounted
  <2>1. PICK x \in Requesters : /\ request[x].op \in {"placed", "tracked", "remove", "unrow"}
                                /\ request[x].repo = disk[d]
    BY <1>1 DEF ClonesInv, ClonesAccounted
  <2>2. x # q
    BY <1>1, <2>1 DEF ClonesInv, ClonesInPlace
  <2> QED BY <1>2, <2>1, <2>2
<1> QED BY <1>3, <1>4, <1>5 DEF ClonesInv

LEMMA RemoveKeeps ==
    ASSUME ClonesInv, NEW q \in Requesters, RemoveClone(q)
    PROVE  ClonesInv'
<1> DEFINE r == request[q].repo
           d == DirOf[r]
<1>1. /\ ClonesTypeOK /\ r \in CloneRepos /\ d \in CloneDirs /\ request[q].op = "remove"
      /\ r # "none" /\ r # "partial"
      /\ disk \in [CloneDirs -> CloneRepos \cup {"none", "partial"}] /\ Goto(q, "unrow")
      /\ UNCHANGED <<repoRows, ops>>
  BY RequestOf DEF ClonesInv, ClonesTypeOK, RemoveClone, At
<1>2. /\ request' \in [Requesters -> CloneRequest] /\ request'[q].op = "unrow" /\ request'[q].repo = r
      /\ \A x \in Requesters : x # q => request'[x] = request[x]
  BY <1>1, GotoRequest
<1>3. ASSUME NEW e \in CloneDirs, disk[e] \in CloneRepos, e \notin stranded, disk[e] \notin repoRows
      PROVE  \E x \in Requesters : /\ request'[x].op \in {"placed", "tracked", "remove", "unrow"}
                                   /\ request'[x].repo = disk[e]
  <2>1. PICK x \in Requesters : /\ request[x].op \in {"placed", "tracked", "remove", "unrow"}
                                /\ request[x].repo = disk[e]
    BY <1>3 DEF ClonesInv, ClonesAccounted
  <2> QED BY <1>2, <2>1
<1>4. \A x \in Requesters : request'[x].op = "placed" => request'[x] = request[x]
  BY <1>2
<1>5. CASE UNCHANGED <<disk, tracked, torn>> /\ stranded \subseteq stranded' /\ stranded' \subseteq CloneDirs
  <2>1. ClonesTypeOK' /\ ClonesInPlace'
    BY <1>1, <1>2, <1>5 DEF ClonesInv, ClonesTypeOK, ClonesInPlace
  <2>2. ClonesTracked'
    BY <1>1, <1>2, <1>5 DEF ClonesInv, ClonesTracked, At
  <2>3. ClonesAccounted'
    BY <1>1, <1>3, <1>5 DEF ClonesAccounted
  <2> QED BY <2>1, <2>2, <2>3 DEF ClonesInv
<1>6. ASSUME r \in tracked, NEW remains \in {"none", "partial"}, disk' = [disk EXCEPT ![d] = remains],
             tracked' = (IF remains = "none" THEN tracked \ {r} ELSE tracked),
             torn' = (IF remains = "none" THEN torn \ {d} ELSE torn \cup {d}),
             stranded' \subseteq stranded, stranded \ {d} \subseteq stranded'
      PROVE  ClonesInv'
  <2>1. /\ disk' \in [CloneDirs -> CloneRepos \cup {"none", "partial"}] /\ disk'[d] = remains
        /\ \A e \in CloneDirs : e # d => disk'[e] = disk[e]
    BY <1>1, <1>6
  <2>2. "none" \notin CloneRepos /\ "partial" \notin CloneRepos /\ remains \notin CloneRepos
    BY GitClonesAssumption
  <2>3. ClonesTypeOK'
    BY <1>1, <1>2, <1>6, <2>1 DEF ClonesInv, ClonesTypeOK
  <2>4. ClonesInPlace'
    <3>1. \A e \in CloneDirs : e # d => (e \in torn' <=> e \in torn)
      BY <1>6
    <3>2. remains = "partial" <=> d \in torn'
      BY <1>6
    <3> QED BY <2>1, <2>2, <3>1, <3>2 DEF ClonesInv, ClonesInPlace
  <2>5. /\ tracked' \subseteq tracked /\ tracked \subseteq CloneRepos
        /\ \A t \in tracked : t # r => DirOf[t] # d /\ DirOf[t] \in CloneDirs
    BY <1>1, <1>6 DEF ClonesInv, ClonesTracked, ClonesTypeOK, CloneDirs
  <2>6. ClonesTracked'
    <3>1. \A t \in tracked' : disk'[DirOf[t]] = t \/ DirOf[t] \in torn'
      BY <1>6, <2>1, <2>5 DEF ClonesInv, ClonesTracked
    <3>2. ASSUME NEW x \in Requesters, request'[x].op = "placed"
          PROVE  DirOf[request[x].repo] # d /\ request[x].repo \notin tracked
                 /\ disk[DirOf[request[x].repo]] = request[x].repo
                 /\ DirOf[request[x].repo] \in CloneDirs
      <4>1. /\ disk[DirOf[request[x].repo]] = request[x].repo /\ request[x].repo \notin tracked
            /\ request[x].repo # "partial" /\ DirOf[request[x].repo] \in CloneDirs
        BY <1>1, <1>4, <3>2, RequestOf DEF ClonesInv, ClonesTracked, At
      <4>2. disk[d] = r \/ disk[d] = "partial"
        BY <1>1, <1>6 DEF ClonesInv, ClonesTracked, ClonesInPlace
      <4> QED BY <1>6, <4>1, <4>2
    <3>3. \A x \in Requesters : request'[x].op = "placed" =>
             disk'[DirOf[request'[x].repo]] = request'[x].repo /\ request'[x].repo \notin tracked'
      BY <1>4, <2>1, <2>5, <3>2
    <3> QED BY <1>4, <2>5, <3>1, <3>3 DEF ClonesInv, ClonesTracked, At
  <2>7. ClonesAccounted'
    <3> SUFFICES ASSUME NEW e \in CloneDirs, disk'[e] \in CloneRepos, e \notin stranded', disk'[e] \notin repoRows
                 PROVE  \E x \in Requesters : /\ request'[x].op \in {"placed", "tracked", "remove", "unrow"}
                                              /\ request'[x].repo = disk'[e]
      BY <1>1 DEF ClonesAccounted
    <3>1. e # d /\ disk'[e] = disk[e] /\ e \notin stranded
      BY <1>6, <2>1, <2>2
    <3> QED BY <1>3, <3>1
  <2> QED BY <2>3, <2>4, <2>6, <2>7 DEF ClonesInv
<1>7. CASE r \notin tracked
  <2>1. stranded' \subseteq CloneDirs /\ stranded \subseteq stranded' /\ UNCHANGED <<disk, tracked, torn>>
    BY <1>1, <1>7 DEF RemoveClone, ClonesTypeOK
  <2> QED BY <1>5, <2>1
<1>8. CASE r \in tracked /\ Removed(r, d)
  BY <1>6, <1>8 DEF Removed
<1>9. CASE r \in tracked /\ RemovalFailed(d)
  <2>1. CASE UNCHANGED <<disk, torn>>
    BY <1>1, <1>5, <1>9, <2>1 DEF RemovalFailed, ClonesTypeOK
  <2>2. CASE disk' = [disk EXCEPT ![d] = "partial"] /\ torn' = torn \cup {d}
    BY <1>6, <1>9, <2>2 DEF RemovalFailed
  <2> QED BY <1>9, <2>1, <2>2 DEF RemovalFailed
<1> QED BY <1>7, <1>8, <1>9 DEF RemoveClone

LEMMA UnrowKeeps ==
    ASSUME ClonesInv, NEW q \in Requesters, NEW ok \in BOOLEAN, DeleteRow(q, ok)
    PROVE  ClonesInv'
<1> DEFINE r == request[q].repo
           d == DirOf[r]
<1>1. /\ ClonesTypeOK /\ r \in CloneRepos /\ d \in CloneDirs
      /\ request' = [request EXCEPT ![q] = NoRequest] /\ UNCHANGED <<disk, tracked, torn, ops>>
      /\ repoRows' = (IF ok THEN repoRows \ {r} ELSE repoRows)
      /\ stranded' = (IF disk[d] = r /\ r \notin repoRows' THEN stranded \cup {d} ELSE stranded)
  BY RequestOf DEF ClonesInv, DeleteRow, At, Ends
<1>2. /\ request' \in [Requesters -> CloneRequest] /\ request'[q].op = "none"
      /\ \A x \in Requesters : x # q => request'[x] = request[x]
  BY <1>1, NoRequestIs, RequestIs
<1>3. ClonesTypeOK' /\ ClonesInPlace'
  BY <1>1, <1>2 DEF ClonesInv, ClonesTypeOK, ClonesInPlace
<1>4. ClonesTracked'
  BY <1>1, <1>2 DEF ClonesInv, ClonesTracked, At
<1>5. ClonesAccounted'
  <2> SUFFICES ASSUME NEW e \in CloneDirs, disk[e] \in CloneRepos, e \notin stranded', disk[e] \notin repoRows'
               PROVE  \E x \in Requesters : /\ request'[x].op \in {"placed", "tracked", "remove", "unrow"}
                                            /\ request'[x].repo = disk[e]
    BY <1>1 DEF ClonesAccounted
  <2>1. disk[e] # r
    BY <1>1 DEF ClonesInv, ClonesInPlace
  <2>2. e \notin stranded /\ disk[e] \notin repoRows
    BY <1>1, <2>1
  <2>3. PICK x \in Requesters : /\ request[x].op \in {"placed", "tracked", "remove", "unrow"}
                                /\ request[x].repo = disk[e]
    BY <2>2 DEF ClonesInv, ClonesAccounted
  <2> QED BY <1>2, <2>1, <2>3
<1> QED BY <1>3, <1>4, <1>5 DEF ClonesInv

LEMMA RestartKeeps ==
    ASSUME ClonesInv, RestartSource
    PROVE  ClonesInv'
<1> DEFINE Busy == {x \in Requesters : request[x].op \in {"placed", "tracked", "remove", "unrow"}}
<1>1. /\ ClonesTypeOK /\ ops' \in Nat /\ tracked' = {} /\ UNCHANGED repoRows
      /\ stranded' = stranded \cup {DirOf[request[q].repo] : q \in Busy}
      /\ request' = [q \in Requesters |-> NoRequest]
  BY DEF ClonesInv, ClonesTypeOK, RestartSource, Spend
<1>2. \A q \in Requesters : request'[q] = NoRequest
  BY <1>1
<1>3. request' \in [Requesters -> CloneRequest]
  BY <1>1, NoRequestIs
<1>4. \A q \in Requesters : DirOf[request[q].repo] \in CloneDirs
  BY <1>1, RequestOf
<1>5. stranded' \subseteq CloneDirs
  BY <1>1, <1>4 DEF ClonesTypeOK
<1>6. PICK cut \in SUBSET CloneDirs :
          /\ disk' = [d \in CloneDirs |-> IF d \in cut THEN "partial" ELSE disk[d]]
          /\ torn' = torn \cup cut
  BY <1>4 DEF RestartSource
<1>7. "none" \notin CloneRepos /\ "partial" \notin CloneRepos
  BY GitClonesAssumption
<1>8. ClonesTypeOK'
  BY <1>1, <1>3, <1>5, <1>6 DEF ClonesInv, ClonesTypeOK
<1>9. ClonesInPlace'
  BY <1>6, <1>7 DEF ClonesInv, ClonesInPlace
<1>10. ClonesTracked'
  BY <1>1, <1>2, NoRequestIs DEF ClonesTracked, At
<1>11. ClonesAccounted'
  <2> SUFFICES ASSUME NEW e \in CloneDirs, disk'[e] \in CloneRepos, e \notin stranded', disk'[e] \notin repoRows
               PROVE  FALSE
    BY <1>1 DEF ClonesAccounted
  <2>1. e \notin stranded /\ disk'[e] = disk[e]
    BY <1>1, <1>6, <1>7
  <2>2. PICK x \in Requesters : /\ request[x].op \in {"placed", "tracked", "remove", "unrow"}
                                /\ request[x].repo = disk[e]
    BY <2>1 DEF ClonesInv, ClonesAccounted
  <2>3. DirOf[request[x].repo] = e
    BY <2>1, <2>2 DEF ClonesInv, ClonesInPlace
  <2> QED BY <1>1, <2>2, <2>3
<1> QED BY <1>8, <1>9, <1>10, <1>11 DEF ClonesInv

LEMMA ClonesStep ==
    ASSUME ClonesInv, [ClonesNext]_cloneVars
    PROVE  ClonesInv'
<1>1. ClonesTypeOK /\ ops \in Nat /\ ops + 1 \in Nat
  BY DEF ClonesInv, ClonesTypeOK
<1>2. ASSUME NEW q \in Requesters, NEW r \in CloneRepos, AddStarts(q, r) \/ DeleteStarts(q, r)
      PROVE  ClonesInv'
  <2>1. /\ [op |-> "clone", repo |-> r] \in CloneRequest /\ [op |-> "clone", repo |-> r].op = "clone"
        /\ [op |-> "remove", repo |-> r] \in CloneRequest /\ [op |-> "remove", repo |-> r].op = "remove"
    BY DEF CloneRequest
  <2>2. \E new \in CloneRequest : new.op # "placed" /\ request' = [request EXCEPT ![q] = new]
    <3>1. CASE AddStarts(q, r)
      BY <2>1, <3>1, NoRequestIs DEF AddStarts
    <3>2. CASE DeleteStarts(q, r)
      BY <2>1, <3>2 DEF DeleteStarts
    <3> QED BY <1>2, <3>1, <3>2
  <2>3. PICK new \in CloneRequest : new.op # "placed" /\ request' = [request EXCEPT ![q] = new]
    BY <2>2
  <2>4. /\ request' \in [Requesters -> CloneRequest] /\ request'[q].op # "placed"
        /\ \A x \in Requesters : x # q => request'[x] = request[x]
    BY <1>1, <2>3, RequestIs
  <2>5. request[q].op = "none" /\ ops' \in Nat /\ UNCHANGED <<disk, tracked, repoRows, stranded, torn>>
    BY <1>1, <1>2 DEF AddStarts, DeleteStarts, Spend, At
  <2> QED BY <2>4, <2>5, RequestMoves
<1>3. ASSUME NEW q \in Requesters, CloneRuns(q) PROVE ClonesInv'
  <2>1. request[q].op = "clone" /\ Goto(q, "cloned") /\ UNCHANGED <<disk, tracked, repoRows, stranded, torn, ops>>
    BY <1>3 DEF CloneRuns, CloneInto, At
  <2> QED BY <1>1, <2>1, GotoRequest, RequestMoves
<1>4. ASSUME NEW q \in Requesters, CloneFails(q) PROVE ClonesInv'
  <2>1. /\ request[q].op = "cloned" /\ request' = [request EXCEPT ![q] = NoRequest]
        /\ UNCHANGED <<disk, tracked, repoRows, stranded, torn, ops>>
    BY <1>4 DEF CloneFails, At, Ends
  <2>2. /\ request' \in [Requesters -> CloneRequest] /\ request'[q].op = "none"
        /\ \A x \in Requesters : x # q => request'[x] = request[x]
    BY <1>1, <2>1, NoRequestIs, RequestIs
  <2> QED BY <1>1, <2>1, <2>2, RequestMoves
<1>5. CASE UNCHANGED cloneVars
  BY <1>5 DEF cloneVars, ClonesInv, ClonesTypeOK, ClonesInPlace, ClonesTracked, ClonesAccounted, At
<1> QED BY <1>2, <1>3, <1>4, <1>5, PlacedKeeps, TrackKeeps, StoreKeeps, RemoveKeeps, UnrowKeeps,
           RestartKeeps DEF ClonesNext

(***************************************************************************)
(* Whatever requests, failed clones, failed removals and restarts          *)
(* interleave, and whichever repository names share a directory, a         *)
(* directory that no row, request, recorded stranding or half-done removal *)
(* explains is free to be cloned into, and what the source remembers as    *)
(* cloned is the whole clone of that repository, or what a failed removal  *)
(* left of it.                                                             *)
(***************************************************************************)
THEOREM ClonesRetryable == ClonesSpec => []InterruptedCloneRetryable
<1>1. ASSUME ClonesInv PROVE InterruptedCloneRetryable
  <2>1. \A r \in tracked : disk[DirOf[r]] = r \/ DirOf[r] \in torn
    BY <1>1 DEF ClonesInv, ClonesTracked
  <2>2. ASSUME NEW d \in CloneDirs, \A q \in Requesters : ~At(q, "none") => DirOf[request[q].repo] # d,
               \A r \in repoRows : DirOf[r] # d, d \notin stranded \cup torn, disk[d] # "none"
        PROVE  FALSE
    <3>1. disk[d] \in CloneRepos /\ DirOf[disk[d]] = d
      BY <1>1, <2>2 DEF ClonesInv, ClonesInPlace, ClonesTypeOK
    <3>2. PICK q \in Requesters : /\ request[q].op \in {"placed", "tracked", "remove", "unrow"}
                                  /\ request[q].repo = disk[d]
      BY <1>1, <2>2, <3>1 DEF ClonesInv, ClonesAccounted
    <3> QED BY <2>2, <3>1, <3>2 DEF At
  <2> QED BY <2>1, <2>2 DEF InterruptedCloneRetryable
<1> QED BY <1>1, ClonesInitInv, ClonesStep, PTL DEF ClonesSpec

=============================================================================
