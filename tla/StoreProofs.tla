----------------------------- MODULE StoreProofs -----------------------------
(***************************************************************************)
(* What the keyword index and the schema ladders keep: the documents of a  *)
(* file are the chunks of the content its last complete batch read, and a  *)
(* database opened at any rung reaches the same schema.  Both models are   *)
(* built from recursive functions (the chunker, the eviction of the cache, *)
(* the ladder of migrations); what those compute is proved by induction    *)
(* over a set of numbers, from the least number principle.                 *)
(***************************************************************************)
EXTENDS KeywordIndex, Migrations, WellFoundedInduction, FiniteSetTheorems, SequenceTheorems, TLAPS

-----------------------------------------------------------------------------
(* Numbers *)

(* A set of numbers has a least one.                                                     *)
LEMMA LeastNumber ==
    ASSUME NEW T \in SUBSET Nat, T # {}
    PROVE  \E n \in T : \A m \in T : n <= m
<1> DEFINE R == {ss \in Nat \X Nat : ss[1] < ss[2]}
<1>1. IsWellFoundedOn(R, Nat)
  BY NatLessThanWellFounded DEF OpToRel
<1>2. PICK n \in T : \A m \in T : ~(<<m, n>> \in R)
  <2> HIDE DEF R
  <2> QED BY <1>1, WFMin
<1>3. ASSUME NEW m \in T PROVE n <= m
  <2>1. <<m, n>> \in Nat \X Nat /\ <<m, n>>[1] = m /\ <<m, n>>[2] = n
    OBVIOUS
  <2>2. ~(m < n)
    BY <1>2, <2>1, Zenon
  <2> QED BY <2>2
<1> QED BY <1>3

(* Induction, with the property as a set of numbers. *)
LEMMA InductionSet ==
    ASSUME NEW T, 0 \in T, \A n \in Nat : n \in T => n + 1 \in T
    PROVE  Nat \subseteq T
<1> SUFFICES ASSUME Nat \ T # {} PROVE FALSE
  OBVIOUS
<1>1. PICK n \in Nat \ T : \A m \in Nat \ T : n <= m
  BY LeastNumber
<1>2. n # 0 /\ n - 1 \in Nat
  BY <1>1
<1>3. n - 1 \in T
  BY <1>1, <1>2
<1> QED BY <1>1, <1>2, <1>3

-----------------------------------------------------------------------------
(* The keyword index *)

(* A recursion over numbers that stays in a set has a solution.                        *)
Iterates(g, first, n, step) == g[0] = first /\ \A i \in 1 .. n : g[i] = step[<<i, g[i - 1]>>]

LEMMA Recursion ==
    ASSUME NEW S, NEW first \in S, NEW n \in Nat, NEW step \in [(1 .. n) \X S -> S]
    PROVE  \E g \in [0 .. n -> S] : Iterates(g, first, n, step)
<1> DEFINE Good(g, k) == g[0] = first /\ \A i \in 1 .. k : g[i] = step[<<i, g[i - 1]>>]
           T == {k \in Nat : k <= n => \E g \in [0 .. k -> S] : Good(g, k)}
<1>1. 0 \in T
  <2> DEFINE g == [i \in 0 .. 0 |-> first]
  <2>1. g \in [0 .. 0 -> S] /\ Good(g, 0)
    OBVIOUS
  <2> QED BY <2>1
<1>2. ASSUME NEW k \in Nat, k \in T PROVE k + 1 \in T
  <2> SUFFICES ASSUME k + 1 <= n PROVE \E g \in [0 .. k + 1 -> S] : Good(g, k + 1)
    OBVIOUS
  <2>1. PICK g \in [0 .. k -> S] : Good(g, k)
    BY <1>2
  <2>2. k \in 0 .. k /\ k + 1 \in 1 .. n /\ step[<<k + 1, g[k]>>] \in S
    <3>1. k \in 0 .. k /\ k + 1 \in 1 .. n
      OBVIOUS
    <3>2. g[k] \in S
      BY <3>1
    <3>3. <<k + 1, g[k]>> \in (1 .. n) \X S
      BY <3>1, <3>2
    <3> QED BY <3>1, <3>3
  <2> DEFINE h == [i \in 0 .. k + 1 |-> IF i = k + 1 THEN step[<<k + 1, g[k]>>] ELSE g[i]]
  <2>3. \A i \in 0 .. k + 1 : i = k + 1 \/ i \in 0 .. k
    OBVIOUS
  <2>4. h \in [0 .. k + 1 -> S] /\ h[k + 1] = step[<<k + 1, g[k]>>] /\ \A i \in 0 .. k : h[i] = g[i]
    <3>1. \A i \in 0 .. k : i # k + 1 /\ i \in 0 .. k + 1 /\ g[i] \in S
      BY <2>1
    <3> QED BY <2>2, <2>3, <3>1
  <2> HIDE DEF h
  <2>5. h[0] = first
    BY <2>1, <2>4
  <2>6. ASSUME NEW i \in 1 .. k + 1 PROVE h[i] = step[<<i, h[i - 1]>>]
    <3>1. CASE i = k + 1
      <4>1. i - 1 = k
        BY <3>1
      <4> QED BY <2>2, <2>4, <3>1, <4>1
    <3>2. CASE i # k + 1
      <4>1. i \in 1 .. k /\ i \in 0 .. k /\ i - 1 \in 0 .. k
        BY <3>2
      <4> QED BY <2>1, <2>4, <4>1
    <3> QED BY <3>1, <3>2
  <2> QED BY <2>4, <2>5, <2>6
<1>3. n \in T
  <2> HIDE DEF T
  <2> QED BY <1>1, <1>2, InductionSet
<1> QED BY <1>3 DEF Iterates

(* Keys and caches.                                                                  *)
Keys == KeyRepos \X KeyPaths \X DOMAIN Texts
SymbolMaps == UNION {[D -> DOMAIN Texts] : D \in SUBSET Keys}
Caches == [byKey : SymbolMaps, order : Seq(Keys)]
Entries(c) == DOMAIN c.byKey

(* The places of an order whose key is in the cache.                                   *)
LivePlaces(order, keys) == {i \in 1 .. Len(order) : order[i] \in keys}

LEMMA PlacesCount ==
    ASSUME NEW K, NEW s \in Seq(K), NEW ks
    PROVE  /\ IsFiniteSet(LivePlaces(s, ks)) /\ Cardinality(LivePlaces(s, ks)) \in Nat
           /\ Cardinality(LivePlaces(s, ks)) <= Len(s)
<1>1. Len(s) \in Nat /\ IsFiniteSet(1 .. Len(s)) /\ Cardinality(1 .. Len(s)) = Len(s)
  <2> DEFINE n == Len(s)
  <2>1. n \in Nat
    OBVIOUS
  <2> HIDE DEF n
  <2>2. IsFiniteSet(1 .. n) /\ Cardinality(1 .. n) = IF 1 > n THEN 0 ELSE n - 1 + 1
    BY <2>1, FS_Interval
  <2>3. Cardinality(1 .. n) = n
    BY <2>1, <2>2
  <2> QED BY <2>1, <2>2, <2>3 DEF n
<1>2. LivePlaces(s, ks) \in SUBSET (1 .. Len(s))
  BY DEF LivePlaces
<1> QED BY <1>1, <1>2, FS_Subset, FS_CardinalityType

(* The entries are all in the order, and the order's live places are no more than twice  *)
(* the capacity and the entries: a key that comes back is in it twice.                   *)
Ordered(c) ==
    /\ c \in Caches /\ Entries(c) \subseteq Range(c.order)
    /\ Cardinality(LivePlaces(c.order, Entries(c))) <= 2 * CacheCap + Cardinality(Entries(c))

LEMMA EntriesCount ==
    ASSUME NEW c, c \in Caches, Entries(c) \subseteq Range(c.order)
    PROVE  /\ Entries(c) \subseteq Keys /\ IsFiniteSet(Entries(c)) /\ Cardinality(Entries(c)) \in Nat
           /\ c.byKey \in [Entries(c) -> DOMAIN Texts] /\ c.order \in Seq(Keys) /\ Len(c.order) \in Nat
           /\ c = [byKey |-> c.byKey, order |-> c.order]
<1>1. c.byKey \in SymbolMaps /\ c.order \in Seq(Keys) /\ c = [byKey |-> c.byKey, order |-> c.order]
  BY DEF Caches
<1>2. PICK D \in SUBSET Keys : c.byKey \in [D -> DOMAIN Texts]
  BY <1>1 DEF SymbolMaps
<1>3. Entries(c) = D
  BY <1>2 DEF Entries
<1>4. IsFiniteSet(Range(c.order))
  <2> DEFINE s == c.order
             I == 1 .. Len(s)
  <2>1. Len(s) \in Nat /\ DOMAIN s = I
    BY <1>1
  <2>2. IsFiniteSet(I)
    BY <2>1, FS_Interval
  <2>3. [i \in I |-> s[i]] \in Surjection(I, Range(s))
    BY <2>1 DEF Range, Surjection
  <2> HIDE DEF I, s
  <2>4. IsFiniteSet(Range(s))
    BY <2>2, <2>3, FS_Surjection
  <2> QED BY <2>4 DEF s
<1>5. IsFiniteSet(Entries(c))
  BY <1>4, FS_Subset
<1> QED BY <1>1, <1>2, <1>3, <1>5, FS_CardinalityType

LEMMA InjectionDef ==
    ASSUME NEW S, NEW T, NEW f \in [S -> T], \A a, b \in S : f[a] = f[b] => a = b
    PROVE  f \in Injection(S, T)
  BY DEF Injection, IsInjective

(* The first half of evictLocked, one entry.                                           *)
LEMMA DropOrdered ==
    ASSUME NEW c, Ordered(c)
    PROVE  /\ Ordered(DropOldest(c)) /\ Entries(DropOldest(c)) \subseteq Entries(c)
           /\ \A k \in Entries(DropOldest(c)) : DropOldest(c).byKey[k] = c.byKey[k]
           /\ \/ DropOldest(c) = c /\ (Cardinality(Entries(c)) < CacheCap \/ c.order = <<>>)
              \/ Len(DropOldest(c).order) = Len(c.order) - 1
<1> DEFINE D == Entries(c)
           s == c.order
<1>1. /\ D \subseteq Keys /\ IsFiniteSet(D) /\ Cardinality(D) \in Nat /\ c.byKey \in [D -> DOMAIN Texts]
      /\ s \in Seq(Keys) /\ Len(s) \in Nat /\ D \subseteq Range(s)
      /\ Cardinality(LivePlaces(s, D)) <= 2 * CacheCap + Cardinality(D)
  BY EntriesCount DEF Ordered
<1>2. CacheCap \in Nat
  BY KeywordIndexAssumption
<1>3. CASE Cardinality(D) >= CacheCap /\ s # <<>>
  <2> DEFINE h == Head(s)
             t == Tail(s)
             E == D \ {h}
             m == Live(c.byKey, E)
             d == [byKey |-> m, order |-> t]
  <2>1. DropOldest(c) = d
    BY <1>3 DEF DropOldest, Entries
  <2>2. /\ h = s[1] /\ t \in Seq(Keys) /\ Len(t) = Len(s) - 1 /\ Len(t) \in Nat /\ Len(s) >= 1
        /\ \A i \in 1 .. Len(t) : t[i] = s[i + 1]
    <3>1. Len(s) # 0
      BY <1>1, <1>3, EmptySeq
    <3> QED BY <1>1, <1>3, <3>1, HeadTailProperties
  <2>3. DOMAIN m = E /\ \A k \in E : m[k] = c.byKey[k]
    BY <1>1 DEF Live, Entries
  <2>4. d \in Caches
    <3>1. m \in [E -> DOMAIN Texts]
      <4>1. m = [k \in DOMAIN c.byKey \cap E |-> c.byKey[k]] /\ DOMAIN c.byKey \cap E = E
        BY DEF Live, Entries
      <4>2. \A k \in E : c.byKey[k] \in DOMAIN Texts
        BY <1>1
      <4> QED BY <4>1, <4>2
    <3>2. E \in SUBSET Keys
      BY <1>1
    <3>3. m \in SymbolMaps
      BY <3>1, <3>2 DEF SymbolMaps
    <3> QED BY <3>3, <2>2 DEF Caches
  <2>5. d.byKey = m /\ d.order = t /\ Entries(d) = E
    BY <2>3 DEF Entries
  <2> HIDE DEF m, d, h, t
  <2>6. E \subseteq Range(t)
    <3> SUFFICES ASSUME NEW k \in E PROVE k \in Range(t)
      OBVIOUS
    <3>1. PICK i \in 1 .. Len(s) : s[i] = k
      BY <1>1 DEF Range
    <3>2. i # 1
      BY <2>2, <3>1
    <3>3. i - 1 \in 1 .. Len(t) /\ (i - 1) + 1 = i
      BY <1>1, <2>2, <3>1, <3>2
    <3>4. t[i - 1] = k
      BY <2>2, <3>1, <3>3
    <3>5. DOMAIN t = 1 .. Len(t)
      BY <2>2
    <3> QED BY <3>3, <3>4, <3>5 DEF Range
  <2>7. Cardinality(LivePlaces(t, E)) <= 2 * CacheCap + Cardinality(E)
    <3> DEFINE old == LivePlaces(s, D)
               new == LivePlaces(t, E)
               less == old \ {1}
               f == [i \in new |-> i + 1]
    <3>1. IsFiniteSet(old) /\ Cardinality(old) \in Nat /\ IsFiniteSet(new) /\ Cardinality(new) \in Nat
      BY <1>1, <2>2, PlacesCount
    <3>2. \A i \in new : i \in Nat /\ i + 1 \in old /\ i + 1 # 1
      BY <1>1, <2>2 DEF LivePlaces
    <3>3. f \in Injection(new, less)
      <4>1. f \in [new -> less]
        BY <3>2
      <4>2. \A a, b \in new : f[a] = f[b] => a = b
        BY <3>2
      <4> HIDE DEF f, new, less
      <4> QED BY <4>1, <4>2, InjectionDef
    <3>4. IsFiniteSet(less) /\ Cardinality(less) = IF 1 \in old THEN Cardinality(old) - 1 ELSE Cardinality(old)
      BY <3>1, FS_RemoveElement
    <3>5. Cardinality(new) <= Cardinality(less)
      <4> HIDE DEF f, new, less
      <4> QED BY <3>3, <3>4, FS_Injection
    <3>6. Cardinality(E) = IF h \in D THEN Cardinality(D) - 1 ELSE Cardinality(D)
      BY <1>1, FS_RemoveElement
    <3>7. h \in D => 1 \in old
      BY <2>2, <1>1 DEF LivePlaces
    <3> HIDE DEF old, new, less, E
    <3>8. Cardinality(old) <= 2 * CacheCap + Cardinality(D)
      BY <1>1 DEF old
    <3>9. Cardinality(new) <= 2 * CacheCap + Cardinality(E)
      BY <1>1, <1>2, <3>1, <3>4, <3>5, <3>6, <3>7, <3>8
    <3> QED BY <3>9 DEF new
  <2>8. Ordered(d)
    BY <2>4, <2>5, <2>6, <2>7 DEF Ordered
  <2> QED BY <2>1, <2>2, <2>3, <2>5, <2>8
<1>4. CASE ~(Cardinality(D) >= CacheCap /\ s # <<>>)
  <2>1. DropOldest(c) = c
    BY <1>4 DEF DropOldest, Entries
  <2> QED BY <1>1, <1>2, <1>4, <2>1
<1> QED BY <1>3, <1>4

(* An order without the keys that left the cache: what is left of it is all live.       *)
LEMMA StillInKeeps ==
    ASSUME NEW K, NEW s \in Seq(K), NEW ks
    PROVE  /\ StillIn(s, ks) \in Seq(K) /\ Len(StillIn(s, ks)) = Cardinality(LivePlaces(s, ks))
           /\ Range(StillIn(s, ks)) = Range(s) \cap ks
<1> DEFINE N == Len(s)
           Def(f, n) == IF n = 0 THEN <<>> ELSE IF s[n] \in ks THEN Append(f[n - 1], s[n]) ELSE f[n - 1]
           Good(f) == f = [n \in 0 .. N |-> Def(f, n)]
           step == [p \in (1 .. N) \X Seq(K) |-> IF s[p[1]] \in ks THEN Append(p[2], s[p[1]]) ELSE p[2]]
<1>1. N \in Nat /\ DOMAIN s = 1 .. N /\ \A i \in 1 .. N : s[i] \in K
  OBVIOUS
<1>2. step \in [(1 .. N) \X Seq(K) -> Seq(K)]
  <2>1. ASSUME NEW p \in (1 .. N) \X Seq(K)
        PROVE  (IF s[p[1]] \in ks THEN Append(p[2], s[p[1]]) ELSE p[2]) \in Seq(K)
    <3>1. p[1] \in 1 .. N /\ p[2] \in Seq(K) /\ s[p[1]] \in K
      BY <1>1
    <3> QED BY <3>1, AppendProperties
  <2> QED BY <2>1
<1>3. \E f : Good(f) /\ f \in [0 .. N -> Seq(K)]
  <2> HIDE DEF step
  <2>1. <<>> \in Seq(K)
    OBVIOUS
  <2>2. PICK g \in [0 .. N -> Seq(K)] : g[0] = <<>> /\ \A i \in 1 .. N : g[i] = step[<<i, g[i - 1]>>]
    <3>1. PICK g \in [0 .. N -> Seq(K)] : Iterates(g, <<>>, N, step)
      <4> DEFINE S == Seq(K)
      <4>1. step \in [(1 .. N) \X S -> S] /\ N \in Nat /\ <<>> \in S
        BY <1>1, <1>2, <2>1
      <4> HIDE DEF S, N
      <4>2. \E g \in [0 .. N -> S] : Iterates(g, <<>>, N, step)
        BY <4>1, Recursion
      <4> QED BY <4>2 DEF S
    <3> QED BY <3>1 DEF Iterates
  <2>3. ASSUME NEW i \in 1 .. N PROVE g[i] = Def(g, i)
    <3>1. i # 0 /\ i - 1 \in 0 .. N /\ g[i - 1] \in Seq(K)
      BY <1>1, <2>2
    <3>2. <<i, g[i - 1]>> \in (1 .. N) \X Seq(K) /\ <<i, g[i - 1]>>[1] = i /\ <<i, g[i - 1]>>[2] = g[i - 1]
      BY <3>1
    <3>3. step[<<i, g[i - 1]>>] = IF s[i] \in ks THEN Append(g[i - 1], s[i]) ELSE g[i - 1]
      BY <3>2 DEF step
    <3> QED BY <2>2, <3>1, <3>3
  <2>4. \A i \in 0 .. N : g[i] = Def(g, i)
    <3>1. \A i \in 0 .. N : i = 0 \/ i \in 1 .. N
      OBVIOUS
    <3> HIDE DEF Def
    <3>2. g[0] = Def(g, 0)
      BY <2>2 DEF Def
    <3> QED BY <2>3, <3>1, <3>2
  <2>5. g = [n \in 0 .. N |-> g[n]]
    OBVIOUS
  <2> HIDE DEF Def
  <2>6. [n \in 0 .. N |-> g[n]] = [n \in 0 .. N |-> Def(g, n)]
    BY <2>4
  <2>7. Good(g)
    BY <2>5, <2>6
  <2> HIDE DEF Good
  <2> QED BY <2>7
<1> DEFINE kept == CHOOSE f : Good(f)
<1>4. StillIn(s, ks) = kept[N]
  BY DEF StillIn
<1>5. Good(kept)
  <2> HIDE DEF Good
  <2> QED BY <1>3
<1> HIDE DEF kept
<1>6. \A n \in 0 .. N : kept[n] = Def(kept, n)
  BY <1>5
<1> DEFINE Upto(n) == {i \in 1 .. n : s[i] \in ks}
           Is(n) == /\ kept[n] \in Seq(K) /\ IsFiniteSet(Upto(n)) /\ Len(kept[n]) = Cardinality(Upto(n))
                    /\ Range(kept[n]) = {s[i] : i \in Upto(n)}
           T == {n \in Nat : n <= N => Is(n)}
<1>7. 0 \in T
  <2>1. kept[0] = <<>> /\ Upto(0) = {}
    BY <1>1, <1>6
  <2>2. Range(<<>>) = {}
    BY DEF Range
  <2>3. kept[0] \in Seq(K) /\ Len(kept[0]) = 0 /\ {s[i] : i \in Upto(0)} = {}
    BY <2>1
  <2>4. Is(0)
    <3> HIDE DEF Upto
    <3> QED BY <2>1, <2>2, <2>3, FS_EmptySet
  <2> QED BY <2>4
<1>8. ASSUME NEW n \in Nat, n \in T PROVE n + 1 \in T
  <2> SUFFICES ASSUME n + 1 <= N PROVE Is(n + 1)
    OBVIOUS
  <2>1. Is(n) /\ n + 1 \in 0 .. N /\ n + 1 # 0 /\ (n + 1) - 1 = n /\ n + 1 \in 1 .. N /\ s[n + 1] \in K
    <3> HIDE DEF Is
    <3> QED BY <1>1, <1>8
  <2>2. \A i \in 1 .. n + 1 : i = n + 1 \/ i \in 1 .. n
    OBVIOUS
  <2>3. n + 1 \notin Upto(n) /\ \A i \in 1 .. n : i \in 1 .. n + 1
    OBVIOUS
  <2>4. CASE s[n + 1] \in ks
    <3>1. kept[n + 1] = Append(kept[n], s[n + 1])
      BY <1>6, <2>1, <2>4
    <3>2. Upto(n + 1) = Upto(n) \cup {n + 1}
      BY <2>1, <2>2, <2>3, <2>4
    <3> DEFINE k == kept[n]
               U == Upto(n)
    <3>3. IsFiniteSet(U \cup {n + 1}) /\ Cardinality(U \cup {n + 1}) = Cardinality(U) + 1
      BY <2>1, <2>3, FS_AddElement
    <3>4. Append(k, s[n + 1]) \in Seq(K) /\ Len(Append(k, s[n + 1])) = Len(k) + 1
      BY <2>1, AppendProperties
    <3>5. Range(Append(k, s[n + 1])) = Range(k) \cup {s[n + 1]}
      <4>1. k \in Seq(K) /\ s[n + 1] \in K
        BY <2>1
      <4> HIDE DEF k
      <4> DEFINE x == s[n + 1]
                 a == Append(k, x)
      <4>2. /\ Len(a) = Len(k) + 1 /\ DOMAIN a = 1 .. Len(k) + 1 /\ DOMAIN k = 1 .. Len(k) /\ Len(k) \in Nat
            /\ \A i \in 1 .. Len(k) : a[i] = k[i]
            /\ a[Len(k) + 1] = x
        BY <4>1, AppendProperties
      <4> HIDE DEF x, a
      <4>3. \A i \in 1 .. Len(k) + 1 : i \in 1 .. Len(k) \/ i = Len(k) + 1
        BY <4>2
      <4>4. \A i \in 1 .. Len(k) : i \in 1 .. Len(k) + 1
        BY <4>2
      <4>5. Len(k) + 1 \in 1 .. Len(k) + 1
        BY <4>2
      <4>6. Range(a) \subseteq Range(k) \cup {x}
        BY <4>2, <4>3 DEF Range
      <4>7. Range(k) \subseteq Range(a) /\ x \in Range(a)
        BY <4>2, <4>4, <4>5 DEF Range
      <4>8. Range(a) = Range(k) \cup {x}
        BY <4>6, <4>7
      <4> QED BY <4>8 DEF a, x
    <3>6. {s[i] : i \in U \cup {n + 1}} = {s[i] : i \in U} \cup {s[n + 1]}
      <4> HIDE DEF U
      <4> QED OBVIOUS
    <3>7. Range(k) = {s[i] : i \in U} /\ Len(k) = Cardinality(U)
      BY <2>1
    <3> HIDE DEF k, U
    <3>8. kept[n + 1] = Append(k, s[n + 1]) /\ Upto(n + 1) = U \cup {n + 1}
      BY <3>1, <3>2 DEF k, U
    <3> HIDE DEF Upto
    <3> QED BY <3>3, <3>4, <3>5, <3>6, <3>7, <3>8
  <2>5. CASE s[n + 1] \notin ks
    <3>1. kept[n + 1] = kept[n]
      BY <1>6, <2>1, <2>5
    <3>2. Upto(n + 1) = Upto(n)
      BY <2>1, <2>2, <2>3, <2>5
    <3> HIDE DEF Upto
    <3> QED BY <2>1, <3>1, <3>2
  <2> QED BY <2>4, <2>5
<1>9. Is(N)
  <2>1. Nat \subseteq T
    <3> HIDE DEF T
    <3> QED BY <1>7, <1>8, InductionSet
  <2> HIDE DEF Is
  <2> QED BY <1>1, <2>1
<1>10. {s[i] : i \in Upto(N)} = Range(s) \cap ks
  BY <1>1 DEF Range
<1> QED BY <1>4, <1>9, <1>10 DEF LivePlaces

(* The first half of evictLocked leaves room for one more.                              *)
Shrunk(c, d) == Entries(d) \subseteq Entries(c) /\ \A k \in Entries(d) : d.byKey[k] = c.byKey[k]

LEMMA DroppedOrdered ==
    ASSUME NEW c, Ordered(c)
    PROVE  \E d : /\ evictLocked(c) = Compacted(d) /\ Ordered(d) /\ Shrunk(c, d)
                  /\ Cardinality(Entries(d)) < CacheCap
<1> DEFINE N == Len(c.order)
           S == {d \in Caches : Ordered(d)}
           Def(f, n) == IF n = 0 THEN c ELSE DropOldest(f[n - 1])
           Good(f) == f = [n \in 0 .. N |-> Def(f, n)]
           step == [p \in (1 .. N) \X S |-> DropOldest(p[2])]
<1>1. c \in S /\ N \in Nat /\ CacheCap \in Nat \ {0}
  BY EntriesCount, KeywordIndexAssumption DEF Ordered
<1>2. step \in [(1 .. N) \X S -> S]
  <2>1. ASSUME NEW p \in (1 .. N) \X S PROVE DropOldest(p[2]) \in S
    BY DropOrdered DEF Ordered
  <2> HIDE DEF S
  <2> QED BY <2>1
<1>3. \E f : Good(f)
  <2> HIDE DEF step
  <2>1. PICK g \in [0 .. N -> S] : Iterates(g, c, N, step)
    <3> HIDE DEF S, N
    <3> QED BY <1>1, <1>2, Recursion
  <2>2. ASSUME NEW i \in 1 .. N PROVE g[i] = Def(g, i)
    <3>1. i # 0 /\ i - 1 \in 0 .. N /\ g[i - 1] \in S
      <4> HIDE DEF S
      <4> QED BY <1>1, <2>1
    <3>2. <<i, g[i - 1]>> \in (1 .. N) \X S /\ <<i, g[i - 1]>>[2] = g[i - 1]
      <4> HIDE DEF S
      <4> QED BY <3>1
    <3>3. step[<<i, g[i - 1]>>] = DropOldest(g[i - 1])
      <4> HIDE DEF S
      <4> QED BY <3>2 DEF step
    <3> QED BY <2>1, <3>1, <3>3 DEF Iterates
  <2>3. \A i \in 0 .. N : g[i] = Def(g, i)
    <3>1. \A i \in 0 .. N : i = 0 \/ i \in 1 .. N
      BY <1>1
    <3>2. g[0] = Def(g, 0)
      BY <2>1 DEF Iterates
    <3> HIDE DEF Def
    <3> QED BY <2>2, <3>1, <3>2
  <2>4. g = [n \in 0 .. N |-> g[n]]
    OBVIOUS
  <2> HIDE DEF Def
  <2>5. [n \in 0 .. N |-> g[n]] = [n \in 0 .. N |-> Def(g, n)]
    BY <2>3
  <2>6. Good(g)
    BY <2>4, <2>5
  <2> HIDE DEF Good
  <2> QED BY <2>6
<1> DEFINE drop == CHOOSE f : Good(f)
<1>4. evictLocked(c) = Compacted(drop[N])
  BY DEF evictLocked
<1>5. Good(drop)
  <2> HIDE DEF Good
  <2> QED BY <1>3
<1> HIDE DEF drop
<1>6. \A n \in 0 .. N : drop[n] = Def(drop, n)
  BY <1>5
<1> DEFINE Is(n) == /\ Ordered(drop[n]) /\ Shrunk(c, drop[n])
                    /\ \/ Cardinality(Entries(drop[n])) < CacheCap
                       \/ drop[n].order = <<>>
                       \/ Len(drop[n].order) = N - n
           T == {n \in Nat : n <= N => Is(n)}
<1>7. 0 \in T
  <2>1. drop[0] = c
    BY <1>1, <1>6
  <2> QED BY <1>1, <2>1 DEF Shrunk
<1>8. ASSUME NEW n \in Nat, n \in T PROVE n + 1 \in T
  <2> SUFFICES ASSUME n + 1 <= N PROVE Is(n + 1)
    OBVIOUS
  <2>1. Is(n) /\ n + 1 \in 0 .. N /\ n + 1 # 0 /\ (n + 1) - 1 = n
    <3> HIDE DEF Is
    <3> QED BY <1>1, <1>8
  <2> DEFINE d == drop[n]
             e == DropOldest(d)
  <2>2. drop[n + 1] = e
    BY <1>6, <2>1
  <2>3. Ordered(d) /\ Shrunk(c, d)
    BY <2>1
  <2>4. /\ Ordered(e) /\ Entries(e) \subseteq Entries(d) /\ \A k \in Entries(e) : e.byKey[k] = d.byKey[k]
        /\ \/ e = d /\ (Cardinality(Entries(d)) < CacheCap \/ d.order = <<>>)
           \/ Len(e.order) = Len(d.order) - 1
    <3> HIDE DEF d
    <3> QED BY <2>3, DropOrdered
  <2>5. /\ Cardinality(Entries(d)) \in Nat /\ Cardinality(Entries(e)) \in Nat /\ IsFiniteSet(Entries(d))
        /\ Len(d.order) \in Nat /\ Len(e.order) \in Nat
    <3> HIDE DEF d, e
    <3> QED BY <2>3, <2>4, EntriesCount DEF Ordered
  <2>6. Cardinality(Entries(e)) <= Cardinality(Entries(d))
    <3> HIDE DEF d, e
    <3> QED BY <2>4, <2>5, FS_Subset
  <2>7. \/ Cardinality(Entries(d)) < CacheCap \/ d.order = <<>> \/ Len(d.order) = N - n
    BY <2>1
  <2> HIDE DEF d, e
  <2>8. \/ Cardinality(Entries(e)) < CacheCap \/ e.order = <<>> \/ Len(e.order) = N - (n + 1)
    <3>1. CASE d.order = <<>>
      <4>1. Len(d.order) = 0
        BY <3>1
      <4> QED BY <2>4, <2>5, <3>1, <4>1
    <3>2. CASE Cardinality(Entries(d)) < CacheCap
      BY <1>1, <2>5, <2>6, <3>2
    <3>3. CASE Len(d.order) = N - n
      BY <1>1, <2>4, <2>5, <3>3
    <3> QED BY <2>7, <3>1, <3>2, <3>3
  <2>9. Shrunk(c, e)
    BY <2>3, <2>4 DEF Shrunk
  <2> QED BY <2>2, <2>4, <2>8, <2>9
<1>9. Is(N)
  <2>1. Nat \subseteq T
    <3> HIDE DEF T
    <3> QED BY <1>7, <1>8, InductionSet
  <2> HIDE DEF Is
  <2> QED BY <1>1, <2>1
<1>10. Cardinality(Entries(drop[N])) < CacheCap
  <2> DEFINE d == drop[N]
  <2>1. Ordered(d) /\ (Cardinality(Entries(d)) < CacheCap \/ d.order = <<>> \/ Len(d.order) = N - N)
    BY <1>9
  <2> HIDE DEF d
  <2>2. d.order \in Seq(Keys) /\ Entries(d) \subseteq Range(d.order)
    BY <2>1, EntriesCount DEF Ordered
  <2>3. ASSUME d.order = <<>> \/ Len(d.order) = N - N
        PROVE  Cardinality(Entries(d)) < CacheCap
    <3>1. d.order = <<>>
      BY <1>1, <2>2, <2>3, EmptySeq
    <3>2. Entries(d) = {}
      BY <2>2, <3>1 DEF Range
    <3> QED BY <1>1, <3>2, FS_EmptySet
  <2>4. Cardinality(Entries(d)) < CacheCap
    BY <2>1, <2>3
  <2> QED BY <2>4 DEF d
<1> QED BY <1>4, <1>9, <1>10

(* evictLocked: room for one more, and an order that is short, or all live.              *)
LEMMA EvictOrdered ==
    ASSUME NEW c, Ordered(c)
    PROVE  /\ Ordered(evictLocked(c)) /\ Shrunk(c, evictLocked(c))
           /\ Cardinality(Entries(evictLocked(c))) < CacheCap
           /\ \/ Len(evictLocked(c).order) <= 2 * CacheCap
              \/ Range(evictLocked(c).order) \subseteq Entries(evictLocked(c))
<1>1. PICK d : /\ evictLocked(c) = Compacted(d) /\ Ordered(d) /\ Shrunk(c, d)
               /\ Cardinality(Entries(d)) < CacheCap
  BY DroppedOrdered
<1>2. CASE Len(d.order) > 2 * CacheCap
  <2> DEFINE s == StillIn(d.order, Entries(d))
             e == [byKey |-> d.byKey, order |-> s]
  <2>1. Compacted(d) = e
    BY <1>2 DEF Compacted, Entries
  <2>2. /\ Entries(d) \subseteq Keys /\ Cardinality(Entries(d)) \in Nat /\ d.order \in Seq(Keys)
        /\ Entries(d) \subseteq Range(d.order) /\ d.byKey \in SymbolMaps
        /\ Cardinality(LivePlaces(d.order, Entries(d))) <= 2 * CacheCap + Cardinality(Entries(d))
    BY <1>1, EntriesCount DEF Ordered, Caches
  <2>3. /\ s \in Seq(Keys) /\ Len(s) = Cardinality(LivePlaces(d.order, Entries(d)))
        /\ Range(s) = Range(d.order) \cap Entries(d)
    BY <2>2, StillInKeeps
  <2> HIDE DEF s
  <2>4. e \in Caches /\ Entries(e) = Entries(d) /\ e.order = s /\ e.byKey = d.byKey
    BY <2>2, <2>3 DEF Caches, Entries
  <2> HIDE DEF e
  <2>5. Cardinality(LivePlaces(s, Entries(d))) <= Len(s) /\ Cardinality(LivePlaces(s, Entries(d))) \in Nat
    BY <2>3, PlacesCount
  <2>6. Cardinality(LivePlaces(s, Entries(d))) <= 2 * CacheCap + Cardinality(Entries(d))
    BY <2>2, <2>3, <2>5, KeywordIndexAssumption
  <2>7. Ordered(e) /\ Shrunk(c, e) /\ Range(e.order) \subseteq Entries(e)
    BY <1>1, <2>2, <2>3, <2>4, <2>6 DEF Ordered, Shrunk
  <2> QED BY <1>1, <2>1, <2>4, <2>7
<1>3. CASE ~(Len(d.order) > 2 * CacheCap)
  <2>1. Compacted(d) = d
    BY <1>3 DEF Compacted
  <2>2. Len(d.order) \in Nat
    BY <1>1, EntriesCount DEF Ordered
  <2>3. Len(d.order) <= 2 * CacheCap
    BY <1>3, <2>2, KeywordIndexAssumption
  <2> QED BY <1>1, <2>1, <2>3
<1> QED BY <1>2, <1>3

(* What SymbolCacheBounded says, and what keeps it so.                                  *)
CacheBounded(c) ==
    Ordered(c) /\ Cardinality(Entries(c)) <= CacheCap /\ Len(c.order) <= 3 * CacheCap

LEMMA CacheWith ==
    ASSUME NEW b, NEW o, NEW m, NEW c, c = [byKey |-> b, order |-> o]
    PROVE  [c EXCEPT !.byKey = m] = [byKey |-> m, order |-> o]
OBVIOUS

LEMMA PutBounded ==
    ASSUME NEW c, CacheBounded(c), NEW r \in KeyRepos, NEW f \in KeyPaths, NEW t \in DOMAIN Texts
    PROVE  /\ CacheBounded(Put(c, r, f, t))
           /\ Entries(Put(c, r, f, t)) \subseteq Entries(c) \cup {<<r, f, t>>}
           /\ \A k \in Entries(Put(c, r, f, t)) :
                 Put(c, r, f, t).byKey[k] = IF k = <<r, f, t>> THEN t ELSE c.byKey[k]
<1> DEFINE k == <<r, f, t>>
           e == evictLocked(c)
           room == IF k \in Entries(c) THEN c ELSE [e EXCEPT !.order = Append(@, k)]
           D == Entries(room) \cup {k}
           m == [x \in D |-> IF x = k THEN t ELSE room.byKey[x]]
           p == [room EXCEPT !.byKey = m]
<1>1. Put(c, r, f, t) = p /\ k \in Keys /\ CacheCap \in Nat \ {0}
  BY KeywordIndexAssumption DEF Put, symbolKey, Entries, Keys
<1>2. /\ Ordered(c) /\ Cardinality(Entries(c)) \in Nat /\ Cardinality(Entries(c)) <= CacheCap
      /\ Len(c.order) <= 3 * CacheCap /\ c = [byKey |-> c.byKey, order |-> c.order]
      /\ Entries(c) \subseteq Keys /\ c.byKey \in [Entries(c) -> DOMAIN Texts] /\ c.order \in Seq(Keys)
  BY EntriesCount DEF CacheBounded, Ordered
<1>3. CASE k \in Entries(c)
  <2>1. room = c /\ D = Entries(c)
    BY <1>3
  <2>2. m \in [D -> DOMAIN Texts]
    BY <1>2, <2>1
  <2>3. p = [byKey |-> m, order |-> c.order] /\ DOMAIN m = D
    <3>1. DOMAIN m = D
      OBVIOUS
    <3>2. c = [byKey |-> c.byKey, order |-> c.order] /\ p = [c EXCEPT !.byKey = m]
      BY <1>2, <2>1
    <3> HIDE DEF m, p
    <3> QED BY <3>1, <3>2, CacheWith
  <2>4. \A x \in D : m[x] = IF x = k THEN t ELSE c.byKey[x]
    BY <2>1
  <2> HIDE DEF m, p, D
  <2>5. p \in Caches /\ Entries(p) = Entries(c) /\ p.order = c.order /\ p.byKey = m
    <3>1. m \in SymbolMaps
      BY <1>2, <2>1, <2>2 DEF SymbolMaps
    <3> QED BY <1>2, <2>1, <2>3, <3>1 DEF Caches, Entries
  <2>6. CacheBounded(p)
    BY <1>2, <2>5 DEF CacheBounded, Ordered
  <2> QED BY <1>1, <2>1, <2>4, <2>5, <2>6
<1>4. CASE k \notin Entries(c)
  <2>1. /\ Ordered(e) /\ Shrunk(c, e) /\ Cardinality(Entries(e)) < CacheCap
        /\ (Len(e.order) <= 2 * CacheCap \/ Range(e.order) \subseteq Entries(e))
    BY <1>2, EvictOrdered
  <2> HIDE DEF e
  <2>2. /\ Entries(e) \subseteq Keys /\ IsFiniteSet(Entries(e)) /\ Cardinality(Entries(e)) \in Nat
        /\ e.byKey \in [Entries(e) -> DOMAIN Texts] /\ e.order \in Seq(Keys) /\ Len(e.order) \in Nat
        /\ e = [byKey |-> e.byKey, order |-> e.order] /\ Entries(e) \subseteq Range(e.order)
        /\ Cardinality(LivePlaces(e.order, Entries(e))) <= 2 * CacheCap + Cardinality(Entries(e))
    BY <2>1, EntriesCount DEF Ordered
  <2> DEFINE s == Append(e.order, k)
             E == Entries(e)
  <2>3. k \notin E
    BY <1>4, <2>1 DEF Shrunk
  <2>4. room = [byKey |-> e.byKey, order |-> s]
    BY <1>4, <2>2
  <2>5. Entries(room) = E /\ room.byKey = e.byKey
    BY <2>4 DEF Entries
  <2>6. D = E \cup {k} /\ DOMAIN m = D /\ \A x \in D : m[x] = IF x = k THEN t ELSE e.byKey[x]
    BY <2>5
  <2>7. p = [byKey |-> m, order |-> s]
    <3>1. p = [room EXCEPT !.byKey = m]
      OBVIOUS
    <3> HIDE DEF m, p, s, room
    <3> QED BY <2>4, <3>1, CacheWith
  <2>8. m \in [D -> DOMAIN Texts]
    BY <2>2, <2>5
  <2> HIDE DEF m, p, D, room
  <2>9. /\ s \in Seq(Keys) /\ Len(s) = Len(e.order) + 1 /\ DOMAIN s = 1 .. Len(e.order) + 1
        /\ \A i \in 1 .. Len(e.order) : s[i] = e.order[i]
        /\ s[Len(e.order) + 1] = k
    BY <1>1, <2>2, AppendProperties
  <2> HIDE DEF s
  <2>10. p \in Caches /\ Entries(p) = D /\ p.order = s /\ p.byKey = m
    <3>1. D \in SUBSET Keys /\ m \in SymbolMaps
      BY <1>1, <2>2, <2>6, <2>8 DEF SymbolMaps
    <3> QED BY <2>6, <2>7, <2>9, <3>1 DEF Caches, Entries
  <2>11. IsFiniteSet(D) /\ Cardinality(D) = Cardinality(E) + 1
    BY <2>2, <2>3, <2>6, FS_AddElement
  <2>12. D \subseteq Range(s)
    <3>1. Len(e.order) + 1 \in DOMAIN s /\ \A i \in 1 .. Len(e.order) : i \in DOMAIN s
      BY <2>2, <2>9
    <3>2. k \in Range(s)
      BY <2>9, <3>1 DEF Range
    <3>3. DOMAIN e.order = 1 .. Len(e.order)
      BY <2>2
    <3>4. Range(e.order) \subseteq Range(s)
      BY <2>9, <3>1, <3>3 DEF Range
    <3> QED BY <2>2, <2>6, <3>2, <3>4
  <2>13. Len(s) <= 2 * CacheCap + Cardinality(D)
    <3>1. CASE Len(e.order) <= 2 * CacheCap
      BY <1>1, <2>2, <2>9, <2>11, <3>1
    <3>2. CASE Range(e.order) \subseteq E
      <4>1. DOMAIN e.order = 1 .. Len(e.order) /\ IsFiniteSet(1 .. Len(e.order))
            /\ Cardinality(1 .. Len(e.order)) = Len(e.order)
        <5>1. Len(e.order) \in Nat /\ DOMAIN e.order = 1 .. Len(e.order)
          BY <2>2
        <5> QED BY <5>1, FS_Interval
      <4>2. LivePlaces(e.order, E) = 1 .. Len(e.order)
        BY <3>2, <4>1 DEF LivePlaces, Range
      <4>3. Len(e.order) <= 2 * CacheCap + Cardinality(E)
        BY <2>2, <4>1, <4>2
      <4> QED BY <1>1, <2>2, <2>9, <2>11, <4>3
    <3> QED BY <2>1, <3>1, <3>2
  <2>14. Cardinality(LivePlaces(s, D)) <= 2 * CacheCap + Cardinality(D)
    <3>1. Cardinality(LivePlaces(s, D)) <= Len(s) /\ Cardinality(LivePlaces(s, D)) \in Nat
      BY <2>9, PlacesCount
    <3> QED BY <1>1, <2>2, <2>9, <2>11, <2>13, <3>1
  <2>15. CacheBounded(p)
    <3>1. Cardinality(D) <= CacheCap
      BY <1>1, <2>1, <2>2, <2>11
    <3>2. Len(s) <= 3 * CacheCap
      BY <1>1, <2>2, <2>9, <2>11, <2>13, <3>1
    <3> QED BY <2>10, <2>12, <2>14, <3>1, <3>2 DEF CacheBounded, Ordered
  <2>16. D \subseteq Entries(c) \cup {k}
    BY <2>1, <2>6 DEF Shrunk
  <2>17. \A x \in D : m[x] = IF x = k THEN t ELSE c.byKey[x]
    BY <2>1, <2>6 DEF Shrunk
  <2> QED BY <1>1, <2>10, <2>15, <2>16, <2>17
<1> QED BY <1>3, <1>4

LEMMA TakeBounded ==
    ASSUME NEW c, CacheBounded(c), NEW k, NEW d, d = [c EXCEPT !.byKey = Live(@, DOMAIN @ \ {k})]
    PROVE  CacheBounded(d) /\ Shrunk(c, d)
<1> DEFINE D == Entries(c)
           E == D \ {k}
           m == Live(c.byKey, E)
<1>1. /\ D \subseteq Keys /\ IsFiniteSet(D) /\ Cardinality(D) \in Nat /\ c.byKey \in [D -> DOMAIN Texts]
      /\ c.order \in Seq(Keys) /\ D \subseteq Range(c.order) /\ Cardinality(D) <= CacheCap
      /\ Cardinality(LivePlaces(c.order, D)) <= 2 * CacheCap + Cardinality(D)
      /\ Len(c.order) <= 3 * CacheCap /\ c = [byKey |-> c.byKey, order |-> c.order]
  BY EntriesCount DEF Ordered, CacheBounded
<1>2. CacheCap \in Nat
  BY KeywordIndexAssumption
<1>3. d = [byKey |-> m, order |-> c.order]
  BY <1>1 DEF Entries
<1>4. m \in [E -> DOMAIN Texts] /\ \A x \in E : m[x] = c.byKey[x]
  <2>1. m = [x \in DOMAIN c.byKey \cap E |-> c.byKey[x]] /\ DOMAIN c.byKey \cap E = E
    BY DEF Live, Entries
  <2>2. \A x \in E : c.byKey[x] \in DOMAIN Texts
    BY <1>1
  <2> QED BY <2>1, <2>2
<1> HIDE DEF m
<1>5. d \in Caches /\ Entries(d) = E /\ d.order = c.order /\ d.byKey = m
  <2>1. m \in SymbolMaps
    BY <1>1, <1>4 DEF SymbolMaps
  <2> QED BY <1>1, <1>3, <1>4, <2>1 DEF Caches, Entries
<1>6. IsFiniteSet(E) /\ Cardinality(E) = IF k \in D THEN Cardinality(D) - 1 ELSE Cardinality(D)
  BY <1>1, FS_RemoveElement
<1> DEFINE old == LivePlaces(c.order, D)
           new == LivePlaces(c.order, E)
<1>7. IsFiniteSet(old) /\ Cardinality(old) \in Nat /\ IsFiniteSet(new) /\ Cardinality(new) \in Nat
  BY <1>1, PlacesCount
<1>8. Cardinality(new) <= 2 * CacheCap + Cardinality(E)
  <2>1. CASE k \in D
    <3>1. PICK i \in 1 .. Len(c.order) : c.order[i] = k
      BY <1>1, <2>1 DEF Range
    <3>2. i \in old /\ new \in SUBSET (old \ {i})
      BY <2>1, <3>1 DEF LivePlaces
    <3>3. IsFiniteSet(old \ {i}) /\ Cardinality(old \ {i}) = Cardinality(old) - 1
      BY <1>7, <3>2, FS_RemoveElement
    <3>4. Cardinality(new) <= Cardinality(old) - 1
      <4> DEFINE less == old \ {i}
      <4>1. IsFiniteSet(less) /\ new \in SUBSET less /\ Cardinality(less) = Cardinality(old) - 1
        BY <3>2, <3>3
      <4> HIDE DEF less, new, old
      <4> QED BY <4>1, FS_Subset
    <3> QED BY <1>1, <1>2, <1>6, <1>7, <2>1, <3>4
  <2>2. CASE k \notin D
    BY <1>1, <2>2
  <2> QED BY <2>1, <2>2
<1>9. Cardinality(E) <= CacheCap
  BY <1>1, <1>2, <1>6
<1> QED BY <1>1, <1>4, <1>5, <1>8, <1>9 DEF CacheBounded, Ordered, Shrunk

(* WindowChunker: where a window ends, and where the next one begins.                    *)
LEMMA WindowEnds ==
    ASSUME NEW n \in Nat, NEW from \in 1 .. n
    PROVE  /\ WindowEnd(n, from) \in from .. n
           /\ WindowEnd(n, from) < n => WindowEnd(n, from) + 1 - Overlap \in from + 1 .. n
<1> DEFINE a == from + WindowLines - 1
<1>1. WindowLines \in Nat /\ Overlap \in Nat /\ WindowLines > Overlap
  BY KeywordIndexAssumption
<1>2. a \in Int /\ a >= from
  BY <1>1
<1>3. WindowEnd(n, from) = IF a <= n THEN a ELSE n
  <2> HIDE DEF a
  <2>1. WindowEnd(n, from) = Min({a, n})
    BY DEF WindowEnd, a
  <2> DEFINE m == IF a <= n THEN a ELSE n
  <2>2. m \in {a, n} /\ \A y \in {a, n} : m <= y
    BY <1>2
  <2>3. \A x \in {a, n} : (\A y \in {a, n} : x <= y) => x = m
    BY <1>2
  <2>4. Min({a, n}) = CHOOSE x \in {a, n} : \A y \in {a, n} : x <= y
    BY DEF Min
  <2> HIDE DEF m
  <2>5. Min({a, n}) = m
    BY <2>2, <2>3, <2>4
  <2> QED BY <2>1, <2>5 DEF m
<1> QED BY <1>1, <1>2, <1>3

(* The windows of a text cover every line of it, and nothing else: WindowChunker.Chunk.     *)
Pieces(n) == [from : 1 .. n, to : 1 .. n]
Covered(s) == UNION {s[i].from .. s[i].to : i \in 1 .. Len(s)}

LEMMA CoveredFirst ==
    ASSUME NEW P, NEW x \in P, NEW s \in Seq(P)
    PROVE  <<x>> \o s \in Seq(P) /\ Covered(<<x>> \o s) = (x.from .. x.to) \cup Covered(s)
<1> DEFINE u == <<x>> \o s
<1>1. /\ u \in Seq(P) /\ Len(u) = Len(s) + 1 /\ Len(s) \in Nat
      /\ \A i \in 1 .. Len(s) + 1 : u[i] = IF i <= 1 THEN x ELSE s[i - 1]
  <2>1. <<x>> \in Seq(P) /\ Len(<<x>>) = 1 /\ <<x>>[1] = x /\ Len(s) \in Nat
    OBVIOUS
  <2> DEFINE o == <<x>>
  <2>2. /\ u \in Seq(P) /\ Len(u) = Len(o) + Len(s)
        /\ \A i \in 1 .. Len(o) + Len(s) : u[i] = IF i <= Len(o) THEN o[i] ELSE s[i - Len(o)]
    <3>1. u = o \o s /\ o \in Seq(P)
      BY <2>1
    <3> HIDE DEF o, u
    <3> QED BY <3>1, ConcatProperties
  <2>3. \A i \in 1 .. Len(s) + 1 : i <= 1 => i = 1
    BY <2>1
  <2> HIDE DEF u, o
  <2>4. Len(o) = 1 /\ o[1] = x
    BY <2>1 DEF o
  <2>5. Len(u) = Len(s) + 1 /\ \A i \in 1 .. Len(s) + 1 : u[i] = IF i <= 1 THEN o[i] ELSE s[i - 1]
    BY <2>1, <2>2, <2>4
  <2> QED BY <2>1, <2>2, <2>3, <2>4, <2>5
<1> HIDE DEF u
<1> DEFINE Cu(i) == u[i].from .. u[i].to
           Cs(i) == s[i].from .. s[i].to
<1>2. Cu(1) = x.from .. x.to /\ \A i \in 1 .. Len(s) : Cu(i + 1) = Cs(i)
  <2>1. 1 \in 1 .. Len(s) + 1 /\ u[1] = x
    BY <1>1
  <2>2. \A i \in 1 .. Len(s) : i + 1 \in 1 .. Len(s) + 1 /\ ~(i + 1 <= 1) /\ (i + 1) - 1 = i
    BY <1>1
  <2>3. \A i \in 1 .. Len(s) : u[i + 1] = s[i]
    BY <1>1, <2>2
  <2> QED BY <2>1, <2>3
<1>3. Covered(u) = UNION {Cu(i) : i \in 1 .. Len(s) + 1} /\ Covered(s) = UNION {Cs(i) : i \in 1 .. Len(s)}
  BY <1>1 DEF Covered
<1>4. /\ \A i \in 1 .. Len(s) + 1 : i = 1 \/ (i - 1 \in 1 .. Len(s) /\ (i - 1) + 1 = i)
      /\ 1 \in 1 .. Len(s) + 1 /\ \A i \in 1 .. Len(s) : i + 1 \in 1 .. Len(s) + 1
  BY <1>1
<1> HIDE DEF Cu, Cs
<1>5. UNION {Cu(i) : i \in 1 .. Len(s) + 1} \subseteq Cu(1) \cup UNION {Cs(i) : i \in 1 .. Len(s)}
  <2> SUFFICES ASSUME NEW i \in 1 .. Len(s) + 1, NEW y \in Cu(i)
               PROVE  y \in Cu(1) \/ \E j \in 1 .. Len(s) : y \in Cs(j)
    OBVIOUS
  <2>1. CASE i = 1
    BY <2>1
  <2>2. CASE i - 1 \in 1 .. Len(s) /\ (i - 1) + 1 = i
    <3>1. Cu((i - 1) + 1) = Cs(i - 1)
      BY <1>2, <2>2
    <3> QED BY <2>2, <3>1
  <2> QED BY <1>4, <2>1, <2>2
<1>6. Cu(1) \cup UNION {Cs(i) : i \in 1 .. Len(s)} \subseteq UNION {Cu(i) : i \in 1 .. Len(s) + 1}
  BY <1>2, <1>4
<1> QED BY <1>1, <1>2, <1>3, <1>5, <1>6 DEF u

LEMMA ChunksCover ==
    ASSUME NEW t \in DOMAIN Texts
    PROVE  Chunks(t) \in Seq(Pieces(Texts[t].lines)) /\ Covered(Chunks(t)) = 1 .. Texts[t].lines
<1> DEFINE n == Texts[t].lines
           P == Pieces(n)
           To(i) == WindowEnd(n, i)
           Row(i) == [from |-> i, to |-> To(i)]
           Next(i) == To(i) + 1 - Overlap
           Def(f, i) == <<Row(i)>> \o (IF To(i) >= n THEN <<>> ELSE f[Next(i)])
           Good(f) == f = [i \in 1 .. n |-> Def(f, i)]
<1>1. n \in Nat /\ n # 0
  BY KeywordIndexAssumption
<1> HIDE DEF n
<1>2. ASSUME NEW i \in 1 .. n
      PROVE  /\ i \in Nat /\ To(i) \in Nat /\ To(i) >= i /\ To(i) <= n /\ Row(i) \in P
             /\ To(i) < n => Next(i) \in Nat /\ Next(i) > i /\ Next(i) <= n /\ Next(i) <= To(i) + 1
  <2>1. To(i) \in i .. n /\ (To(i) < n => To(i) + 1 - Overlap \in i + 1 .. n)
    BY <1>1, WindowEnds
  <2>2. Overlap \in Nat
    BY KeywordIndexAssumption
  <2>3. i \in Nat /\ To(i) \in Nat /\ To(i) >= i /\ To(i) <= n /\ To(i) \in 1 .. n
    BY <1>1, <2>1
  <2>4. Row(i) \in P
    BY <2>3 DEF Pieces
  <2>5. To(i) < n => Next(i) \in Nat /\ Next(i) > i /\ Next(i) <= n /\ Next(i) <= To(i) + 1
    BY <1>1, <2>1, <2>2, <2>3
  <2> QED BY <2>3, <2>4, <2>5
<1> HIDE DEF To, Row, Next, P
<1> DEFINE Fits(g, k) == g \in [n - k + 1 .. n -> Seq(P)] /\ \A i \in n - k + 1 .. n : g[i] = Def(g, i)
           T == {k \in Nat : k <= n => \E g : Fits(g, k)}
<1>3. 0 \in T
  <2>1. n - 0 + 1 .. n = {}
    BY <1>1
  <2> DEFINE g == [i \in n - 0 + 1 .. n |-> <<>>]
  <2>2. Fits(g, 0)
    BY <2>1
  <2> HIDE DEF Fits
  <2> QED BY <2>2
<1>4. ASSUME NEW k \in Nat, k \in T PROVE k + 1 \in T
  <2> SUFFICES ASSUME k + 1 <= n PROVE \E g : Fits(g, k + 1)
    OBVIOUS
  <2>1. PICK g : Fits(g, k)
    <3> HIDE DEF Fits
    <3> QED BY <1>1, <1>4
  <2> DEFINE j == n - (k + 1) + 1
             top == Def(g, j)
             h == [i \in j .. n |-> IF i = j THEN top ELSE g[i]]
  <2>2. /\ j \in 1 .. n /\ j = n - k /\ j \in j .. n
        /\ \A i \in j .. n : i \in 1 .. n /\ (i = j \/ i \in n - k + 1 .. n)
        /\ \A i \in n - k + 1 .. n : i \in j .. n /\ i # j
    BY <1>1
  <2>3. \A i \in j .. n : To(i) < n => Next(i) \in n - k + 1 .. n
    <3> SUFFICES ASSUME NEW i \in j .. n, To(i) < n PROVE Next(i) \in n - k + 1 .. n
      OBVIOUS
    <3>1. i \in 1 .. n
      BY <2>2
    <3>2. Next(i) \in Nat /\ Next(i) > i /\ Next(i) <= n /\ i >= j
      BY <1>2, <3>1
    <3> QED BY <1>1, <2>2, <3>2
  <2>4. h[j] = top /\ \A i \in n - k + 1 .. n : h[i] = g[i]
    <3> HIDE DEF top, j
    <3> QED BY <2>2
  <2>5. \A i \in j .. n : Def(h, i) = Def(g, i)
    <3> SUFFICES ASSUME NEW i \in j .. n PROVE Def(h, i) = Def(g, i)
      OBVIOUS
    <3> HIDE DEF h, top
    <3>1. CASE To(i) >= n
      BY <3>1
    <3>2. CASE ~(To(i) >= n)
      <4>1. i \in 1 .. n
        BY <2>2
      <4>2. To(i) < n
        BY <1>1, <1>2, <3>2, <4>1
      <4> QED BY <2>3, <2>4, <4>2
    <3> QED BY <3>1, <3>2
  <2>6. \A i \in j .. n : h[i] = Def(h, i)
    <3> SUFFICES ASSUME NEW i \in j .. n PROVE h[i] = Def(g, i)
      BY <2>5
    <3>1. CASE i = j
      BY <2>4, <3>1
    <3>2. CASE i \in n - k + 1 .. n
      <4> HIDE DEF Def, h
      <4> QED BY <2>1, <2>4, <3>2
    <3> HIDE DEF j
    <3> QED BY <2>2, <3>1, <3>2
  <2>7. top \in Seq(P)
    <3>1. Row(j) \in P
      BY <1>2, <2>2
    <3>2. <<>> \in Seq(P) /\ (To(j) < n => g[Next(j)] \in Seq(P))
      BY <2>1, <2>2, <2>3
    <3>3. To(j) \in Nat
      BY <1>2, <2>2
    <3>4. (IF To(j) >= n THEN <<>> ELSE g[Next(j)]) \in Seq(P)
      BY <1>1, <3>2, <3>3
    <3> QED BY <3>1, <3>4, CoveredFirst
  <2>8. h \in [j .. n -> Seq(P)]
    <3> HIDE DEF top, j
    <3> QED BY <2>1, <2>2, <2>7
  <2> HIDE DEF h, Def
  <2>9. Fits(h, k + 1)
    BY <2>6, <2>8
  <2> HIDE DEF Fits
  <2> QED BY <2>9
<1>5. \E f : Good(f) /\ f \in [1 .. n -> Seq(P)]
  <2>1. n \in T
    <3> HIDE DEF T
    <3> QED BY <1>1, <1>3, <1>4, InductionSet
  <2>2. PICK g : Fits(g, n)
    <3> HIDE DEF Fits
    <3> QED BY <1>1, <2>1
  <2>3. n - n + 1 .. n = 1 .. n
    BY <1>1
  <2> HIDE DEF Def
  <2>4. g \in [1 .. n -> Seq(P)] /\ \A i \in 1 .. n : g[i] = Def(g, i)
    BY <2>2, <2>3
  <2>5. g = [i \in 1 .. n |-> g[i]] /\ [i \in 1 .. n |-> g[i]] = [i \in 1 .. n |-> Def(g, i)]
    BY <2>4
  <2>6. Good(g)
    BY <2>5
  <2> HIDE DEF Good
  <2> QED BY <2>4, <2>6
<1> DEFINE after == CHOOSE f : Good(f)
<1>6. Chunks(t) = after[1]
  BY DEF Chunks, n, To, Row, Next
<1>7. Good(after)
  <2> HIDE DEF Good
  <2> QED BY <1>5
<1> HIDE DEF after
<1>8. \A i \in 1 .. n : after[i] = Def(after, i)
  BY <1>7
<1> DEFINE Is(i) == after[i] \in Seq(P) /\ Covered(after[i]) = i .. n
           U == {k \in Nat : k <= n => \A i \in n - k + 1 .. n : Is(i)}
<1>9. 0 \in U
  <2>1. n - 0 + 1 .. n = {}
    BY <1>1
  <2> QED BY <2>1
<1>10. ASSUME NEW k \in Nat, k \in U PROVE k + 1 \in U
  <2> SUFFICES ASSUME k + 1 <= n PROVE \A i \in n - (k + 1) + 1 .. n : Is(i)
    OBVIOUS
  <2> DEFINE j == n - k
  <2>1. j \in 1 .. n /\ \A i \in n - (k + 1) + 1 .. n : i = j \/ i \in n - k + 1 .. n
    BY <1>1
  <2>2. \A i \in n - k + 1 .. n : Is(i)
    <3> HIDE DEF Is
    <3> QED BY <1>1, <1>10
  <2>3. after[j] = Def(after, j)
    BY <1>8, <2>1
  <2>4. /\ Row(j) \in P /\ Row(j).from = j /\ Row(j).to = To(j) /\ To(j) \in Nat /\ To(j) >= j /\ To(j) <= n
        /\ j \in Nat
    BY <1>2, <2>1 DEF Row
  <2> HIDE DEF j
  <2>5. Is(j)
    <3>1. CASE To(j) >= n
      <4>1. after[j] = <<Row(j)>> \o <<>> /\ <<>> \in Seq(P) /\ To(j) = n
        BY <1>1, <2>3, <2>4, <3>1
      <4>2. Covered(<<>>) = {}
        BY DEF Covered
      <4>3. after[j] \in Seq(P) /\ Covered(after[j]) = (j .. n) \cup {}
        <5> DEFINE x == Row(j)
        <5>2. x \in P /\ <<>> \in Seq(P)
          BY <2>4, <4>1
        <5> HIDE DEF x, P
        <5>3. <<x>> \o <<>> \in Seq(P) /\ Covered(<<x>> \o <<>>) = (x.from .. x.to) \cup Covered(<<>>)
          BY <5>2, CoveredFirst
        <5>1. /\ <<Row(j)>> \o <<>> \in Seq(P)
              /\ Covered(<<Row(j)>> \o <<>>) = (Row(j).from .. Row(j).to) \cup Covered(<<>>)
          BY <5>3 DEF x
        <5> QED BY <2>4, <4>1, <4>2, <5>1
      <4> QED BY <4>3
    <3>2. CASE ~(To(j) >= n)
      <4>1. To(j) < n
        BY <1>1, <2>4, <3>2
      <4>2. Next(j) \in Nat /\ Next(j) > j /\ Next(j) <= n /\ Next(j) <= To(j) + 1
        BY <1>2, <2>1, <4>1
      <4>3. Next(j) \in n - k + 1 .. n
        BY <1>1, <2>4, <4>2 DEF j
      <4>4. after[Next(j)] \in Seq(P) /\ Covered(after[Next(j)]) = Next(j) .. n
        BY <2>2, <4>3
      <4>5. after[j] = <<Row(j)>> \o after[Next(j)]
        BY <2>3, <3>2
      <4>6. after[j] \in Seq(P) /\ Covered(after[j]) = (j .. To(j)) \cup (Next(j) .. n)
        <5> DEFINE x == Row(j)
                   rest == after[Next(j)]
        <5>2. x \in P /\ rest \in Seq(P)
          BY <2>4, <4>4
        <5> HIDE DEF x, rest, P
        <5>3. <<x>> \o rest \in Seq(P) /\ Covered(<<x>> \o rest) = (x.from .. x.to) \cup Covered(rest)
          BY <5>2, CoveredFirst
        <5>1. /\ <<Row(j)>> \o after[Next(j)] \in Seq(P)
              /\ Covered(<<Row(j)>> \o after[Next(j)]) = (Row(j).from .. Row(j).to) \cup Covered(after[Next(j)])
          BY <5>3 DEF x, rest
        <5> QED BY <2>4, <4>4, <4>5, <5>1
      <4>7. (j .. To(j)) \cup (Next(j) .. n) = j .. n
        BY <1>1, <2>4, <4>1, <4>2
      <4> QED BY <4>6, <4>7
    <3> QED BY <3>1, <3>2
  <2> HIDE DEF Is
  <2> QED BY <2>1, <2>2, <2>5
<1>11. Is(1)
  <2>1. Nat \subseteq U
    <3> HIDE DEF U
    <3> QED BY <1>9, <1>10, InductionSet
  <2>2. 1 \in n - n + 1 .. n
    BY <1>1
  <2> HIDE DEF Is
  <2> QED BY <1>1, <2>1, <2>2
<1> QED BY <1>6, <1>11 DEF n, P

(* Documents, the ids they have, and windows.                                          *)
Written(r, texts, fs, fields) ==
    UNION {indexChunks(r, f, texts[f], symbolUnits(texts[f]), fields) : f \in fs}
AllDocs ==
    UNION {indexChunks(r, f, t, symbolUnits(t), fields) :
               r \in KeyRepos, f \in KeyPaths, t \in DOMAIN Texts, fields \in SUBSET OptionalFields}
DocIDs == KeyRepos \X KeyPaths \X (Nat \ {0})
WindowTexts == UNION {[D -> DOMAIN Texts] : D \in SUBSET KeyPaths}
Windows ==
    [pc : {"idle", "cut", "sweep", "applied"}, texts : WindowTexts, left : SUBSET KeyPaths,
     unlabelled : SUBSET KeyPaths, unpublished : SUBSET KeyPaths, stale : SUBSET DocIDs,
     writes : SUBSET AllDocs, complete : BOOLEAN]

Mine(ds, r, f) == {d \in ds : d.repo = r /\ d.path = f}

LEMMA ChunkCount ==
    ASSUME NEW t \in DOMAIN Texts
    PROVE  Len(Chunks(t)) \in Nat /\ DOMAIN Chunks(t) = 1 .. Len(Chunks(t))
<1>1. Chunks(t) \in Seq(Pieces(Texts[t].lines))
  BY ChunksCover
<1> QED BY <1>1

LEMMA ChunkDocs ==
    ASSUME NEW r, NEW f, NEW t \in DOMAIN Texts, NEW syms, NEW fields, NEW d
    PROVE  /\ d \in indexChunks(r, f, t, syms, fields) =>
                /\ d.repo = r /\ d.path = f /\ d.ordinal \in 1 .. Len(Chunks(t)) /\ d.ordinal \in Nat \ {0}
                /\ d.lines = Chunks(t)[d.ordinal]
           /\ {x.ordinal : x \in indexChunks(r, f, t, syms, fields)} = 1 .. Len(Chunks(t))
<1> DEFINE chunks == Chunks(t)
           doc(i) == [repo |-> r, path |-> f, ordinal |-> i, lines |-> chunks[i], text |-> t,
                      label |-> dominantUnit(syms, chunks[i]), fields |-> fields]
<1>1. indexChunks(r, f, t, syms, fields) = {doc(i) : i \in 1 .. Len(chunks)}
  BY ChunkCount DEF indexChunks
<1>2. \A i \in 1 .. Len(chunks) : doc(i).repo = r /\ doc(i).path = f /\ doc(i).ordinal = i /\ doc(i).lines = chunks[i]
  OBVIOUS
<1>3. \A i \in 1 .. Len(chunks) : i \in Nat \ {0}
  BY ChunkCount
<1> HIDE DEF doc
<1> QED BY <1>1, <1>2, <1>3

LEMMA OfIts ==
    ASSUME NEW r, NEW f, NEW t \in DOMAIN Texts, NEW syms, NEW fields,
           NEW d \in indexChunks(r, f, t, syms, fields)
    PROVE  d.repo = r /\ d.path = f /\ d.ordinal \in Nat \ {0} /\ d.ordinal \in 1 .. Len(Chunks(t))
<1> QED BY ChunkDocs

LEMMA DocTypes ==
    ASSUME NEW d \in AllDocs
    PROVE  d.repo \in KeyRepos /\ d.path \in KeyPaths /\ d.ordinal \in Nat \ {0} /\ chunkDocID(d) \in DocIDs
<1>1. PICK r \in KeyRepos, f \in KeyPaths, t \in DOMAIN Texts, fields \in SUBSET OptionalFields :
         d \in indexChunks(r, f, t, symbolUnits(t), fields)
  BY DEF AllDocs
<1>2. d.repo = r /\ d.path = f /\ d.ordinal \in Nat \ {0}
  BY <1>1, OfIts
<1> QED BY <1>2 DEF chunkDocID, DocIDs

LEMMA IndexedDocs ==
    ASSUME NEW r \in KeyRepos, NEW f \in KeyPaths, NEW t \in DOMAIN Texts, NEW fields \in SUBSET OptionalFields
    PROVE  indexChunks(r, f, t, symbolUnits(t), fields) \subseteq AllDocs
  BY DEF AllDocs

(* The window of a repository: what the sweeps have written so far is what the files     *)
(* swept give, labelled by their own symbols; the stale chunks that were looked up are     *)
(* still all there is, since no other batch of the repository adds to them.               *)
TextsOfWindow(w) ==
    /\ w.unpublished \subseteq DOMAIN w.texts /\ DOMAIN w.texts \subseteq KeyPaths
    /\ \A f \in DOMAIN w.texts : w.texts[f] \in DOMAIN Texts

Swept(r, w, fields) ==
    /\ w.left \cap w.unlabelled = {} /\ w.left \cup w.unlabelled \subseteq DOMAIN w.texts
    /\ w.writes = Written(r, w.texts, DOMAIN w.texts \ (w.left \cup w.unlabelled), fields)

StaleFound(r, w, ds) ==
    /\ w.complete => \A d \in ds : d.repo = r /\ d.path \in DOMAIN w.texts
                                     /\ d.ordinal > Len(Chunks(w.texts[d.path])) => chunkDocID(d) \in w.stale
    /\ \A id \in w.stale : id[1] = r /\ id[2] \in DOMAIN w.texts /\ id[3] > Len(Chunks(w.texts[id[2]]))

WindowIs(r, w, ds, fields) ==
    /\ TextsOfWindow(w)
    /\ w.pc = "cut" => w.writes = {} /\ w.unlabelled = {}
    /\ w.pc = "sweep" => Swept(r, w, fields) /\ StaleFound(r, w, ds)

WindowsInv ==
    /\ windows \in [KeyRepos -> Windows]
    /\ \A r \in KeyRepos : WindowIs(r, windows[r], docs, shape)

(* What the cache holds of a key is what a parse of its text gives.                      *)
HonestCache(c) ==
    \A k \in Entries(c) : c.byKey[k] = k[3] /\ Texts[k[3]].annotated /\ Texts[k[3]].parses

CacheInv == CacheBounded(cache) /\ HonestCache(cache)

Exact(ds, r, f, t, fields) ==
    /\ t > 0 => Mine(ds, r, f) = indexChunks(r, f, t, symbolUnits(t), fields)
    /\ t = 0 => Mine(ds, r, f) = {}

Expectations == [KeyRepos -> [KeyPaths -> {Unsure, 0} \cup DOMAIN Texts]]

DocsInv ==
    /\ docs \subseteq AllDocs /\ shape \in SUBSET OptionalFields /\ expected \in Expectations
    /\ \A r \in KeyRepos, f \in KeyPaths : Exact(docs, r, f, expected[r][f], shape)

SegmentsInv ==
    /\ layout \in [root : Nat, disk : Nat]
    /\ compaction \in [pc : {"idle", "settling"},
                       report : {"none", "merged", "compact", "settled", "timeout"}]
    /\ compaction.report \in {"merged", "compact", "settled", "timeout"} => layout.root <= 1
    /\ compaction.report = "settled" => layout.disk <= 1

KeyInv == WindowsInv /\ CacheInv /\ DocsInv /\ SegmentsInv

LEMMA LowestPath ==
    ASSUME NEW fs \in SUBSET KeyPaths, fs # {}
    PROVE  Min(fs) \in fs
<1>1. fs \in SUBSET Nat
  BY KeywordIndexAssumption
<1>2. \E n \in fs : \A m \in fs : n <= m
  BY <1>1, LeastNumber
<1> QED BY <1>2 DEF Min

LEMMA IdleIs ==
    ASSUME NEW r, NEW ds, NEW fields
    PROVE  Idle \in Windows /\ WindowIs(r, Idle, ds, fields)
<1>1. <<>> \in WindowTexts
  <2>1. <<>> \in [{} -> DOMAIN Texts]
    OBVIOUS
  <2> QED BY <2>1 DEF WindowTexts
<1>2. Idle \in Windows
  BY <1>1 DEF Idle, Windows
<1>3. DOMAIN <<>> = {}
  OBVIOUS
<1>4. Idle.pc = "idle" /\ Idle.texts = <<>> /\ Idle.unpublished = {}
  BY DEF Idle
<1> QED BY <1>2, <1>3, <1>4 DEF WindowIs, TextsOfWindow

LEMMA EmptyCache ==
    CacheBounded([byKey |-> <<>>, order |-> <<>>]) /\ HonestCache([byKey |-> <<>>, order |-> <<>>])
<1> DEFINE c == [byKey |-> <<>>, order |-> <<>>]
<1>1. CacheCap \in Nat
  BY KeywordIndexAssumption
<1>2. Entries(c) = {} /\ c.order = <<>> /\ Len(<<>>) = 0
  BY DEF Entries
<1>3. <<>> \in Seq(Keys) /\ <<>> \in [{} -> DOMAIN Texts] /\ {} \in SUBSET Keys
  OBVIOUS
<1>4. <<>> \in SymbolMaps
  BY <1>3 DEF SymbolMaps
<1>5. c \in Caches
  BY <1>3, <1>4 DEF Caches
<1>6. LivePlaces(<<>>, {}) = {}
  BY DEF LivePlaces
<1> HIDE DEF c
<1>7. CacheBounded(c)
  <2>1. Cardinality(LivePlaces(c.order, Entries(c))) = 0 /\ Cardinality(Entries(c)) = 0 /\ Len(c.order) = 0
    BY <1>2, <1>6, FS_EmptySet
  <2>2. Entries(c) \subseteq Range(c.order)
    BY <1>2
  <2> QED BY <1>1, <1>5, <2>1, <2>2 DEF CacheBounded, Ordered
<1> QED BY <1>2, <1>7 DEF HonestCache, c

LEMMA KeyStart == KeyInit => KeyInv
<1> SUFFICES ASSUME KeyInit PROVE KeyInv
  OBVIOUS
<1>1. WindowsInv
  BY IdleIs DEF KeyInit, WindowsInv
<1>2. CacheInv
  BY EmptyCache DEF KeyInit, CacheInv
<1>3. DocsInv
  <2>1. docs = {} /\ shape \in SUBSET OptionalFields /\ expected = [r \in KeyRepos |-> [f \in KeyPaths |-> 0]]
    BY DEF KeyInit
  <2> QED BY <2>1 DEF DocsInv, Exact, Mine, Expectations
<1>4. SegmentsInv
  BY DEF KeyInit, SegmentsInv
<1> QED BY <1>1, <1>2, <1>3, <1>4 DEF KeyInv

(* The window of one repository changes, and what is below it does not.                   *)
LEMMA WindowMoves ==
    ASSUME WindowsInv, NEW r \in KeyRepos, NEW w \in Windows, WindowIs(r, w, docs, shape),
           windows' = [windows EXCEPT ![r] = w], UNCHANGED <<docs, shape>>
    PROVE  WindowsInv'
<1>1. windows' \in [KeyRepos -> Windows] /\ \A q \in KeyRepos : windows'[q] = IF q = r THEN w ELSE windows[q]
  BY DEF WindowsInv
<1>2. \A q \in KeyRepos : WindowIs(q, windows'[q], docs', shape')
  BY <1>1 DEF WindowsInv
<1> QED BY <1>1, <1>2 DEF WindowsInv

LEMMA Unmoved ==
    /\ WindowsInv /\ UNCHANGED <<windows, docs, shape>> => WindowsInv'
    /\ CacheInv /\ UNCHANGED cache => CacheInv'
    /\ DocsInv /\ UNCHANGED <<docs, shape, expected>> => DocsInv'
    /\ SegmentsInv /\ UNCHANGED <<layout, compaction>> => SegmentsInv'
  BY DEF WindowsInv, CacheInv, DocsInv, SegmentsInv

(* The fields of a window after one or two of them changed.                              *)
LEMMA WindowWith ==
    ASSUME NEW w \in Windows
    PROVE  /\ \A x \in SUBSET KeyPaths :
                 /\ [w EXCEPT !.left = x] \in Windows /\ [w EXCEPT !.unlabelled = x] \in Windows
                 /\ [w EXCEPT !.unpublished = x] \in Windows
           /\ \A x \in SUBSET AllDocs : [w EXCEPT !.writes = x] \in Windows
           /\ \A x \in {"idle", "cut", "sweep", "applied"} : [w EXCEPT !.pc = x] \in Windows
  BY DEF Windows

LEMMA StartWindowKeeps ==
    ASSUME KeyInv, NEW r \in KeyRepos, NEW fs \in SUBSET KeyPaths, NEW texts \in [fs -> DOMAIN Texts],
           StartWindow(r, texts)
    PROVE  KeyInv'
<1> DEFINE w == [Idle EXCEPT !.pc = "cut", !.texts = texts, !.unpublished = DOMAIN texts]
           i1 == [Idle EXCEPT !.pc = "cut"]
           i2 == [i1 EXCEPT !.texts = texts]
           i3 == [i2 EXCEPT !.unpublished = DOMAIN texts]
<1>1. w = i3
  OBVIOUS
<1>2. /\ i3 \in Windows /\ i3.pc = "cut" /\ i3.texts = texts /\ i3.unpublished = DOMAIN texts
      /\ i3.writes = {} /\ i3.unlabelled = {}
  <2>1. texts \in WindowTexts /\ DOMAIN texts \in SUBSET KeyPaths
    BY DEF WindowTexts
  <2>2. Idle \in Windows /\ Idle.writes = {} /\ Idle.unlabelled = {}
    BY IdleIs DEF Idle
  <2>3. i1 \in Windows /\ i1.pc = "cut" /\ i1.writes = {} /\ i1.unlabelled = {}
    BY <2>2 DEF Windows
  <2> HIDE DEF i1
  <2>4. i2 \in Windows /\ i2.pc = "cut" /\ i2.texts = texts /\ i2.writes = {} /\ i2.unlabelled = {}
    BY <2>1, <2>3 DEF Windows
  <2> HIDE DEF i2
  <2> QED BY <2>1, <2>4 DEF Windows
<1>4. windows' = [windows EXCEPT ![r] = i3] /\ UNCHANGED <<docs, cache, layout, compaction, shape, expected>>
  BY <1>1 DEF StartWindow, w
<1> HIDE DEF w, i3
<1>3. WindowIs(r, i3, docs, shape)
  BY <1>2 DEF WindowIs, TextsOfWindow
<1> QED BY <1>2, <1>3, <1>4, WindowMoves, Unmoved DEF KeyInv

LEMMA PublishKeeps ==
    ASSUME KeyInv, NEW r \in KeyRepos, NEW f \in KeyPaths, PublishSymbols(r, f)
    PROVE  KeyInv'
<1> DEFINE w == windows[r]
           t == w.texts[f]
           v == [w EXCEPT !.unpublished = @ \ {f}]
<1>1. w \in Windows /\ WindowIs(r, w, docs, shape) /\ f \in w.unpublished
  BY DEF KeyInv, WindowsInv, PublishSymbols
<1>2. t \in DOMAIN Texts
  BY <1>1 DEF WindowIs, TextsOfWindow
<1> HIDE DEF w
<1>3. v \in Windows
  BY <1>1, WindowWith DEF Windows
<1>4. /\ v.unpublished = w.unpublished \ {f} /\ v.texts = w.texts /\ v.pc = w.pc /\ v.writes = w.writes
      /\ v.left = w.left /\ v.unlabelled = w.unlabelled /\ v.stale = w.stale /\ v.complete = w.complete
  BY <1>1 DEF Windows
<1> HIDE DEF v
<1>5. WindowIs(r, v, docs, shape)
  BY <1>1, <1>4 DEF WindowIs, TextsOfWindow, Swept, StaleFound
<1>6. windows' = [windows EXCEPT ![r] = v] /\ UNCHANGED <<docs, layout, compaction, shape, expected>>
  BY DEF PublishSymbols, v, w
<1>7. CacheInv'
  <2>1. CASE Texts[t].annotated /\ Texts[t].parses
    <3> DEFINE p == Put(cache, r, f, t)
    <3>1. cache' = p
      BY <2>1 DEF PublishSymbols, w
    <3>2. /\ CacheBounded(p) /\ Entries(p) \subseteq Entries(cache) \cup {<<r, f, t>>}
          /\ \A k \in Entries(p) : p.byKey[k] = IF k = <<r, f, t>> THEN t ELSE cache.byKey[k]
      <4> HIDE DEF t
      <4> QED BY <1>2, PutBounded DEF KeyInv, CacheInv
    <3> HIDE DEF p, t
    <3>3. HonestCache(p)
      <4> SUFFICES ASSUME NEW k \in Entries(p)
                   PROVE  p.byKey[k] = k[3] /\ Texts[k[3]].annotated /\ Texts[k[3]].parses
        BY DEF HonestCache
      <4>1. CASE k = <<r, f, t>>
        BY <2>1, <3>2, <4>1
      <4>2. CASE k # <<r, f, t>>
        BY <3>2, <4>2 DEF KeyInv, CacheInv, HonestCache
      <4> QED BY <4>1, <4>2
    <3> QED BY <3>1, <3>2, <3>3 DEF CacheInv
  <2>2. CASE ~(Texts[t].annotated /\ Texts[t].parses)
    <3>1. cache' = cache
      BY <2>2 DEF PublishSymbols, w
    <3> QED BY <3>1, Unmoved DEF KeyInv
  <2> QED BY <2>1, <2>2
<1> QED BY <1>3, <1>5, <1>6, <1>7, WindowMoves, Unmoved DEF KeyInv

LEMMA CutKeeps ==
    ASSUME KeyInv, NEW r \in KeyRepos, NEW found \in BOOLEAN, CutChunks(r, found)
    PROVE  KeyInv'
<1> DEFINE w == windows[r]
           stale == IF found THEN dropStaleChunks(r, w.texts) ELSE {}
           v == [w EXCEPT !.pc = "sweep", !.left = DOMAIN w.texts, !.complete = found, !.stale = stale]
<1>1. w \in Windows /\ WindowIs(r, w, docs, shape) /\ w.pc = "cut" /\ w.writes = {} /\ w.unlabelled = {}
  BY DEF KeyInv, WindowsInv, WindowIs, CutChunks
<1>2. windows' = [windows EXCEPT ![r] = v] /\ UNCHANGED <<docs, cache, layout, compaction, shape, expected>>
  BY DEF CutChunks
<1> HIDE DEF w
<1>3. stale \in SUBSET DocIDs
  <2>1. ASSUME NEW d \in docs PROVE chunkDocID(d) \in DocIDs
    BY DocTypes DEF KeyInv, DocsInv
  <2> QED BY <2>1 DEF dropStaleChunks
<1>4. /\ \A id \in stale : id[1] = r /\ id[2] \in DOMAIN w.texts /\ id[3] > Len(Chunks(w.texts[id[2]]))
      /\ found => \A d \in docs : d.repo = r /\ d.path \in DOMAIN w.texts
                                    /\ d.ordinal > Len(Chunks(w.texts[d.path])) => chunkDocID(d) \in stale
  <2>1. ASSUME NEW d PROVE chunkDocID(d)[1] = d.repo /\ chunkDocID(d)[2] = d.path /\ chunkDocID(d)[3] = d.ordinal
    BY DEF chunkDocID
  <2> QED BY <2>1 DEF dropStaleChunks
<1> HIDE DEF stale
<1> DEFINE w1 == [w EXCEPT !.pc = "sweep"]
           w2 == [w1 EXCEPT !.left = DOMAIN w.texts]
           w3 == [w2 EXCEPT !.complete = found]
           w4 == [w3 EXCEPT !.stale = stale]
<1>5. v = w4
  OBVIOUS
<1>6. DOMAIN w.texts \in SUBSET KeyPaths
  BY <1>1 DEF WindowIs, TextsOfWindow
<1>7. /\ w1 \in Windows /\ w1.pc = "sweep" /\ w1.texts = w.texts /\ w1.unlabelled = w.unlabelled
      /\ w1.unpublished = w.unpublished /\ w1.writes = w.writes
  BY <1>1 DEF Windows
<1> HIDE DEF w1, v
<1>8. /\ w2 \in Windows /\ w2.pc = "sweep" /\ w2.texts = w.texts /\ w2.unlabelled = w.unlabelled
      /\ w2.unpublished = w.unpublished /\ w2.writes = w.writes /\ w2.left = DOMAIN w.texts
  BY <1>6, <1>7 DEF Windows
<1> HIDE DEF w2
<1>9. /\ w3 \in Windows /\ w3.pc = "sweep" /\ w3.texts = w.texts /\ w3.unlabelled = w.unlabelled
      /\ w3.unpublished = w.unpublished /\ w3.writes = w.writes /\ w3.left = DOMAIN w.texts /\ w3.complete = found
  BY <1>8 DEF Windows
<1> HIDE DEF w3
<1>10. /\ w4 \in Windows /\ w4.pc = "sweep" /\ w4.texts = w.texts /\ w4.unlabelled = w.unlabelled
       /\ w4.unpublished = w.unpublished /\ w4.writes = w.writes /\ w4.left = DOMAIN w.texts /\ w4.complete = found
       /\ w4.stale = stale
  BY <1>3, <1>9 DEF Windows
<1> HIDE DEF w4
<1>11. Swept(r, w4, shape)
  BY <1>1, <1>10 DEF Swept, Written
<1>12. StaleFound(r, w4, docs)
  BY <1>4, <1>10 DEF StaleFound
<1>13. WindowIs(r, w4, docs, shape)
  BY <1>1, <1>10, <1>11, <1>12 DEF WindowIs, TextsOfWindow
<1> QED BY <1>2, <1>5, <1>10, <1>13, WindowMoves, Unmoved DEF KeyInv

(* Whoever parsed the text, its symbols are the same.                                   *)
LEMMA HeldSymbols ==
    ASSUME KeyInv, NEW r, NEW f, NEW t, Held(r, f, t)
    PROVE  Texts[cache.byKey[symbolKey(r, f, t)]].symbols = symbolUnits(t)
<1>1. <<r, f, t>> \in Entries(cache)
  BY DEF Held, symbolKey, Entries
<1>2. cache.byKey[<<r, f, t>>] = t /\ Texts[t].annotated /\ Texts[t].parses
  BY <1>1 DEF KeyInv, CacheInv, HonestCache
<1> QED BY <1>2 DEF symbolKey, symbolUnits

LEMMA TakeKeeps ==
    ASSUME KeyInv, NEW r, NEW f, NEW t, Take(r, f, t)
    PROVE  CacheInv'
<1>1. CacheBounded(cache') /\ Shrunk(cache, cache')
  BY TakeBounded DEF KeyInv, CacheInv, Take
<1> QED BY <1>1 DEF KeyInv, CacheInv, HonestCache, Shrunk

(* One more file written.                                                             *)
LEMMA WrittenMore ==
    ASSUME NEW r, NEW texts, NEW fs, NEW f, NEW fields
    PROVE  Written(r, texts, fs \cup {f}, fields)
             = Written(r, texts, fs, fields) \cup indexChunks(r, f, texts[f], symbolUnits(texts[f]), fields)
  BY DEF Written

LEMMA FirstSweepKeeps ==
    ASSUME KeyInv, NEW r \in KeyRepos, FirstSweep(r)
    PROVE  KeyInv'
<1> DEFINE w == windows[r]
           f == Min(w.left)
           t == w.texts[f]
           syms == Texts[cache.byKey[symbolKey(r, f, t)]].symbols
           more == indexChunks(r, f, t, syms, shape)
<1>1. w \in Windows /\ WindowIs(r, w, docs, shape) /\ w.pc = "sweep" /\ w.left # {}
  BY DEF KeyInv, WindowsInv, FirstSweep
<1>2. f \in w.left /\ f \in KeyPaths
  <2>1. w.left \in SUBSET KeyPaths
    BY <1>1 DEF Windows
  <2> QED BY <1>1, <2>1, LowestPath
<1>3. f \in DOMAIN w.texts /\ t \in DOMAIN Texts /\ f \notin w.unlabelled
  BY <1>1, <1>2 DEF WindowIs, TextsOfWindow, Swept
<1>4. UNCHANGED <<docs, layout, compaction, shape, expected>> /\ shape \in SUBSET OptionalFields
  BY DEF FirstSweep, KeyInv, DocsInv
<1>5. CASE Held(r, f, t)
  <2> DEFINE v == [w EXCEPT !.left = @ \ {f}, !.writes = @ \cup more]
  <2>1. Take(r, f, t) /\ windows' = [windows EXCEPT ![r] = v]
    BY <1>5 DEF FirstSweep
  <2>2. more = indexChunks(r, f, t, symbolUnits(t), shape) /\ more \subseteq AllDocs
    <3>1. syms = symbolUnits(t)
      BY <1>5, HeldSymbols
    <3> QED BY <3>1, <1>2, <1>3, <1>4, IndexedDocs
  <2>3. v = [[w EXCEPT !.left = w.left \ {f}] EXCEPT !.writes = w.writes \cup more]
    OBVIOUS
  <2> HIDE DEF w, f, more, v
  <2> DEFINE w1 == [w EXCEPT !.left = w.left \ {f}]
             w2 == [w1 EXCEPT !.writes = w.writes \cup more]
  <2>4. /\ w1 \in Windows /\ w1.pc = "sweep" /\ w1.texts = w.texts /\ w1.unlabelled = w.unlabelled
        /\ w1.unpublished = w.unpublished /\ w1.left = w.left \ {f} /\ w1.stale = w.stale
        /\ w1.complete = w.complete
    BY <1>1 DEF Windows
  <2> HIDE DEF w1
  <2>5. /\ w2 \in Windows /\ w2.pc = "sweep" /\ w2.texts = w.texts /\ w2.unlabelled = w.unlabelled
        /\ w2.unpublished = w.unpublished /\ w2.left = w.left \ {f} /\ w2.stale = w.stale
        /\ w2.complete = w.complete /\ w2.writes = w.writes \cup more
    BY <1>1, <2>2, <2>4 DEF Windows
  <2> HIDE DEF w2
  <2>6. Swept(r, w2, shape)
    <3> DEFINE fs == DOMAIN w.texts \ (w.left \cup w.unlabelled)
               gs == DOMAIN w2.texts \ (w2.left \cup w2.unlabelled)
    <3>1. gs = fs \cup {f}
      BY <1>2, <1>3, <2>5
    <3>2. w.writes = Written(r, w.texts, fs, shape)
      BY <1>1 DEF WindowIs, Swept
    <3> HIDE DEF fs, gs
    <3>4. Written(r, w.texts, fs \cup {f}, shape)
            = Written(r, w.texts, fs, shape) \cup indexChunks(r, f, w.texts[f], symbolUnits(w.texts[f]), shape)
      BY WrittenMore
    <3>3. w2.writes = Written(r, w2.texts, gs, shape)
      BY <2>2, <2>5, <3>1, <3>2, <3>4
    <3> QED BY <1>1, <2>5, <3>3 DEF WindowIs, Swept, gs
  <2>7. WindowIs(r, w2, docs, shape)
    BY <1>1, <2>5, <2>6 DEF WindowIs, TextsOfWindow, StaleFound
  <2>8. windows' = [windows EXCEPT ![r] = w2]
    BY <2>1, <2>3 DEF w1, w2
  <2>9. CacheInv'
    BY <2>1, TakeKeeps
  <2> QED BY <1>4, <2>5, <2>7, <2>8, <2>9, WindowMoves, Unmoved DEF KeyInv
<1>6. CASE ~Held(r, f, t)
  <2> DEFINE v == [w EXCEPT !.left = @ \ {f}, !.unlabelled = @ \cup {f}]
  <2>1. cache' = cache /\ windows' = [windows EXCEPT ![r] = v]
    BY <1>6 DEF FirstSweep
  <2>2. v = [[w EXCEPT !.left = w.left \ {f}] EXCEPT !.unlabelled = w.unlabelled \cup {f}]
    OBVIOUS
  <2> HIDE DEF w, f, v
  <2> DEFINE w1 == [w EXCEPT !.left = w.left \ {f}]
             w2 == [w1 EXCEPT !.unlabelled = w.unlabelled \cup {f}]
  <2>3. /\ w1 \in Windows /\ w1.pc = "sweep" /\ w1.texts = w.texts /\ w1.writes = w.writes
        /\ w1.unpublished = w.unpublished /\ w1.left = w.left \ {f} /\ w1.stale = w.stale
        /\ w1.complete = w.complete
    BY <1>1 DEF Windows
  <2> HIDE DEF w1
  <2>4. /\ w2 \in Windows /\ w2.pc = "sweep" /\ w2.texts = w.texts /\ w2.writes = w.writes
        /\ w2.unpublished = w.unpublished /\ w2.left = w.left \ {f} /\ w2.stale = w.stale
        /\ w2.complete = w.complete /\ w2.unlabelled = w.unlabelled \cup {f}
    BY <1>1, <1>2, <2>3 DEF Windows
  <2> HIDE DEF w2
  <2>5. Swept(r, w2, shape)
    <3>1. w2.left \cup w2.unlabelled = w.left \cup w.unlabelled
      BY <1>2, <2>4
    <3>2. w2.left \cap w2.unlabelled = {}
      BY <1>1, <1>3, <2>4 DEF WindowIs, Swept
    <3> QED BY <1>1, <2>4, <3>1, <3>2 DEF WindowIs, Swept
  <2>6. WindowIs(r, w2, docs, shape)
    BY <1>1, <2>4, <2>5 DEF WindowIs, TextsOfWindow, StaleFound
  <2>7. windows' = [windows EXCEPT ![r] = w2]
    BY <2>1, <2>2 DEF w1, w2
  <2> QED BY <1>4, <2>1, <2>4, <2>6, <2>7, WindowMoves, Unmoved DEF KeyInv
<1> QED BY <1>5, <1>6

LEMMA SecondSweepKeeps ==
    ASSUME KeyInv, NEW r \in KeyRepos, SecondSweep(r)
    PROVE  KeyInv'
<1> DEFINE w == windows[r]
           f == Min(w.unlabelled)
           t == w.texts[f]
           syms == IF Held(r, f, t) THEN Texts[cache.byKey[symbolKey(r, f, t)]].symbols ELSE symbolUnits(t)
           more == indexChunks(r, f, t, syms, shape)
           v == [w EXCEPT !.unlabelled = @ \ {f}, !.writes = @ \cup more]
<1>1. w \in Windows /\ WindowIs(r, w, docs, shape) /\ w.pc = "sweep" /\ w.left = {} /\ w.unlabelled # {}
  BY DEF KeyInv, WindowsInv, SecondSweep
<1>2. f \in w.unlabelled /\ f \in KeyPaths
  <2>1. w.unlabelled \in SUBSET KeyPaths
    BY <1>1 DEF Windows
  <2> QED BY <1>1, <2>1, LowestPath
<1>3. f \in DOMAIN w.texts /\ t \in DOMAIN Texts /\ f \notin w.left
  BY <1>1, <1>2 DEF WindowIs, TextsOfWindow, Swept
<1>4. UNCHANGED <<docs, layout, compaction, shape, expected>> /\ shape \in SUBSET OptionalFields
  BY DEF SecondSweep, KeyInv, DocsInv
<1>5. windows' = [windows EXCEPT ![r] = v]
  BY DEF SecondSweep
<1>6. more = indexChunks(r, f, t, symbolUnits(t), shape) /\ more \subseteq AllDocs
  <2>1. syms = symbolUnits(t)
    BY HeldSymbols
  <2> QED BY <2>1, <1>2, <1>3, <1>4, IndexedDocs
<1>7. CacheInv'
  <2>1. CASE Held(r, f, t)
    BY <2>1, TakeKeeps DEF SecondSweep
  <2>2. CASE ~Held(r, f, t)
    BY <2>2, Unmoved DEF SecondSweep, KeyInv
  <2> QED BY <2>1, <2>2
<1>8. v = [[w EXCEPT !.unlabelled = w.unlabelled \ {f}] EXCEPT !.writes = w.writes \cup more]
  OBVIOUS
<1> HIDE DEF w, f, syms, more, v
<1> DEFINE w1 == [w EXCEPT !.unlabelled = w.unlabelled \ {f}]
           w2 == [w1 EXCEPT !.writes = w.writes \cup more]
<1>9. /\ w1 \in Windows /\ w1.pc = "sweep" /\ w1.texts = w.texts /\ w1.left = w.left
      /\ w1.unpublished = w.unpublished /\ w1.unlabelled = w.unlabelled \ {f} /\ w1.stale = w.stale
      /\ w1.complete = w.complete
  BY <1>1 DEF Windows
<1> HIDE DEF w1
<1>10. /\ w2 \in Windows /\ w2.pc = "sweep" /\ w2.texts = w.texts /\ w2.left = w.left
       /\ w2.unpublished = w.unpublished /\ w2.unlabelled = w.unlabelled \ {f} /\ w2.stale = w.stale
       /\ w2.complete = w.complete /\ w2.writes = w.writes \cup more
  BY <1>1, <1>6, <1>9 DEF Windows
<1> HIDE DEF w2
<1>11. Swept(r, w2, shape)
  <2> DEFINE fs == DOMAIN w.texts \ (w.left \cup w.unlabelled)
             gs == DOMAIN w2.texts \ (w2.left \cup w2.unlabelled)
  <2>1. gs = fs \cup {f}
    BY <1>2, <1>3, <1>10
  <2>2. w.writes = Written(r, w.texts, fs, shape)
    BY <1>1 DEF WindowIs, Swept
  <2> HIDE DEF fs, gs
  <2>4. Written(r, w.texts, fs \cup {f}, shape)
          = Written(r, w.texts, fs, shape) \cup indexChunks(r, f, w.texts[f], symbolUnits(w.texts[f]), shape)
    BY WrittenMore
  <2>3. w2.writes = Written(r, w2.texts, gs, shape)
    BY <1>6, <1>10, <2>1, <2>2, <2>4
  <2> QED BY <1>1, <1>10, <2>3 DEF WindowIs, Swept, gs
<1>12. WindowIs(r, w2, docs, shape)
  BY <1>1, <1>10, <1>11 DEF WindowIs, TextsOfWindow, StaleFound
<1>13. windows' = [windows EXCEPT ![r] = w2]
  BY <1>5, <1>8 DEF w1, w2
<1> QED BY <1>4, <1>7, <1>10, <1>12, <1>13, WindowMoves, Unmoved DEF KeyInv

(* The batch: the files of the window hold their chunks and no other, and every other    *)
(* file of the index is as it was.                                                       *)
LEMMA BatchExact ==
    ASSUME KeyInv, NEW r \in KeyRepos, ApplyBatch(r), NEW q \in KeyRepos, NEW f \in KeyPaths
    PROVE  /\ q = r /\ f \in DOMAIN windows[r].texts /\ windows[r].complete =>
                Mine(docs', q, f) = indexChunks(r, f, windows[r].texts[f], symbolUnits(windows[r].texts[f]), shape)
           /\ ~(q = r /\ f \in DOMAIN windows[r].texts) => Mine(docs', q, f) = Mine(docs, q, f)
<1> DEFINE w == windows[r]
           ids == w.stale \cup {chunkDocID(d) : d \in w.writes}
           fs == DOMAIN w.texts
<1>1. WindowIs(r, w, docs, shape) /\ w.pc = "sweep" /\ w.left = {} /\ w.unlabelled = {}
  BY DEF KeyInv, WindowsInv, ApplyBatch
<1>2. docs' = {d \in docs : chunkDocID(d) \notin ids} \cup w.writes
  BY DEF ApplyBatch
<1>3. w.writes = Written(r, w.texts, fs, shape) /\ StaleFound(r, w, docs) /\ TextsOfWindow(w)
  BY <1>1 DEF WindowIs, Swept
<1> HIDE DEF w
<1>4. ASSUME NEW g \in fs
      PROVE  w.texts[g] \in DOMAIN Texts
  BY <1>3 DEF TextsOfWindow
<1>5. ASSUME NEW d \in w.writes
      PROVE  /\ d.repo = r /\ d.path \in fs /\ d.ordinal \in 1 .. Len(Chunks(w.texts[d.path]))
             /\ d \in indexChunks(r, d.path, w.texts[d.path], symbolUnits(w.texts[d.path]), shape)
  <2>1. PICK g \in fs : d \in indexChunks(r, g, w.texts[g], symbolUnits(w.texts[g]), shape)
    BY <1>3, <1>5 DEF Written
  <2>2. d.repo = r /\ d.path = g /\ d.ordinal \in 1 .. Len(Chunks(w.texts[g]))
    BY <2>1, <1>4, OfIts
  <2> QED BY <2>1, <2>2
<1>6. ASSUME NEW d PROVE chunkDocID(d)[1] = d.repo /\ chunkDocID(d)[2] = d.path /\ chunkDocID(d)[3] = d.ordinal
  BY DEF chunkDocID
<1>7. ASSUME NEW id \in ids
      PROVE  id[1] = r /\ id[2] \in fs
  <2>1. CASE id \in w.stale
    BY <2>1, <1>3 DEF StaleFound
  <2>2. CASE id \notin w.stale
    BY <2>2, <1>5, <1>6
  <2> QED BY <2>1, <2>2
<1>8. ASSUME q = r, f \in fs, w.complete
      PROVE  Mine(docs', q, f) = indexChunks(r, f, w.texts[f], symbolUnits(w.texts[f]), shape)
  <2> DEFINE its == indexChunks(r, f, w.texts[f], symbolUnits(w.texts[f]), shape)
  <2>1. ASSUME NEW d \in its PROVE d \in Mine(docs', q, f)
    <3>1. d \in w.writes
      BY <1>3, <1>8 DEF Written
    <3>2. d.repo = r /\ d.path = f
      BY <1>8, <1>4, OfIts
    <3> QED BY <3>1, <3>2, <1>2, <1>8 DEF Mine
  <2>2. ASSUME NEW d \in Mine(docs', q, f) PROVE d \in its
    <3>1. d \in docs' /\ d.repo = r /\ d.path = f
      BY <1>8 DEF Mine
    <3>2. CASE d \in w.writes
      BY <3>1, <3>2, <1>5
    <3>3. CASE d \notin w.writes
      <4>1. d \in docs /\ chunkDocID(d) \notin ids
        BY <1>2, <3>1, <3>3
      <4>2. d \in AllDocs
        BY <4>1 DEF KeyInv, DocsInv
      <4>3. d.ordinal \in Nat \ {0}
        BY <4>2, DocTypes
      <4>4. w.texts[f] \in DOMAIN Texts
        BY <1>4, <1>8
      <4>5. CASE d.ordinal > Len(Chunks(w.texts[f]))
        BY <4>1, <4>5, <3>1, <1>3, <1>8 DEF StaleFound
      <4>6. CASE ~(d.ordinal > Len(Chunks(w.texts[f])))
        <5>1. d.ordinal \in 1 .. Len(Chunks(w.texts[f]))
          BY <4>3, <4>4, <4>6, ChunkCount
        <5>2. {x.ordinal : x \in its} = 1 .. Len(Chunks(w.texts[f]))
          <6> DEFINE syms == symbolUnits(w.texts[f])
          <6> HIDE DEF syms
          <6>1. {x.ordinal : x \in indexChunks(r, f, w.texts[f], syms, shape)} = 1 .. Len(Chunks(w.texts[f]))
            BY <4>4, ChunkDocs
          <6> QED BY <6>1 DEF syms
        <5>3. PICK x \in its : x.ordinal = d.ordinal
          BY <5>1, <5>2
        <5>4. x.repo = r /\ x.path = f
          BY <4>4, OfIts
        <5>5. x \in w.writes
          BY <5>3, <1>3, <1>8 DEF Written
        <5>6. chunkDocID(x) = chunkDocID(d)
          BY <5>3, <5>4, <3>1 DEF chunkDocID
        <5> QED BY <4>1, <5>5, <5>6
      <4> QED BY <4>5, <4>6
    <3> QED BY <3>2, <3>3
  <2> QED BY <2>1, <2>2
<1>9. ASSUME ~(q = r /\ f \in fs)
      PROVE  Mine(docs', q, f) = Mine(docs, q, f)
  <2>1. ASSUME NEW d, d.repo = q, d.path = f
        PROVE  d \in docs' <=> d \in docs
    <3>1. d \notin w.writes
      BY <2>1, <1>5, <1>9
    <3>2. chunkDocID(d) \notin ids
      BY <2>1, <1>6, <1>7, <1>9
    <3> QED BY <3>1, <3>2, <1>2
  <2> QED BY <2>1 DEF Mine
<1> QED BY <1>8, <1>9 DEF w

(* What a window has looked up stays right while the documents of its files do not grow. *)
LEMMA OthersGrew ==
    ASSUME NEW r, NEW w, NEW ds, NEW es, NEW fields, WindowIs(r, w, ds, fields),
           \A d \in es : d.repo = r => d \in ds
    PROVE  WindowIs(r, w, es, fields)
  BY DEF WindowIs, StaleFound

LEMMA BatchKeeps ==
    ASSUME KeyInv, NEW r \in KeyRepos, ApplyBatch(r)
    PROVE  KeyInv'
<1> DEFINE w == windows[r]
           v == [w EXCEPT !.pc = "applied"]
<1>1. w \in Windows /\ WindowIs(r, w, docs, shape) /\ w.pc = "sweep" /\ w.left = {} /\ w.unlabelled = {}
  BY DEF KeyInv, WindowsInv, ApplyBatch
<1>2. /\ windows' = [windows EXCEPT ![r] = v] /\ UNCHANGED <<cache, shape>>
      /\ layout' = [root |-> layout.root + 1, disk |-> layout.root + 1]
      /\ compaction' = [compaction EXCEPT !.report = "none"]
  BY DEF ApplyBatch
<1>3. \A d \in docs' : d \in docs \/ d \in w.writes
  BY DEF ApplyBatch
<1>4. expected' = [expected EXCEPT ![r] = [f \in KeyPaths |->
              IF f \notin DOMAIN w.texts THEN @[f] ELSE IF w.complete THEN w.texts[f] ELSE Unsure]]
  BY DEF ApplyBatch
<1>5. w.writes \subseteq AllDocs /\ \A d \in w.writes : d.repo = r
  <2>1. w.writes \subseteq AllDocs /\ w.writes = Written(r, w.texts, DOMAIN w.texts, shape) /\ TextsOfWindow(w)
    BY <1>1 DEF Windows, WindowIs, Swept
  <2>2. ASSUME NEW d \in w.writes PROVE d.repo = r
    <3>1. PICK g \in DOMAIN w.texts : d \in indexChunks(r, g, w.texts[g], symbolUnits(w.texts[g]), shape)
      BY <2>1, <2>2 DEF Written
    <3>2. w.texts[g] \in DOMAIN Texts
      BY <2>1 DEF TextsOfWindow
    <3> QED BY <3>1, <3>2, OfIts
  <2> QED BY <2>1, <2>2
<1>6. WindowsInv'
  <2>1. v \in Windows /\ v.pc = "applied" /\ v.texts = w.texts /\ v.unpublished = w.unpublished
    BY <1>1 DEF Windows
  <2> HIDE DEF w, v
  <2>2. windows' \in [KeyRepos -> Windows] /\ \A q \in KeyRepos : windows'[q] = IF q = r THEN v ELSE windows[q]
    BY <1>2, <2>1 DEF KeyInv, WindowsInv
  <2>3. ASSUME NEW q \in KeyRepos PROVE WindowIs(q, windows'[q], docs', shape)
    <3>1. CASE q = r
      BY <3>1, <1>1, <2>1, <2>2 DEF WindowIs, TextsOfWindow
    <3>2. CASE q # r
      <4>1. WindowIs(q, windows[q], docs, shape)
        BY DEF KeyInv, WindowsInv
      <4>2. \A d \in docs' : d.repo = q => d \in docs
        BY <1>3, <1>5, <3>2
      <4> QED BY <3>2, <2>2, <4>1, <4>2, OthersGrew
    <3> QED BY <3>1, <3>2
  <2> QED BY <1>2, <2>2, <2>3 DEF WindowsInv
<1>7. DocsInv'
  <2>1. docs' \subseteq AllDocs /\ shape' \in SUBSET OptionalFields
    BY <1>2, <1>3, <1>5 DEF KeyInv, DocsInv
  <2>2. /\ expected' \in Expectations
        /\ \A q \in KeyRepos, f \in KeyPaths :
              expected'[q][f] = IF q = r /\ f \in DOMAIN w.texts
                                THEN IF w.complete THEN w.texts[f] ELSE Unsure ELSE expected[q][f]
    <3>1. expected \in Expectations
      BY DEF KeyInv, DocsInv
    <3>2. \A f \in DOMAIN w.texts : w.texts[f] \in DOMAIN Texts
      BY <1>1 DEF WindowIs, TextsOfWindow
    <3> HIDE DEF w
    <3>3. ASSUME NEW f \in KeyPaths PROVE expected[r][f] \in {Unsure, 0} \cup DOMAIN Texts
      BY <3>1 DEF Expectations
    <3> DEFINE row == [f \in KeyPaths |->
              IF f \notin DOMAIN w.texts THEN expected[r][f] ELSE IF w.complete THEN w.texts[f] ELSE Unsure]
    <3>4. row \in [KeyPaths -> {Unsure, 0} \cup DOMAIN Texts]
      BY <3>2, <3>3
    <3>5. \A f \in KeyPaths : row[f] = IF f \in DOMAIN w.texts THEN IF w.complete THEN w.texts[f] ELSE Unsure ELSE expected[r][f]
      OBVIOUS
    <3>6. expected' = [expected EXCEPT ![r] = row]
      BY <1>4
    <3> HIDE DEF row
    <3> QED BY <3>1, <3>4, <3>5, <3>6 DEF Expectations
  <2>3. ASSUME NEW q \in KeyRepos, NEW f \in KeyPaths PROVE Exact(docs', q, f, expected'[q][f], shape)
    <3>1. CASE q = r /\ f \in DOMAIN w.texts
      <4>1. CASE w.complete
        <5>1. w.texts[f] \in DOMAIN Texts
          BY <1>1, <3>1 DEF WindowIs, TextsOfWindow
        <5>2. w.texts[f] > 0
          BY <5>1, KeywordIndexAssumption
        <5>3. Mine(docs', q, f) = indexChunks(r, f, w.texts[f], symbolUnits(w.texts[f]), shape)
          BY <3>1, <4>1, BatchExact
        <5> QED BY <2>2, <3>1, <4>1, <5>2, <5>3 DEF Exact
      <4>2. CASE ~w.complete
        BY <2>2, <3>1, <4>2 DEF Exact, Unsure
      <4> QED BY <4>1, <4>2
    <3>2. CASE ~(q = r /\ f \in DOMAIN w.texts)
      <4>1. Mine(docs', q, f) = Mine(docs, q, f)
        BY <3>2, BatchExact
      <4>2. Exact(docs, q, f, expected[q][f], shape)
        BY DEF KeyInv, DocsInv
      <4> QED BY <2>2, <3>2, <4>1, <4>2 DEF Exact
    <3> QED BY <3>1, <3>2
  <2> QED BY <1>2, <2>1, <2>2, <2>3 DEF DocsInv
<1>8. SegmentsInv'
  BY <1>2 DEF KeyInv, SegmentsInv
<1> QED BY <1>2, <1>6, <1>7, <1>8, Unmoved DEF KeyInv

LEMMA BatchFailsKeeps ==
    ASSUME KeyInv, NEW r \in KeyRepos, BatchFails(r)
    PROVE  KeyInv'
<1> DEFINE w == windows[r]
           v == [w EXCEPT !.pc = "applied"]
<1>1. w \in Windows /\ WindowIs(r, w, docs, shape)
  BY DEF KeyInv, WindowsInv
<1>2. windows' = [windows EXCEPT ![r] = v] /\ UNCHANGED <<docs, cache, layout, compaction, shape, expected>>
  BY DEF BatchFails
<1> HIDE DEF w
<1>3. v \in Windows /\ v.pc = "applied" /\ v.texts = w.texts /\ v.unpublished = w.unpublished
  BY <1>1 DEF Windows
<1> HIDE DEF v
<1>4. WindowIs(r, v, docs, shape)
  BY <1>1, <1>3 DEF WindowIs, TextsOfWindow
<1> QED BY <1>2, <1>3, <1>4, WindowMoves, Unmoved DEF KeyInv

LEMMA EndWindowKeeps ==
    ASSUME KeyInv, NEW r \in KeyRepos, EndWindow(r)
    PROVE  KeyInv'
<1>1. windows' = [windows EXCEPT ![r] = Idle] /\ UNCHANGED <<docs, cache, layout, compaction, shape, expected>>
  BY DEF EndWindow
<1> QED BY <1>1, IdleIs, WindowMoves, Unmoved DEF KeyInv

(* Documents only ever leave the index otherwise, and nothing is promised of a file      *)
(* that lost some of them.                                                               *)
LEMMA FewerDocs ==
    ASSUME WindowsInv, docs' \subseteq docs, UNCHANGED <<windows, shape>>
    PROVE  WindowsInv'
<1>1. \A q \in KeyRepos : WindowIs(q, windows[q], docs', shape)
  BY OthersGrew DEF WindowsInv
<1> QED BY <1>1 DEF WindowsInv

LEMMA RemoveKeeps ==
    ASSUME KeyInv, NEW r \in KeyRepos, NEW f \in KeyPaths, RemoveChunks(r, f)
    PROVE  KeyInv'
<1>1. /\ docs' = docs \ {d \in docs : d.repo = r /\ d.path = f} /\ expected' = [expected EXCEPT ![r][f] = 0]
      /\ layout' = [root |-> layout.root + 1, disk |-> layout.root + 1]
      /\ compaction' = [compaction EXCEPT !.report = "none"] /\ UNCHANGED <<cache, windows, shape>>
  BY DEF RemoveChunks
<1>2. SegmentsInv'
  BY <1>1 DEF KeyInv, SegmentsInv
<1>3. expected \in Expectations
  BY DEF KeyInv, DocsInv
<1>4. /\ expected' \in Expectations
      /\ \A q \in KeyRepos, g \in KeyPaths : expected'[q][g] = IF q = r /\ g = f THEN 0 ELSE expected[q][g]
  BY <1>1, <1>3 DEF Expectations
<1>5. ASSUME NEW q \in KeyRepos, NEW g \in KeyPaths PROVE Exact(docs', q, g, expected'[q][g], shape)
  <2>1. CASE q = r /\ g = f
    BY <1>1, <1>4, <2>1 DEF Exact, Mine
  <2>2. CASE ~(q = r /\ g = f)
    <3>1. Mine(docs', q, g) = Mine(docs, q, g)
      BY <1>1, <2>2 DEF Mine
    <3>2. Exact(docs, q, g, expected[q][g], shape)
      BY DEF KeyInv, DocsInv
    <3> QED BY <1>4, <2>2, <3>1, <3>2 DEF Exact
  <2> QED BY <2>1, <2>2
<1>6. DocsInv'
  BY <1>1, <1>4, <1>5 DEF KeyInv, DocsInv
<1> QED BY <1>1, <1>2, <1>6, FewerDocs, Unmoved DEF KeyInv

LEMMA StartDeleteKeeps ==
    ASSUME KeyInv, NEW r, StartDelete(r)
    PROVE  KeyInv'
  BY Unmoved DEF StartDelete, KeyInv

LEMMA DeleteKeeps ==
    ASSUME KeyInv, NEW r \in KeyRepos, DeleteNextPage(r)
    PROVE  KeyInv'
<1> DEFINE mine == {d \in docs : d.repo = r}
<1>1. expected \in Expectations /\ \A q \in KeyRepos, f \in KeyPaths : Exact(docs, q, f, expected[q][f], shape)
  BY DEF KeyInv, DocsInv
<1>2. CASE mine = {}
  <2>1. expected' = [expected EXCEPT ![r] = [f \in KeyPaths |-> 0]] /\ UNCHANGED <<docs, layout, compaction, cache, windows, shape>>
    BY <1>2 DEF DeleteNextPage
  <2>2. /\ expected' \in Expectations
        /\ \A q \in KeyRepos, f \in KeyPaths : expected'[q][f] = IF q = r THEN 0 ELSE expected[q][f]
    BY <1>1, <2>1 DEF Expectations
  <2>3. \A q \in KeyRepos, f \in KeyPaths : Exact(docs, q, f, expected'[q][f], shape)
    BY <1>1, <1>2, <2>2 DEF Exact, Mine
  <2>4. DocsInv'
    BY <2>1, <2>2, <2>3 DEF KeyInv, DocsInv
  <2> QED BY <2>1, <2>4, Unmoved DEF KeyInv
<1>3. CASE mine # {}
  <2>1. PICK hits \in kSubset(Min({DeletePage, Cardinality(mine)}), mine) :
               /\ docs' = docs \ hits
               /\ layout' = [root |-> layout.root + 1, disk |-> layout.root + 1]
               /\ compaction' = [compaction EXCEPT !.report = "none"]
               /\ expected' = [expected EXCEPT ![r] = [f \in KeyPaths |->
                                  IF f \in {d.path : d \in hits} THEN Unsure ELSE @[f]]]
    BY <1>3 DEF DeleteNextPage
  <2>2. hits \subseteq mine /\ UNCHANGED <<cache, windows, shape>>
    BY <2>1 DEF kSubset, DeleteNextPage
  <2> DEFINE lost == {d.path : d \in hits}
  <2>3. /\ expected' \in Expectations
        /\ \A q \in KeyRepos, f \in KeyPaths :
              expected'[q][f] = IF q = r /\ f \in lost THEN Unsure ELSE expected[q][f]
    <3>1. expected' = [expected EXCEPT ![r] = [f \in KeyPaths |-> IF f \in lost THEN Unsure ELSE expected[r][f]]]
      BY <2>1
    <3> HIDE DEF lost
    <3> QED BY <1>1, <3>1 DEF Expectations
  <2>4. ASSUME NEW q \in KeyRepos, NEW f \in KeyPaths PROVE Exact(docs', q, f, expected'[q][f], shape)
    <3>1. CASE q = r /\ f \in lost
      BY <2>3, <3>1 DEF Exact, Unsure
    <3>2. CASE ~(q = r /\ f \in lost)
      <4>1. Mine(docs', q, f) = Mine(docs, q, f)
        BY <2>1, <2>2, <3>2 DEF Mine
      <4> QED BY <1>1, <2>3, <3>2, <4>1 DEF Exact
    <3> QED BY <3>1, <3>2
  <2>5. DocsInv'
    BY <2>1, <2>2, <2>3, <2>4 DEF KeyInv, DocsInv
  <2>6. SegmentsInv'
    BY <2>1 DEF KeyInv, SegmentsInv
  <2> QED BY <2>1, <2>2, <2>5, <2>6, FewerDocs, Unmoved DEF KeyInv
<1> QED BY <1>2, <1>3

(* Merges, compactions and restarts move the segments alone.                             *)
LEMMA SegmentsMove ==
    ASSUME SegmentsInv,
           BackgroundMerge \/ PersistRoot \/ Compact \/ CompactReturns \/ Reopen
    PROVE  SegmentsInv'
<1>1. CASE BackgroundMerge
  BY <1>1 DEF BackgroundMerge, SegmentsInv
<1>2. CASE PersistRoot
  BY <1>2 DEF PersistRoot, SegmentsInv
<1>3. CASE Compact
  BY <1>3 DEF Compact, SegmentsInv
<1>4. CASE CompactReturns
  BY <1>4 DEF CompactReturns, awaitSteadyState, steady, SegmentsInv
<1>5. CASE Reopen
  BY <1>5 DEF Reopen, SegmentsInv
<1> QED BY <1>1, <1>2, <1>3, <1>4, <1>5

(* A start of the process: no window is in flight and the cache is empty.                *)
LEMMA RestartedKeeps ==
    ASSUME Restarted
    PROVE  WindowsInv' /\ CacheInv'
<1>1. WindowsInv'
  BY IdleIs DEF Restarted, WindowsInv
<1>2. CacheInv'
  BY EmptyCache DEF Restarted, CacheInv
<1> QED BY <1>1, <1>2

LEMMA RecreateKeeps ==
    ASSUME KeyInv, NEW configured \in SUBSET OptionalFields, Recreate(configured)
    PROVE  KeyInv'
<1>1. DocsInv'
  BY DEF Recreate, DocsInv, Exact, Mine, Expectations
<1>2. SegmentsInv'
  BY DEF Recreate, SegmentsInv
<1> QED BY <1>1, <1>2, RestartedKeeps DEF Recreate, KeyInv

LEMMA KeySteps == KeyInv /\ [KeyNext]_keyVars => KeyInv'
<1> SUFFICES ASSUME KeyInv, [KeyNext]_keyVars PROVE KeyInv'
  OBVIOUS
<1>1. ASSUME NEW r \in KeyRepos, NEW fs \in SUBSET KeyPaths \ {{}}, NEW texts \in [fs -> DOMAIN Texts],
             StartWindow(r, texts)
      PROVE  KeyInv'
  BY <1>1, StartWindowKeeps
<1>2. ASSUME NEW r \in KeyRepos, NEW f \in KeyPaths, PublishSymbols(r, f) \/ RemoveChunks(r, f)
      PROVE  KeyInv'
  BY <1>2, PublishKeeps, RemoveKeeps
<1>3. ASSUME NEW r \in KeyRepos, NEW found \in BOOLEAN, CutChunks(r, found)
      PROVE  KeyInv'
  BY <1>3, CutKeeps
<1>4. ASSUME NEW r \in KeyRepos,
             \/ FirstSweep(r) \/ SecondSweep(r) \/ ApplyBatch(r) \/ BatchFails(r) \/ EndWindow(r)
             \/ StartDelete(r) \/ DeleteNextPage(r)
      PROVE  KeyInv'
  BY <1>4, FirstSweepKeeps, SecondSweepKeeps, BatchKeeps, BatchFailsKeeps, EndWindowKeeps,
     StartDeleteKeeps, DeleteKeeps
<1>5. CASE BackgroundMerge \/ PersistRoot \/ Compact \/ CompactReturns
  <2>1. UNCHANGED <<windows, docs, shape, cache, expected>>
    BY <1>5 DEF BackgroundMerge, PersistRoot, Compact, CompactReturns
  <2>2. SegmentsInv'
    BY <1>5, SegmentsMove DEF KeyInv
  <2> QED BY <2>1, <2>2, Unmoved DEF KeyInv
<1>6. CASE Reopen
  <2>1. Restarted /\ UNCHANGED <<docs, shape, expected>>
    BY <1>6 DEF Reopen
  <2> QED BY <1>6, <2>1, RestartedKeeps, SegmentsMove, Unmoved DEF KeyInv
<1>7. ASSUME NEW configured \in SUBSET OptionalFields, Recreate(configured)
      PROVE  KeyInv'
  BY <1>7, RecreateKeeps
<1>8. CASE UNCHANGED keyVars
  BY <1>8, Unmoved DEF keyVars, KeyInv
<1> QED BY <1>1, <1>2, <1>3, <1>4, <1>5, <1>6, <1>7, <1>8 DEF KeyNext

(* The lines of a text's documents are all its lines.                                    *)
LEMMA LinesOfDocs ==
    ASSUME NEW r, NEW f, NEW t \in DOMAIN Texts, NEW syms, NEW fields
    PROVE  UNION {d.lines.from .. d.lines.to : d \in indexChunks(r, f, t, syms, fields)} = 1 .. Texts[t].lines
<1> DEFINE its == indexChunks(r, f, t, syms, fields)
           chunks == Chunks(t)
           Lines(p) == p.from .. p.to
<1>1. Covered(chunks) = 1 .. Texts[t].lines
  BY ChunksCover
<1>2. /\ \A d \in its : d.ordinal \in 1 .. Len(chunks) /\ d.lines = chunks[d.ordinal]
      /\ {d.ordinal : d \in its} = 1 .. Len(chunks)
  BY ChunkDocs
<1>3. Covered(chunks) = UNION {Lines(chunks[i]) : i \in 1 .. Len(chunks)}
  BY DEF Covered
<1> HIDE DEF its, chunks, Lines
<1>4. UNION {Lines(d.lines) : d \in its} = UNION {Lines(chunks[i]) : i \in 1 .. Len(chunks)}
  BY <1>2
<1> QED BY <1>1, <1>3, <1>4 DEF its, Lines

LEMMA KeySafety == KeyInv => KeywordIndexSafe
<1> SUFFICES ASSUME KeyInv PROVE KeywordIndexSafe
  OBVIOUS
<1>1. KeywordIndexExact
  <2> SUFFICES ASSUME NEW r \in KeyRepos, NEW f \in KeyPaths
               PROVE  LET mine == {d \in docs : d.repo = r /\ d.path = f}
                          t == expected[r][f]
                      IN /\ t > 0 => /\ mine = indexChunks(r, f, t, symbolUnits(t), shape)
                                     /\ UNION {d.lines.from .. d.lines.to : d \in mine} = 1 .. Texts[t].lines
                         /\ t = 0 => mine = {}
    BY DEF KeywordIndexExact
  <2> DEFINE mine == {d \in docs : d.repo = r /\ d.path = f}
             t == expected[r][f]
  <2>1. Exact(docs, r, f, t, shape) /\ mine = Mine(docs, r, f) /\ t \in {Unsure, 0} \cup DOMAIN Texts
    BY DEF KeyInv, DocsInv, Expectations, Mine
  <2>2. ASSUME t > 0
        PROVE  /\ mine = indexChunks(r, f, t, symbolUnits(t), shape)
               /\ UNION {d.lines.from .. d.lines.to : d \in mine} = 1 .. Texts[t].lines
    <3>1. t \in DOMAIN Texts
      BY <2>1, <2>2 DEF Unsure
    <3>2. mine = indexChunks(r, f, t, symbolUnits(t), shape)
      BY <2>1, <2>2 DEF Exact
    <3> HIDE DEF t, mine
    <3>3. UNION {d.lines.from .. d.lines.to : d \in indexChunks(r, f, t, symbolUnits(t), shape)} = 1 .. Texts[t].lines
      <4> DEFINE syms == symbolUnits(t)
      <4> HIDE DEF syms
      <4>1. UNION {d.lines.from .. d.lines.to : d \in indexChunks(r, f, t, syms, shape)} = 1 .. Texts[t].lines
        BY <3>1, LinesOfDocs
      <4> QED BY <4>1 DEF syms
    <3> QED BY <3>2, <3>3
  <2>3. ASSUME t = 0 PROVE mine = {}
    BY <2>1, <2>3 DEF Exact
  <2> QED BY <2>2, <2>3
<1>2. SymbolCacheBounded
  BY DEF KeyInv, CacheInv, CacheBounded, Ordered, Entries, SymbolCacheBounded
<1>3. CompactedStaysCompact
  BY DEF KeyInv, SegmentsInv, CompactedStaysCompact
<1> QED BY <1>1, <1>2, <1>3 DEF KeywordIndexSafe

(* The keyword index holds of every file exactly the chunks of the content its last      *)
(* complete batch read, under that content's own labels, whoever parsed it and however   *)
(* late; the symbol cache never outgrows its capacity nor its order three times that;    *)
(* and an index reported compact stays one segment until the next write                  *)
(* (internal/index/bm25, internal/index/symbols.go).                                     *)
THEOREM KeywordIndexIsSafe == KeySpec => []KeywordIndexSafe
<1>1. KeyInit => KeyInv
  BY KeyStart
<1>2. KeyInv /\ [KeyNext]_keyVars => KeyInv'
  BY KeySteps
<1>3. KeyInv => KeywordIndexSafe
  BY KeySafety
<1> QED BY <1>1, <1>2, <1>3, PTL DEF KeySpec

-----------------------------------------------------------------------------
(* The ladders of migrations *)

(* The statements of a migration run one after the other: the recursion that defines   *)
(* Applied has a solution.                                                         *)
LEMMA AppliedRuns ==
    ASSUME NEW db, NEW stmts, Len(stmts) \in Nat
    PROVE  \E g : /\ g[0] = Attempt(db)
                  /\ \A i \in 1 .. Len(stmts) : g[i] = Statement(g[i - 1], stmts[i])
                  /\ Applied(db, stmts) = g[Len(stmts)]
<1> DEFINE n == Len(stmts)
           Def(f, i) == IF i = 0 THEN Attempt(db) ELSE Statement(f[i - 1], stmts[i])
           Good(g, k) == g = [i \in 0 .. k |-> Def(g, i)]
           T == {k \in Nat : \E g : Good(g, k)}
<1>1. 0 \in T
  <2> DEFINE g == [i \in 0 .. 0 |-> Attempt(db)]
  <2>1. Good(g, 0)
    OBVIOUS
  <2> QED BY <2>1
<1>2. ASSUME NEW k \in Nat, k \in T PROVE k + 1 \in T
  <2>1. PICK g : Good(g, k)
    BY <1>2
  <2> DEFINE h == [i \in 0 .. k + 1 |-> IF i = k + 1 THEN Statement(g[k], stmts[k + 1]) ELSE g[i]]
  <2>2. \A i \in 0 .. k : h[i] = g[i]
    OBVIOUS
  <2>3. \A i \in 0 .. k : g[i] = Def(g, i)
    BY <2>1
  <2>4. ASSUME NEW i \in 0 .. k + 1 PROVE h[i] = Def(h, i)
    <3>1. CASE i = 0
      BY <3>1, <2>2, <2>3
    <3>2. CASE i \in 1 .. k
      <4>1. i \in 0 .. k /\ i - 1 \in 0 .. k /\ i # 0
        BY <3>2
      <4> QED BY <4>1, <2>2, <2>3
    <3>3. CASE i = k + 1
      <4>1. k \in 0 .. k /\ (k + 1) - 1 = k /\ k + 1 # 0
        OBVIOUS
      <4> QED BY <3>3, <4>1, <2>2
    <3> QED BY <3>1, <3>2, <3>3
  <2>5. h = [i \in 0 .. k + 1 |-> h[i]]
    OBVIOUS
  <2> HIDE DEF h
  <2>6. Good(h, k + 1)
    <3> HIDE DEF Def
    <3>1. [i \in 0 .. k + 1 |-> h[i]] = [i \in 0 .. k + 1 |-> Def(h, i)]
      BY <2>4
    <3> QED BY <2>5, <3>1
  <2> HIDE DEF Good
  <2>7. \E f : Good(f, k + 1)
    BY <2>6
  <2> QED BY <2>7
<1>3. n \in T
  <2> HIDE DEF T
  <2> QED BY <1>1, <1>2, InductionSet
<1> DEFINE after == CHOOSE g : Good(g, n)
<1>4. Good(after, n)
  <2> HIDE DEF Good
  <2> QED BY <1>3
<1>5. Applied(db, stmts) = after[n]
  BY DEF Applied
<1> HIDE DEF after
<1>6. \A i \in 0 .. n : after[i] = Def(after, i)
  BY <1>4
<1>7. \A i \in 1 .. n : i \in 0 .. n /\ i # 0
  OBVIOUS
<1>8. \A i \in 1 .. n : after[i] = Statement(after[i - 1], stmts[i])
  BY <1>6, <1>7
<1>9. after[0] = Attempt(db)
  BY <1>6
<1> QED BY <1>5, <1>8, <1>9

(* The database no release has touched.                                             *)
Blank(jobs) == [versions |-> {}, objects |-> {}, jobs |-> jobs]

(* The recursion that defines BuiltTo has a solution, too.                            *)
LEMMA BuiltRuns ==
    ASSUME NEW b, NEW version \in Nat, NEW jobs
    PROVE  \E g : /\ g[0] = Blank(jobs)
                  /\ \A v \in 1 .. version : g[v] = Rung(Migrated(g[v - 1], Ladder(b)[v], v))
                  /\ BuiltTo(b, version, jobs) = g[version]
<1> DEFINE Def(f, v) == IF v = 0 THEN Blank(jobs) ELSE Rung(Migrated(f[v - 1], Ladder(b)[v], v))
           Good(g, k) == g = [v \in 0 .. k |-> Def(g, v)]
           T == {k \in Nat : \E g : Good(g, k)}
<1>1. 0 \in T
  <2> DEFINE g == [v \in 0 .. 0 |-> Blank(jobs)]
  <2>1. Good(g, 0)
    OBVIOUS
  <2> QED BY <2>1
<1>2. ASSUME NEW k \in Nat, k \in T PROVE k + 1 \in T
  <2>1. PICK g : Good(g, k)
    BY <1>2
  <2> DEFINE next == Rung(Migrated(g[k], Ladder(b)[k + 1], k + 1))
             h == [v \in 0 .. k + 1 |-> IF v = k + 1 THEN next ELSE g[v]]
  <2>2. \A v \in 0 .. k : h[v] = g[v]
    OBVIOUS
  <2>3. \A v \in 0 .. k : g[v] = Def(g, v)
    BY <2>1
  <2>4. ASSUME NEW v \in 0 .. k + 1 PROVE h[v] = Def(h, v)
    <3>1. CASE v = 0
      BY <3>1, <2>2, <2>3
    <3>2. CASE v \in 1 .. k
      <4>1. v \in 0 .. k /\ v - 1 \in 0 .. k /\ v # 0
        BY <3>2
      <4> QED BY <4>1, <2>2, <2>3
    <3>3. CASE v = k + 1
      <4>1. k \in 0 .. k /\ (k + 1) - 1 = k /\ k + 1 # 0
        OBVIOUS
      <4> QED BY <3>3, <4>1, <2>2
    <3> QED BY <3>1, <3>2, <3>3
  <2>5. h = [v \in 0 .. k + 1 |-> h[v]]
    OBVIOUS
  <2> HIDE DEF h
  <2>6. Good(h, k + 1)
    <3> HIDE DEF Def
    <3>1. [v \in 0 .. k + 1 |-> h[v]] = [v \in 0 .. k + 1 |-> Def(h, v)]
      BY <2>4
    <3> QED BY <2>5, <3>1
  <2> HIDE DEF Good
  <2>7. \E f : Good(f, k + 1)
    BY <2>6
  <2> QED BY <2>7
<1>3. version \in T
  <2> HIDE DEF T
  <2> QED BY <1>1, <1>2, InductionSet
<1> DEFINE rung == CHOOSE g : Good(g, version)
<1>4. Good(rung, version)
  <2> HIDE DEF Good
  <2> QED BY <1>3
<1>5. BuiltTo(b, version, jobs) = rung[version]
  BY DEF BuiltTo, Blank
<1> HIDE DEF rung
<1>6. \A v \in 0 .. version : rung[v] = Def(rung, v)
  BY <1>4
<1>7. \A v \in 1 .. version : v \in 0 .. version /\ v # 0
  OBVIOUS
<1>8. \A v \in 1 .. version : rung[v] = Rung(Migrated(rung[v - 1], Ladder(b)[v], v))
  BY <1>6, <1>7
<1>9. rung[0] = Blank(jobs)
  BY <1>6
<1> QED BY <1>5, <1>8, <1>9

(* What an earlier release built: nothing, and one migration more for each version.    *)
LEMMA BuiltStep ==
    ASSUME NEW b, NEW version \in Nat, NEW jobs
    PROVE  /\ BuiltTo(b, 0, jobs) = Blank(jobs)
           /\ BuiltTo(b, version + 1, jobs)
                = Rung(Migrated(BuiltTo(b, version, jobs), Ladder(b)[version + 1], version + 1))
<1>1. BuiltTo(b, 0, jobs) = Blank(jobs)
  BY BuiltRuns
<1> DEFINE Step(f, v) == Rung(Migrated(f[v - 1], Ladder(b)[v], v))
<1>2. PICK g : /\ g[0] = Blank(jobs)
               /\ \A v \in 1 .. version : g[v] = Step(g, v)
               /\ BuiltTo(b, version, jobs) = g[version]
  BY BuiltRuns
<1>3. PICK h : /\ h[0] = Blank(jobs)
               /\ \A v \in 1 .. version + 1 : h[v] = Step(h, v)
               /\ BuiltTo(b, version + 1, jobs) = h[version + 1]
  BY BuiltRuns
<1> DEFINE Same == {v \in Nat : v <= version => g[v] = h[v]}
<1>4. ASSUME NEW v \in Nat, v \in Same PROVE v + 1 \in Same
  <2>1. CASE v + 1 <= version
    <3>1. v + 1 \in 1 .. version /\ v + 1 \in 1 .. version + 1 /\ (v + 1) - 1 = v /\ g[v] = h[v]
      BY <2>1, <1>4
    <3>2. g[v + 1] = Step(g, v + 1) /\ h[v + 1] = Step(h, v + 1)
      BY <3>1, <1>2, <1>3
    <3> QED BY <3>1, <3>2
  <2>2. CASE ~(v + 1 <= version)
    BY <2>2
  <2> QED BY <2>1, <2>2
<1>5. 0 \in Same
  BY <1>2, <1>3
<1>6. g[version] = h[version]
  <2>1. Nat \subseteq Same
    <3> HIDE DEF Same
    <3> QED BY <1>4, <1>5, InductionSet
  <2> QED BY <2>1
<1>7. h[version + 1] = Step(h, version + 1) /\ (version + 1) - 1 = version
  BY <1>3
<1> QED BY <1>1, <1>2, <1>3, <1>6, <1>7

(* A database at rest, and a migration under way that has gone through so far.          *)
Base(vs, os, js) == [versions |-> vs, objects |-> os, jobs |-> js]
Tried(vs, os, js) == [versions |-> vs, objects |-> os, jobs |-> js, ok |-> TRUE]

LEMMA Creates ==
    ASSUME NEW vs, NEW os, NEW js, NEW t
    PROVE  Statement(Tried(vs, os, js), Stmt("create", t)) = Tried(vs, os \cup {t}, js)
  BY DEF Statement, Tried, Stmt

LEMMA Adds ==
    ASSUME NEW vs, NEW os, NEW js, NEW t, t \notin os, NEW add, add = Guarded \/ add = Bare
    PROVE  Statement(Tried(vs, os, js), Stmt(add, t)) = Tried(vs, os \cup {t}, js)
<1>1. CASE add = Guarded
  BY <1>1, Creates DEF Guarded
<1>2. CASE add = Bare
  BY <1>2 DEF Statement, Tried, Bare, Stmt
<1> QED BY <1>1, <1>2

LEMMA Enforces ==
    ASSUME NEW vs, NEW os, NEW js, NEW t, Duplicates(js) = {}
    PROVE  Statement(Tried(vs, os, js), Unique(t)) = Tried(vs, os \cup {t}, js)
  BY DEF Statement, Tried, Unique, Stmt

LEMMA Drops ==
    ASSUME NEW vs, NEW os, NEW js, NEW t
    PROVE  Statement(Tried(vs, os, js), Drop(t)) = Tried(vs, os \ {t}, js)
  BY DEF Statement, Tried, Drop, Stmt

LEMMA Dedups ==
    ASSUME NEW vs, NEW os, NEW js
    PROVE  Statement(Tried(vs, os, js), Dedup) = Tried(vs, os, js \ Duplicates(js))
  BY DEF Statement, Tried, Dedup, Stmt

(* Migrations of one, two, four, five and six statements.                             *)
LEMMA OneStatement ==
    ASSUME NEW vs, NEW os, NEW js, NEW a, NEW d1,
           Statement(Tried(vs, os, js), a) = d1
    PROVE  Applied(Base(vs, os, js), <<a>>) = d1
<1> DEFINE s == <<a>>
<1>1. Len(s) = 1 /\ s[1] = a
  OBVIOUS
<1> HIDE DEF s
<1>2. PICK g : /\ g[0] = Attempt(Base(vs, os, js))
               /\ \A i \in 1 .. Len(s) : g[i] = Statement(g[i - 1], s[i])
               /\ Applied(Base(vs, os, js), s) = g[Len(s)]
  <2>1. Len(s) \in Nat
    BY <1>1
  <2> QED BY <2>1, AppliedRuns
<1>3. g[0] = Tried(vs, os, js)
  BY <1>2 DEF Attempt, Base, Tried
<1>4. g[1] = d1
  BY <1>1, <1>2, <1>3
<1>5. Applied(Base(vs, os, js), s) = d1
  BY <1>1, <1>2, <1>4
<1> QED BY <1>5 DEF s

LEMMA TwoStatements ==
    ASSUME NEW vs, NEW os, NEW js, NEW a, NEW b, NEW d1, NEW d2,
           Statement(Tried(vs, os, js), a) = d1,
           Statement(d1, b) = d2
    PROVE  Applied(Base(vs, os, js), <<a, b>>) = d2
<1> DEFINE s == <<a, b>>
<1>1. Len(s) = 2 /\ s[1] = a /\ s[2] = b
  OBVIOUS
<1> HIDE DEF s
<1>2. PICK g : /\ g[0] = Attempt(Base(vs, os, js))
               /\ \A i \in 1 .. Len(s) : g[i] = Statement(g[i - 1], s[i])
               /\ Applied(Base(vs, os, js), s) = g[Len(s)]
  <2>1. Len(s) \in Nat
    BY <1>1
  <2> QED BY <2>1, AppliedRuns
<1>3. g[0] = Tried(vs, os, js)
  BY <1>2 DEF Attempt, Base, Tried
<1>4. g[1] = d1
  BY <1>1, <1>2, <1>3
<1>5. g[2] = d2
  BY <1>1, <1>2, <1>4
<1>6. Applied(Base(vs, os, js), s) = d2
  BY <1>1, <1>2, <1>5
<1> QED BY <1>6 DEF s

LEMMA FourStatements ==
    ASSUME NEW vs, NEW os, NEW js, NEW a, NEW b, NEW c, NEW d, NEW d1, NEW d2, NEW d3, NEW d4,
           Statement(Tried(vs, os, js), a) = d1,
           Statement(d1, b) = d2,
           Statement(d2, c) = d3,
           Statement(d3, d) = d4
    PROVE  Applied(Base(vs, os, js), <<a, b, c, d>>) = d4
<1> DEFINE s == <<a, b, c, d>>
<1>1. Len(s) = 4 /\ s[1] = a /\ s[2] = b /\ s[3] = c /\ s[4] = d
  OBVIOUS
<1> HIDE DEF s
<1>2. PICK g : /\ g[0] = Attempt(Base(vs, os, js))
               /\ \A i \in 1 .. Len(s) : g[i] = Statement(g[i - 1], s[i])
               /\ Applied(Base(vs, os, js), s) = g[Len(s)]
  <2>1. Len(s) \in Nat
    BY <1>1
  <2> QED BY <2>1, AppliedRuns
<1>3. g[0] = Tried(vs, os, js)
  BY <1>2 DEF Attempt, Base, Tried
<1>4. g[1] = d1
  BY <1>1, <1>2, <1>3
<1>5. g[2] = d2
  BY <1>1, <1>2, <1>4
<1>6. g[3] = d3
  BY <1>1, <1>2, <1>5
<1>7. g[4] = d4
  BY <1>1, <1>2, <1>6
<1>8. Applied(Base(vs, os, js), s) = d4
  BY <1>1, <1>2, <1>7
<1> QED BY <1>8 DEF s

LEMMA FiveStatements ==
    ASSUME NEW vs, NEW os, NEW js, NEW a, NEW b, NEW c, NEW d, NEW e, NEW d1, NEW d2, NEW d3, NEW d4, NEW d5,
           Statement(Tried(vs, os, js), a) = d1,
           Statement(d1, b) = d2,
           Statement(d2, c) = d3,
           Statement(d3, d) = d4,
           Statement(d4, e) = d5
    PROVE  Applied(Base(vs, os, js), <<a, b, c, d, e>>) = d5
<1> DEFINE s == <<a, b, c, d, e>>
<1>1. Len(s) = 5 /\ s[1] = a /\ s[2] = b /\ s[3] = c /\ s[4] = d /\ s[5] = e
  OBVIOUS
<1> HIDE DEF s
<1>2. PICK g : /\ g[0] = Attempt(Base(vs, os, js))
               /\ \A i \in 1 .. Len(s) : g[i] = Statement(g[i - 1], s[i])
               /\ Applied(Base(vs, os, js), s) = g[Len(s)]
  <2>1. Len(s) \in Nat
    BY <1>1
  <2> QED BY <2>1, AppliedRuns
<1>3. g[0] = Tried(vs, os, js)
  BY <1>2 DEF Attempt, Base, Tried
<1>4. g[1] = d1
  BY <1>1, <1>2, <1>3
<1>5. g[2] = d2
  BY <1>1, <1>2, <1>4
<1>6. g[3] = d3
  BY <1>1, <1>2, <1>5
<1>7. g[4] = d4
  BY <1>1, <1>2, <1>6
<1>8. g[5] = d5
  BY <1>1, <1>2, <1>7
<1>9. Applied(Base(vs, os, js), s) = d5
  BY <1>1, <1>2, <1>8
<1> QED BY <1>9 DEF s

LEMMA SixStatements ==
    ASSUME NEW vs, NEW os, NEW js, NEW a, NEW b, NEW c, NEW d, NEW e, NEW f, NEW d1, NEW d2, NEW d3, NEW d4, NEW d5, NEW d6,
           Statement(Tried(vs, os, js), a) = d1,
           Statement(d1, b) = d2,
           Statement(d2, c) = d3,
           Statement(d3, d) = d4,
           Statement(d4, e) = d5,
           Statement(d5, f) = d6
    PROVE  Applied(Base(vs, os, js), <<a, b, c, d, e, f>>) = d6
<1> DEFINE s == <<a, b, c, d, e, f>>
<1>1. Len(s) = 6 /\ s[1] = a /\ s[2] = b /\ s[3] = c /\ s[4] = d /\ s[5] = e /\ s[6] = f
  OBVIOUS
<1> HIDE DEF s
<1>2. PICK g : /\ g[0] = Attempt(Base(vs, os, js))
               /\ \A i \in 1 .. Len(s) : g[i] = Statement(g[i - 1], s[i])
               /\ Applied(Base(vs, os, js), s) = g[Len(s)]
  <2>1. Len(s) \in Nat
    BY <1>1
  <2> QED BY <2>1, AppliedRuns
<1>3. g[0] = Tried(vs, os, js)
  BY <1>2 DEF Attempt, Base, Tried
<1>4. g[1] = d1
  BY <1>1, <1>2, <1>3
<1>5. g[2] = d2
  BY <1>1, <1>2, <1>4
<1>6. g[3] = d3
  BY <1>1, <1>2, <1>5
<1>7. g[4] = d4
  BY <1>1, <1>2, <1>6
<1>8. g[5] = d5
  BY <1>1, <1>2, <1>7
<1>9. g[6] = d6
  BY <1>1, <1>2, <1>8
<1>10. Applied(Base(vs, os, js), s) = d6
  BY <1>1, <1>2, <1>9
<1> QED BY <1>10 DEF s

(* What each level of the schema holds.  The first rung of the PostgreSQL ladder is   *)
(* already the second level.                                                         *)
Level1 == {"files", "ast_units", "edges", "repos", "idx_edges_repo"}
Level2 == Level1 \cup {"edges.meta"}
Level3 == Level2 \cup {"ast_units.meta"}
Level4 == Level3 \cup {"index_jobs"}
Level5 == Level4 \cup {"repos.last_commit"}
Level6 == Level5 \cup {"repos.claimed_by", "repos.claim_expires_at", "repos.pending_commit", OnePending}
Level7 == ((Level6 \cup {"index_jobs.kind", "index_jobs.payload"}) \ {OnePending}) \cup {OneIndexJob}
Level8 == Level7 \cup {"idx_edges_repo_file"}
Level9 == Level8 \cup {"repo_coverage"}
Level10 == (Level9 \cup {"idx_edges_repo_kind"}) \ {"idx_edges_repo"}
Level11 == Level10 \cup {"idx_ast_units_lower"}
Level12 == Level11 \cup {"repos.active"}

Kept(js) == js \ Duplicates(js)

LEMMA KeptHasNone ==
    ASSUME NEW js
    PROVE  Duplicates(Kept(js)) = {} /\ Kept(Kept(js)) = Kept(js)
  BY DEF Kept, Duplicates, Pending

(* No column is there before the rung that adds it.                                   *)
LEMMA NewColumns ==
    /\ "edges.meta" \notin Level1 /\ "ast_units.meta" \notin Level2
    /\ "repos.last_commit" \notin Level4 /\ "repos.claimed_by" \notin Level5
    /\ "repos.claim_expires_at" \notin Level5 \cup {"repos.claimed_by"}
    /\ "repos.pending_commit" \notin (Level5 \cup {"repos.claimed_by"}) \cup {"repos.claim_expires_at"}
    /\ "index_jobs.kind" \notin Level6 /\ "index_jobs.payload" \notin Level6 \cup {"index_jobs.kind"}
    /\ "repos.active" \notin Level11
  BY DEF Level1, Level2, Level3, Level4, Level5, Level6, Level7, Level8, Level9, Level10, Level11,
         OnePending, OneIndexJob

LEMMA SqliteStart ==
    ASSUME NEW vs, NEW js
    PROVE  Applied(Base(vs, {}, js), SqliteBase) = Tried(vs, Level1, js)
<1> DEFINE O1 == {} \cup {"files"}
           O2 == O1 \cup {"ast_units"}
           O3 == O2 \cup {"edges"}
           O4 == O3 \cup {"repos"}
           O5 == O4 \cup {"idx_edges_repo"}
<1>1. O5 = Level1
  BY DEF Level1
<1>2. /\ Statement(Tried(vs, {}, js), Table("files")) = Tried(vs, O1, js)
      /\ Statement(Tried(vs, O1, js), Table("ast_units")) = Tried(vs, O2, js)
      /\ Statement(Tried(vs, O2, js), Table("edges")) = Tried(vs, O3, js)
      /\ Statement(Tried(vs, O3, js), Table("repos")) = Tried(vs, O4, js)
      /\ Statement(Tried(vs, O4, js), Table("idx_edges_repo")) = Tried(vs, O5, js)
  BY Creates DEF Table
<1> HIDE DEF O1, O2, O3, O4, O5
<1> QED BY <1>1, <1>2, FiveStatements DEF SqliteBase

LEMMA PostgresStart ==
    ASSUME NEW vs, NEW js
    PROVE  Applied(Base(vs, {}, js), PostgresBase) = Tried(vs, Level2, js)
<1> DEFINE O1 == {} \cup {"files"}
           O2 == O1 \cup {"ast_units"}
           O3 == O2 \cup {"edges"}
           O4 == O3 \cup {"repos"}
           O5 == O4 \cup {"idx_edges_repo"}
           O6 == O5 \cup {"edges.meta"}
<1>1. O6 = Level2
  BY DEF Level1, Level2
<1>2. /\ Statement(Tried(vs, {}, js), Table("files")) = Tried(vs, O1, js)
      /\ Statement(Tried(vs, O1, js), Table("ast_units")) = Tried(vs, O2, js)
      /\ Statement(Tried(vs, O2, js), Table("edges")) = Tried(vs, O3, js)
      /\ Statement(Tried(vs, O3, js), Table("repos")) = Tried(vs, O4, js)
      /\ Statement(Tried(vs, O4, js), Table("idx_edges_repo")) = Tried(vs, O5, js)
      /\ Statement(Tried(vs, O5, js), Stmt(Guarded, "edges.meta")) = Tried(vs, O6, js)
  BY Creates DEF Table, Guarded
<1> HIDE DEF O1, O2, O3, O4, O5, O6
<1> QED BY <1>1, <1>2, SixStatements DEF PostgresBase

(* A column that is not there is added, with a guard or without.                      *)
LEMMA OneColumn ==
    ASSUME NEW vs, NEW os, NEW js, NEW t, t \notin os, NEW add, add = Guarded \/ add = Bare
    PROVE  Applied(Base(vs, os, js), <<Stmt(add, t)>>) = Tried(vs, os \cup {t}, js)
  BY Adds, OneStatement

LEMMA OneTable ==
    ASSUME NEW vs, NEW os, NEW js, NEW t
    PROVE  Applied(Base(vs, os, js), <<Table(t)>>) = Tried(vs, os \cup {t}, js)
  BY Creates, OneStatement DEF Table

LEMMA ColumnLevels ==
    ASSUME NEW vs, NEW js
    PROVE  /\ Applied(Base(vs, Level1, js), <<Stmt(Bare, "edges.meta")>>) = Tried(vs, Level2, js)
           /\ Applied(Base(vs, Level2, js), <<Stmt(Bare, "ast_units.meta")>>) = Tried(vs, Level3, js)
           /\ Applied(Base(vs, Level3, js), JobTable) = Tried(vs, Level4, js)
           /\ Applied(Base(vs, Level4, js), <<Stmt(Bare, "repos.last_commit")>>) = Tried(vs, Level5, js)
<1>1. Applied(Base(vs, Level1, js), <<Stmt(Bare, "edges.meta")>>) = Tried(vs, Level2, js)
  BY NewColumns, OneColumn DEF Level2
<1>2. Applied(Base(vs, Level2, js), <<Stmt(Bare, "ast_units.meta")>>) = Tried(vs, Level3, js)
  BY NewColumns, OneColumn DEF Level3
<1>3. Applied(Base(vs, Level3, js), JobTable) = Tried(vs, Level4, js)
  BY OneTable DEF Level4, JobTable
<1>4. Applied(Base(vs, Level4, js), <<Stmt(Bare, "repos.last_commit")>>) = Tried(vs, Level5, js)
  BY NewColumns, OneColumn DEF Level5
<1> QED BY <1>1, <1>2, <1>3, <1>4

(* The migration of the claim leaves no duplicates for the rule it sets up, and the one *)
(* after it relies on that.                                                          *)
LEMMA ClaimLevel ==
    ASSUME NEW vs, NEW js, NEW add, add = Guarded \/ add = Bare
    PROVE  Applied(Base(vs, Level5, js), ClaimColumns(add)) = Tried(vs, Level6, Kept(js))
<1> DEFINE O1 == Level5 \cup {"repos.claimed_by"}
           O2 == O1 \cup {"repos.claim_expires_at"}
           O3 == O2 \cup {"repos.pending_commit"}
           O4 == O3 \cup {OnePending}
<1>1. O4 = Level6
  BY DEF Level6
<1>a. Statement(Tried(vs, Level5, js), Stmt(add, "repos.claimed_by")) = Tried(vs, O1, js)
  BY NewColumns, Adds
<1>b. Statement(Tried(vs, O1, js), Stmt(add, "repos.claim_expires_at")) = Tried(vs, O2, js)
  BY NewColumns, Adds
<1>2. Statement(Tried(vs, O2, js), Stmt(add, "repos.pending_commit")) = Tried(vs, O3, js)
  BY NewColumns, Adds
<1>3. Statement(Tried(vs, O3, js), Dedup) = Tried(vs, O3, Kept(js))
  BY Dedups DEF Kept
<1>4. Statement(Tried(vs, O3, Kept(js)), Unique(OnePending)) = Tried(vs, O4, Kept(js))
  BY Enforces, KeptHasNone
<1> HIDE DEF O1, O2, O3, O4
<1> QED BY <1>1, <1>a, <1>b, <1>2, <1>3, <1>4, FiveStatements DEF ClaimColumns

LEMMA BatchLevel ==
    ASSUME NEW vs, NEW js, NEW add, add = Guarded \/ add = Bare
    PROVE  Applied(Base(vs, Level6, Kept(js)), BatchColumns(add)) = Tried(vs, Level7, Kept(js))
<1> DEFINE O1 == Level6 \cup {"index_jobs.kind"}
           O2 == O1 \cup {"index_jobs.payload"}
           O3 == O2 \ {OnePending}
           O4 == O3 \cup {OneIndexJob}
<1>1. O4 = Level7
  BY DEF Level7
<1>a. Statement(Tried(vs, Level6, Kept(js)), Stmt(add, "index_jobs.kind")) = Tried(vs, O1, Kept(js))
  BY NewColumns, Adds
<1>2. Statement(Tried(vs, O1, Kept(js)), Stmt(add, "index_jobs.payload")) = Tried(vs, O2, Kept(js))
  BY NewColumns, Adds
<1>3. Statement(Tried(vs, O2, Kept(js)), Drop(OnePending)) = Tried(vs, O3, Kept(js))
  BY Drops
<1>4. Statement(Tried(vs, O3, Kept(js)), Unique(OneIndexJob)) = Tried(vs, O4, Kept(js))
  BY Enforces, KeptHasNone
<1> HIDE DEF O1, O2, O3, O4
<1> QED BY <1>1, <1>a, <1>2, <1>3, <1>4, FourStatements DEF BatchColumns

LEMMA LaterLevels ==
    ASSUME NEW vs, NEW js, NEW add, add = Guarded \/ add = Bare
    PROVE  /\ Applied(Base(vs, Level7, js), EdgesByFile) = Tried(vs, Level8, js)
           /\ Applied(Base(vs, Level8, js), CoverageTable) = Tried(vs, Level9, js)
           /\ Applied(Base(vs, Level9, js), EdgesByKind) = Tried(vs, Level10, js)
           /\ Applied(Base(vs, Level10, js), NamesInLower) = Tried(vs, Level11, js)
           /\ Applied(Base(vs, Level11, js), ActiveColumn(add)) = Tried(vs, Level12, js)
<1> DEFINE O1 == Level9 \cup {"idx_edges_repo_kind"}
<1>1. Applied(Base(vs, Level7, js), EdgesByFile) = Tried(vs, Level8, js)
  BY OneTable DEF EdgesByFile, Level8
<1>2. Applied(Base(vs, Level8, js), CoverageTable) = Tried(vs, Level9, js)
  BY OneTable DEF CoverageTable, Level9
<1>3. Statement(Tried(vs, Level9, js), Table("idx_edges_repo_kind")) = Tried(vs, O1, js)
  BY Creates DEF Table
<1>4. Statement(Tried(vs, O1, js), Drop("idx_edges_repo")) = Tried(vs, Level10, js)
  BY Drops DEF Level10
<1>5. Applied(Base(vs, Level9, js), EdgesByKind) = Tried(vs, Level10, js)
  BY <1>3, <1>4, TwoStatements DEF EdgesByKind
<1>6. Applied(Base(vs, Level10, js), NamesInLower) = Tried(vs, Level11, js)
  BY OneTable DEF NamesInLower, Level11
<1>7. Applied(Base(vs, Level11, js), ActiveColumn(add)) = Tried(vs, Level12, js)
  BY OneColumn, NewColumns DEF ActiveColumn, Level12
<1> QED BY <1>1, <1>2, <1>5, <1>6, <1>7
(* Where each ladder stands in those levels, and the rung that sets up the claim.      *)
Levels == <<Level1, Level2, Level3, Level4, Level5, Level6, Level7, Level8, Level9, Level10, Level11, Level12>>
Ahead(b) == IF b = "sqlite" THEN 0 ELSE 1
Objects(b, v) == IF v = 0 THEN {} ELSE Levels[v + Ahead(b)]
Queue(b, v, js) == IF v + Ahead(b) > 5 THEN Kept(js) ELSE js

LEMMA QueueIsKept ==
    ASSUME NEW b, NEW v, NEW js
    PROVE  Queue(b, v, js) \in {js, Kept(js)}
  BY DEF Queue

(* Each ladder takes every database from one of its levels to the next.                 *)
LEMMA SqliteClimbs ==
    ASSUME NEW v \in 0 .. 11, NEW vs, NEW js
    PROVE  Applied(Base(vs, Objects("sqlite", v), Queue("sqlite", v, js)), SqliteLadder[v + 1])
             = Tried(vs, Objects("sqlite", v + 1), Queue("sqlite", v + 1, js))
<1> DEFINE O(w) == Objects("sqlite", w)
           Q(w) == Queue("sqlite", w, js)
           Climbs(w) == Applied(Base(vs, O(w), Q(w)), SqliteLadder[w + 1]) = Tried(vs, O(w + 1), Q(w + 1))
<1>1. /\ O(0) = {} /\ O(1) = Level1 /\ O(2) = Level2 /\ O(3) = Level3 /\ O(4) = Level4 /\ O(5) = Level5
      /\ O(6) = Level6 /\ O(7) = Level7 /\ O(8) = Level8 /\ O(9) = Level9 /\ O(10) = Level10
      /\ O(11) = Level11 /\ O(12) = Level12
  BY DEF Objects, Levels, Ahead
<1>2. /\ Q(0) = js /\ Q(1) = js /\ Q(2) = js /\ Q(3) = js /\ Q(4) = js /\ Q(5) = js
      /\ Q(6) = Kept(js) /\ Q(7) = Kept(js) /\ Q(8) = Kept(js) /\ Q(9) = Kept(js) /\ Q(10) = Kept(js)
      /\ Q(11) = Kept(js) /\ Q(12) = Kept(js)
  BY DEF Queue, Ahead
<1>3. /\ SqliteLadder[1] = SqliteBase /\ SqliteLadder[2] = <<Stmt(Bare, "edges.meta")>>
      /\ SqliteLadder[3] = <<Stmt(Bare, "ast_units.meta")>> /\ SqliteLadder[4] = JobTable
      /\ SqliteLadder[5] = <<Stmt(Bare, "repos.last_commit")>> /\ SqliteLadder[6] = ClaimColumns(Bare)
      /\ SqliteLadder[7] = BatchColumns(Bare) /\ SqliteLadder[8] = EdgesByFile
      /\ SqliteLadder[9] = CoverageTable /\ SqliteLadder[10] = EdgesByKind
      /\ SqliteLadder[11] = NamesInLower /\ SqliteLadder[12] = ActiveColumn(Bare)
  BY DEF SqliteLadder
<1>4. v \in {0, 1, 2, 3, 4, 5, 6, 7, 8, 9, 10, 11}
  OBVIOUS
<1> HIDE DEF O, Q
<1>5. Climbs(0)
  BY <1>1, <1>2, <1>3, SqliteStart
<1>6. Climbs(1) /\ Climbs(2) /\ Climbs(3) /\ Climbs(4)
  BY <1>1, <1>2, <1>3, ColumnLevels
<1>7. Climbs(5)
  BY <1>1, <1>2, <1>3, ClaimLevel
<1>8. Climbs(6)
  BY <1>1, <1>2, <1>3, BatchLevel
<1>9. Climbs(7) /\ Climbs(8) /\ Climbs(9) /\ Climbs(10) /\ Climbs(11)
  BY <1>1, <1>2, <1>3, LaterLevels
<1>10. Climbs(v)
  BY <1>4, <1>5, <1>6, <1>7, <1>8, <1>9
<1> QED BY <1>10 DEF O, Q

LEMMA PostgresClimbs ==
    ASSUME NEW v \in 0 .. 10, NEW vs, NEW js
    PROVE  Applied(Base(vs, Objects("postgres", v), Queue("postgres", v, js)), PostgresLadder[v + 1])
             = Tried(vs, Objects("postgres", v + 1), Queue("postgres", v + 1, js))
<1> DEFINE O(w) == Objects("postgres", w)
           Q(w) == Queue("postgres", w, js)
           Climbs(w) == Applied(Base(vs, O(w), Q(w)), PostgresLadder[w + 1]) = Tried(vs, O(w + 1), Q(w + 1))
<1>1. /\ O(0) = {} /\ O(1) = Level2 /\ O(2) = Level3 /\ O(3) = Level4 /\ O(4) = Level5
      /\ O(5) = Level6 /\ O(6) = Level7 /\ O(7) = Level8 /\ O(8) = Level9 /\ O(9) = Level10
      /\ O(10) = Level11 /\ O(11) = Level12
  BY DEF Objects, Levels, Ahead
<1>2. /\ Q(0) = js /\ Q(1) = js /\ Q(2) = js /\ Q(3) = js /\ Q(4) = js
      /\ Q(5) = Kept(js) /\ Q(6) = Kept(js) /\ Q(7) = Kept(js) /\ Q(8) = Kept(js) /\ Q(9) = Kept(js)
      /\ Q(10) = Kept(js) /\ Q(11) = Kept(js)
  BY DEF Queue, Ahead
<1>3. /\ PostgresLadder[1] = PostgresBase
      /\ PostgresLadder[2] = <<Stmt(Bare, "ast_units.meta")>> /\ PostgresLadder[3] = JobTable
      /\ PostgresLadder[4] = <<Stmt(Bare, "repos.last_commit")>> /\ PostgresLadder[5] = ClaimColumns(Guarded)
      /\ PostgresLadder[6] = BatchColumns(Guarded) /\ PostgresLadder[7] = EdgesByFile
      /\ PostgresLadder[8] = CoverageTable /\ PostgresLadder[9] = EdgesByKind
      /\ PostgresLadder[10] = NamesInLower /\ PostgresLadder[11] = ActiveColumn(Guarded)
  BY DEF PostgresLadder
<1>4. v \in {0, 1, 2, 3, 4, 5, 6, 7, 8, 9, 10}
  OBVIOUS
<1> HIDE DEF O, Q
<1>5. Climbs(0)
  BY <1>1, <1>2, <1>3, PostgresStart
<1>6. Climbs(1) /\ Climbs(2) /\ Climbs(3)
  BY <1>1, <1>2, <1>3, ColumnLevels
<1>7. Climbs(4)
  BY <1>1, <1>2, <1>3, ClaimLevel
<1>8. Climbs(5)
  BY <1>1, <1>2, <1>3, BatchLevel
<1>9. Climbs(6) /\ Climbs(7) /\ Climbs(8) /\ Climbs(9) /\ Climbs(10)
  BY <1>1, <1>2, <1>3, LaterLevels
<1>10. Climbs(v)
  BY <1>4, <1>5, <1>6, <1>7, <1>8, <1>9
<1> QED BY <1>10 DEF O, Q

Backends == {"sqlite", "postgres"}
Rungs(b) == IF b = "sqlite" THEN 12 ELSE 11

LEMMA LadderLength ==
    ASSUME NEW b \in Backends
    PROVE  Len(Ladder(b)) = Rungs(b) /\ Rungs(b) \in Nat
  BY DEF Backends, Ladder, SqliteLadder, PostgresLadder, Rungs

LEMMA LadderClimbs ==
    ASSUME NEW b \in Backends, NEW v \in 0 .. Rungs(b) - 1, NEW vs, NEW js
    PROVE  Applied(Base(vs, Objects(b, v), Queue(b, v, js)), Ladder(b)[v + 1])
             = Tried(vs, Objects(b, v + 1), Queue(b, v + 1, js))
<1>1. CASE b = "sqlite"
  BY <1>1, SqliteClimbs DEF Rungs, Ladder
<1>2. CASE b = "postgres"
  BY <1>2, PostgresClimbs DEF Rungs, Ladder
<1> QED BY <1>1, <1>2 DEF Backends

(* What an earlier release left at a version: every object of that rung, and no row of   *)
(* the queue but those the claim deletes is missing; its next migration goes through.     *)
At(b, v, js) == Base(1 .. v, Objects(b, v), Queue(b, v, js))

LEMMA RecordsNew ==
    ASSUME NEW vs, NEW os, NEW js, NEW version, version \notin vs
    PROVE  Recorded(Tried(vs, os, js), version) = Tried(vs \cup {version}, os, js)
<1> DEFINE d == Tried(vs, os, js)
           new == d.ok /\ version \notin d.versions
<1>1. d.versions = vs /\ new = TRUE
  BY DEF Tried
<1>2. Recorded(d, version) = [d EXCEPT !.ok = new, !.versions = d.versions \cup {version}]
  BY DEF Recorded
<1> HIDE DEF new
<1>3. Recorded(d, version) = [d EXCEPT !.ok = TRUE, !.versions = vs \cup {version}]
  BY <1>1, <1>2
<1>4. [d EXCEPT !.ok = TRUE, !.versions = vs \cup {version}] = Tried(vs \cup {version}, os, js)
  <2>1. ASSUME NEW ok, NEW ws
        PROVE  [[versions |-> vs, objects |-> os, jobs |-> js, ok |-> ok] EXCEPT !.ok = ok, !.versions = ws]
                 = [versions |-> ws, objects |-> os, jobs |-> js, ok |-> ok]
    <3> DEFINE r == [versions |-> vs, objects |-> os, jobs |-> js, ok |-> ok]
    <3>1. [r EXCEPT !.ok = ok] = r
      OBVIOUS
    <3>2. [r EXCEPT !.versions = ws] = [versions |-> ws, objects |-> os, jobs |-> js, ok |-> ok]
      OBVIOUS
    <3>3. [r EXCEPT !.ok = ok, !.versions = ws] = [[r EXCEPT !.ok = ok] EXCEPT !.versions = ws]
      OBVIOUS
    <3> QED BY <3>1, <3>2, <3>3
  <2> QED BY <2>1 DEF Tried
<1> QED BY <1>3, <1>4

LEMMA NextMigration ==
    ASSUME NEW b \in Backends, NEW v \in 0 .. Rungs(b) - 1, NEW js
    PROVE  /\ Migrated(At(b, v, js), Ladder(b)[v + 1], v + 1).ok
           /\ Rung(Migrated(At(b, v, js), Ladder(b)[v + 1], v + 1)) = At(b, v + 1, js)
<1> DEFINE m == Migrated(At(b, v, js), Ladder(b)[v + 1], v + 1)
           t == Tried(1 .. v, Objects(b, v + 1), Queue(b, v + 1, js))
<1>1. m = Recorded(t, v + 1)
  BY LadderClimbs DEF Migrated, At
<1>2. v \in Nat /\ v + 1 \notin 1 .. v /\ (1 .. v) \cup {v + 1} = 1 .. v + 1
  BY LadderLength
<1>3. Recorded(t, v + 1) = Tried(1 .. v + 1, Objects(b, v + 1), Queue(b, v + 1, js))
  BY <1>2, RecordsNew
<1> HIDE DEF m, t
<1>4. m.ok /\ Rung(m) = At(b, v + 1, js)
  BY <1>1, <1>3 DEF Tried, Rung, At, Base
<1> QED BY <1>4 DEF m

LEMMA BuiltRung ==
    ASSUME NEW b \in Backends, NEW v \in 0 .. Rungs(b), NEW js
    PROVE  BuiltTo(b, v, js) = At(b, v, js)
<1> DEFINE T == {w \in Nat : w <= Rungs(b) => BuiltTo(b, w, js) = At(b, w, js)}
<1>1. 0 \in T
  <2>1. At(b, 0, js) = Blank(js)
    <3>1. 1 .. 0 = {} /\ Objects(b, 0) = {} /\ Queue(b, 0, js) = js
      BY DEF Objects, Queue, Ahead
    <3> QED BY <3>1 DEF At, Base, Blank
  <2> QED BY <2>1, BuiltStep
<1>2. ASSUME NEW w \in Nat, w \in T PROVE w + 1 \in T
  <2>1. CASE w + 1 <= Rungs(b)
    <3>1. w \in 0 .. Rungs(b) - 1 /\ BuiltTo(b, w, js) = At(b, w, js)
      BY <1>2, <2>1, LadderLength
    <3>2. BuiltTo(b, w + 1, js) = At(b, w + 1, js)
      BY <3>1, NextMigration, BuiltStep
    <3> QED BY <3>2
  <2>2. CASE ~(w + 1 <= Rungs(b))
    BY <2>2
  <2> QED BY <2>1, <2>2
<1>3. Nat \subseteq T
  <2> HIDE DEF T
  <2> QED BY <1>1, <1>2, InductionSet
<1> QED BY <1>3, LadderLength

(* A migration never changes the versions before it is recorded, so one that is recorded *)
(* already fails.                                                                    *)
Ops == {"create", "addColumn", "unique", "drop", "dedup"}

LEMMA LadderStatements ==
    ASSUME NEW b \in Backends, NEW v \in 1 .. Rungs(b)
    PROVE  /\ Len(Ladder(b)[v]) \in Nat
           /\ \A i \in 1 .. Len(Ladder(b)[v]) : Ladder(b)[v][i].op \in Ops
<1> DEFINE Legal(m) == Len(m) \in Nat /\ \A i \in 1 .. Len(m) : m[i].op \in Ops
<1>1. Legal(SqliteBase) /\ Legal(PostgresBase)
  BY DEF SqliteBase, PostgresBase, Table, Stmt, Guarded, Ops
<1>2. ASSUME NEW t PROVE Legal(<<Table(t)>>) /\ Legal(<<Stmt(Bare, t)>>) /\ Legal(<<Stmt(Guarded, t)>>)
  BY DEF Table, Stmt, Guarded, Bare, Ops
<1>3. Legal(ClaimColumns(Bare)) /\ Legal(ClaimColumns(Guarded))
  <2>1. ASSUME NEW add, add \in Ops PROVE Legal(ClaimColumns(add))
    <3> DEFINE m == ClaimColumns(add)
    <3>1. /\ Len(m) = 5 /\ m[1].op = add /\ m[2].op = add /\ m[3].op = add /\ m[4].op = "dedup"
          /\ m[5].op = "unique"
      BY DEF ClaimColumns, Stmt, Dedup, Unique
    <3> HIDE DEF m
    <3>2. Legal(m)
      BY <2>1, <3>1 DEF Ops
    <3> QED BY <3>2 DEF m
  <2>2. Bare \in Ops /\ Guarded \in Ops
    BY DEF Bare, Guarded, Ops
  <2> QED BY <2>1, <2>2
<1>4. Legal(BatchColumns(Bare)) /\ Legal(BatchColumns(Guarded))
  BY DEF BatchColumns, Stmt, Guarded, Bare, Unique, Drop, Ops
<1>5. Legal(EdgesByKind)
  BY DEF EdgesByKind, Table, Drop, Stmt, Ops
<1>6. /\ Legal(JobTable) /\ Legal(EdgesByFile) /\ Legal(CoverageTable) /\ Legal(NamesInLower)
      /\ Legal(ActiveColumn(Bare)) /\ Legal(ActiveColumn(Guarded))
      /\ Legal(<<Stmt(Bare, "edges.meta")>>) /\ Legal(<<Stmt(Bare, "ast_units.meta")>>)
      /\ Legal(<<Stmt(Bare, "repos.last_commit")>>)
  <2> HIDE DEF Legal
  <2> QED BY <1>2 DEF JobTable, EdgesByFile, CoverageTable, NamesInLower, ActiveColumn
<1> HIDE DEF Legal
<1>7. CASE b = "sqlite"
  <2>1. v \in {1, 2, 3, 4, 5, 6, 7, 8, 9, 10, 11, 12}
    BY <1>7 DEF Rungs
  <2>2. Legal(SqliteLadder[v])
    BY <2>1, <1>1, <1>3, <1>4, <1>5, <1>6 DEF SqliteLadder
  <2> QED BY <2>2, <1>7 DEF Legal, Ladder
<1>8. CASE b = "postgres"
  <2>1. v \in {1, 2, 3, 4, 5, 6, 7, 8, 9, 10, 11}
    BY <1>8 DEF Rungs
  <2>2. Legal(PostgresLadder[v])
    BY <2>1, <1>1, <1>3, <1>4, <1>5, <1>6 DEF PostgresLadder
  <2> QED BY <2>2, <1>8 DEF Legal, Ladder
<1> QED BY <1>7, <1>8 DEF Backends

LEMMA RecordedTwice ==
    ASSUME NEW db, NEW stmts, Len(stmts) \in Nat, \A i \in 1 .. Len(stmts) : stmts[i].op \in Ops,
           NEW version \in db.versions
    PROVE  Migrated(db, stmts, version).ok = FALSE
<1> DEFINE r(os, js, ok) == [versions |-> db.versions, objects |-> os, jobs |-> js, ok |-> ok]
           Shape(d) == \E os, js : \E ok \in BOOLEAN : d = r(os, js, ok)
<1>1. PICK g : /\ g[0] = Attempt(db)
               /\ \A i \in 1 .. Len(stmts) : g[i] = Statement(g[i - 1], stmts[i])
               /\ Applied(db, stmts) = g[Len(stmts)]
  BY AppliedRuns
<1> DEFINE T == {n \in Nat : n <= Len(stmts) => Shape(g[n])}
<1>2. 0 \in T
  BY <1>1 DEF Attempt
<1>3. ASSUME NEW n \in Nat, n \in T PROVE n + 1 \in T
  <2>1. CASE n + 1 <= Len(stmts)
    <3>1. n + 1 \in 1 .. Len(stmts) /\ (n + 1) - 1 = n /\ Shape(g[n])
      <4> HIDE DEF Shape
      <4> QED BY <1>3, <2>1
    <3>2. g[n + 1] = Statement(g[n], stmts[n + 1]) /\ stmts[n + 1].op \in Ops
      BY <1>1, <3>1
    <3>3. ASSUME NEW d, NEW s, Shape(d), s.op \in Ops PROVE Shape(Statement(d, s))
      <4>1. PICK os, js : \E ok \in BOOLEAN :
                 d = r(os, js, ok)
        BY <3>3
      <4>2. PICK ok \in BOOLEAN : d = r(os, js, ok)
        BY <4>1
      <4>3. \/ Statement(d, s) = r(os \cup {s.on}, js, ok)
            \/ Statement(d, s) = r(os \cup {s.on}, js, ok /\ s.on \notin os)
            \/ Statement(d, s) = r(os \cup {s.on}, js, ok /\ Duplicates(js) = {})
            \/ Statement(d, s) = r(os \ {s.on}, js, ok)
            \/ Statement(d, s) = r(os, js \ Duplicates(js), ok)
        <5>1. CASE s.op = "create"
          <6>1. Statement(d, s) = r(os \cup {s.on}, js, ok)
            BY <4>2, <5>1 DEF Statement
          <6> QED BY <6>1
        <5>2. CASE s.op = "addColumn"
          <6>1. Statement(d, s) = r(os \cup {s.on}, js, ok /\ s.on \notin os)
            BY <4>2, <5>2 DEF Statement
          <6> QED BY <6>1
        <5>3. CASE s.op = "unique"
          <6>1. Statement(d, s) = r(os \cup {s.on}, js, ok /\ Duplicates(js) = {})
            BY <4>2, <5>3 DEF Statement
          <6> QED BY <6>1
        <5>4. CASE s.op = "drop"
          <6>1. Statement(d, s) = r(os \ {s.on}, js, ok)
            BY <4>2, <5>4 DEF Statement
          <6> QED BY <6>1
        <5>5. CASE s.op = "dedup"
          <6>1. Statement(d, s) = r(os, js \ Duplicates(js), ok)
            BY <4>2, <5>5 DEF Statement
          <6> QED BY <6>1
        <5> QED BY <3>3, <5>1, <5>2, <5>3, <5>4, <5>5 DEF Ops
      <4> QED BY <4>3
    <3> HIDE DEF Shape
    <3>4. Shape(g[n + 1])
      BY <3>1, <3>2, <3>3
    <3> QED BY <3>4
  <2>2. CASE ~(n + 1 <= Len(stmts))
    BY <2>2
  <2> QED BY <2>1, <2>2
<1>4. Nat \subseteq T
  <2> HIDE DEF T
  <2> QED BY <1>2, <1>3, InductionSet
<1>5. Shape(Applied(db, stmts))
  <2> HIDE DEF Shape
  <2> QED BY <1>1, <1>4
<1>6. ASSUME NEW d, Shape(d) PROVE Recorded(d, version).ok = FALSE
  <2>1. PICK os, js : \E ok \in BOOLEAN : d = r(os, js, ok)
    BY <1>6
  <2>2. PICK ok \in BOOLEAN : d = r(os, js, ok)
    BY <2>1
  <2>3. d.versions = db.versions
    BY <2>2
  <2>4. Recorded(d, version).ok = (d.ok /\ version \notin d.versions)
    BY <2>2 DEF Recorded
  <2> QED BY <2>3, <2>4
<1> HIDE DEF Shape
<1> QED BY <1>5, <1>6 DEF Migrated

(* Where an opener of a database at rung v stands: it read an earlier rung, or this one; *)
(* it is refused only after the database moved on; it is open at the top.               *)
StandsAt(r, b, v) ==
    /\ r.pc = "migrating" => \E k \in 0 .. v : r.read = 1 .. k /\ r.next \in k + 1 .. v + 1
    /\ r.pc = "refused" => \E k \in 0 .. v - 1 : r.read = 1 .. k
    /\ r.pc = "open" => v = Rungs(b)

Openings == [pc : {"closed", "migrating", "refused", "open"}, next : Nat, read : SUBSET Nat]

RungIs(v) ==
    /\ database = At(backend, v, leftBehind)
    /\ \A o \in Openers : StandsAt(openers[o], backend, v)

MigrationsInv ==
    /\ backend \in Backends
    /\ openers \in [Openers -> Openings]
    /\ \E v \in 0 .. Rungs(backend) : RungIs(v)

LEMMA HighestVersion ==
    ASSUME NEW v \in Nat
    PROVE  Max((1 .. v) \cup {0}) = v
  BY DEF Max

LEMMA MigrationsStart == MigrationsInit => MigrationsInv
<1> SUFFICES ASSUME MigrationsInit PROVE MigrationsInv
  OBVIOUS
<1>1. backend \in Backends
  BY DEF MigrationsInit, Backends
<1>2. PICK v \in 0 .. Rungs(backend) : database = At(backend, v, leftBehind)
  BY <1>1, LadderLength, BuiltRung DEF MigrationsInit
<1>3. NotOpen \in Openings /\ NotOpen.pc = "closed"
  BY DEF NotOpen, Openings
<1>4. openers \in [Openers -> Openings] /\ \A o \in Openers : openers[o].pc = "closed"
  BY <1>3 DEF MigrationsInit
<1>5. RungIs(v)
  BY <1>2, <1>4 DEF RungIs, StandsAt
<1> QED BY <1>1, <1>4, <1>5 DEF MigrationsInv

(* An opener that moves while the database stays where it is.                          *)
LEMMA OpenerMoves ==
    ASSUME MigrationsInv, NEW o \in Openers, NEW r \in Openings, NEW v \in 0 .. Rungs(backend), RungIs(v),
           StandsAt(r, backend, v), Becomes(o, r), UNCHANGED <<backend, database, leftBehind>>
    PROVE  MigrationsInv'
<1>1. openers \in [Openers -> Openings] /\ openers' = [openers EXCEPT ![o] = r]
  BY DEF MigrationsInv, Becomes
<1>2. openers' \in [Openers -> Openings] /\ \A p \in Openers : openers'[p] = IF p = o THEN r ELSE openers[p]
  BY <1>1
<1>3. \A p \in Openers : StandsAt(openers'[p], backend, v)
  BY <1>2 DEF RungIs
<1>4. RungIs(v)'
  BY <1>3 DEF RungIs, At
<1>5. backend' = backend /\ v \in 0 .. Rungs(backend')
  OBVIOUS
<1> QED BY <1>2, <1>4, <1>5 DEF MigrationsInv

LEMMA OpenStands ==
    ASSUME MigrationsInv, NEW o \in Openers, Open(o)
    PROVE  MigrationsInv'
<1>1. PICK v \in 0 .. Rungs(backend) : RungIs(v)
  BY DEF MigrationsInv
<1>2. v \in Nat /\ backend \in Backends
  BY LadderLength DEF MigrationsInv
<1>3. database.versions = 1 .. v /\ Max(database.versions \cup {0}) = v
  BY <1>1, <1>2, HighestVersion DEF RungIs, At, Base
<1> DEFINE r == [pc |-> "migrating", next |-> 1 + v, read |-> 1 .. v]
<1>4. r \in Openings
  BY <1>2 DEF Openings
<1>5. StandsAt(r, backend, v)
  <2>1. v \in 0 .. v /\ r.read = 1 .. v /\ r.next \in v + 1 .. v + 1 /\ r.pc = "migrating"
    BY <1>2
  <2> QED BY <2>1 DEF StandsAt
<1>6. Becomes(o, r) /\ UNCHANGED <<backend, database, leftBehind>>
  BY <1>3 DEF Open
<1> HIDE DEF r
<1> QED BY <1>1, <1>4, <1>5, <1>6, OpenerMoves

(* The database climbs, and whoever has opened it already has it whole.                 *)
LEMMA RungClimbs ==
    ASSUME MigrationsInv, NEW o \in Openers, NEW v \in 0 .. Rungs(backend) - 1, RungIs(v),
           openers[o].pc = "migrating", openers[o].next = v + 1,
           database' = At(backend, v + 1, leftBehind),
           Becomes(o, [openers[o] EXCEPT !.next = @ + 1]), UNCHANGED <<backend, leftBehind>>
    PROVE  MigrationsInv'
<1> DEFINE r == [openers[o] EXCEPT !.next = @ + 1]
<1>1. openers \in [Openers -> Openings] /\ openers' = [openers EXCEPT ![o] = r]
  BY DEF MigrationsInv, Becomes
<1>2. /\ r.pc = "migrating" /\ r.read = openers[o].read /\ r.next = v + 2 /\ r \in Openings
  BY <1>1, LadderLength DEF Openings
<1>3. openers' \in [Openers -> Openings] /\ \A p \in Openers : openers'[p] = IF p = o THEN r ELSE openers[p]
  BY <1>1, <1>2
<1>4. Rungs(backend) \in Nat
  BY LadderLength DEF MigrationsInv
<1>5. StandsAt(r, backend, v + 1)
  <2>1. PICK k \in 0 .. v : openers[o].read = 1 .. k /\ openers[o].next \in k + 1 .. v + 1
    BY DEF RungIs, StandsAt
  <2>2. k \in 0 .. v + 1 /\ r.next \in k + 1 .. (v + 1) + 1 /\ r.read = 1 .. k
    BY <1>2, <2>1, <1>4
  <2> QED BY <1>2, <2>2 DEF StandsAt
<1> HIDE DEF r
<1>6. ASSUME NEW p \in Openers, p # o PROVE StandsAt(openers[p], backend, v + 1)
  <2>1. StandsAt(openers[p], backend, v)
    BY DEF RungIs
  <2>2. openers[p].pc = "migrating"
          => \E k \in 0 .. v + 1 : openers[p].read = 1 .. k /\ openers[p].next \in k + 1 .. (v + 1) + 1
    <3> SUFFICES ASSUME openers[p].pc = "migrating"
                 PROVE  \E k \in 0 .. v + 1 : openers[p].read = 1 .. k /\ openers[p].next \in k + 1 .. (v + 1) + 1
      OBVIOUS
    <3>1. PICK k \in 0 .. v : openers[p].read = 1 .. k /\ openers[p].next \in k + 1 .. v + 1
      BY <2>1 DEF StandsAt
    <3>2. k \in 0 .. v + 1 /\ openers[p].next \in k + 1 .. (v + 1) + 1
      BY <3>1, <1>4
    <3> QED BY <3>1, <3>2
  <2>3. openers[p].pc = "refused" => \E k \in 0 .. (v + 1) - 1 : openers[p].read = 1 .. k
    <3> SUFFICES ASSUME openers[p].pc = "refused"
                 PROVE  \E k \in 0 .. (v + 1) - 1 : openers[p].read = 1 .. k
      OBVIOUS
    <3>1. PICK k \in 0 .. v - 1 : openers[p].read = 1 .. k
      BY <2>1 DEF StandsAt
    <3>2. k \in 0 .. (v + 1) - 1
      BY <1>4
    <3> QED BY <3>1, <3>2
  <2>4. openers[p].pc # "open"
    BY <2>1, <1>4 DEF StandsAt
  <2> QED BY <2>2, <2>3, <2>4 DEF StandsAt
<1>7. \A p \in Openers : StandsAt(openers'[p], backend, v + 1)
  BY <1>3, <1>5, <1>6
<1>8. RungIs(v + 1)'
  BY <1>7 DEF RungIs, At
<1>9. v + 1 \in 0 .. Rungs(backend') /\ backend' = backend
  BY <1>4
<1> QED BY <1>3, <1>8, <1>9 DEF MigrationsInv

LEMMA MigrateStands ==
    ASSUME MigrationsInv, NEW o \in Openers, migrate(o)
    PROVE  MigrationsInv'
<1>1. PICK v \in 0 .. Rungs(backend) : RungIs(v)
  BY DEF MigrationsInv
<1>2. /\ v \in Nat /\ backend \in Backends /\ Rungs(backend) \in Nat /\ Len(Ladder(backend)) = Rungs(backend)
      /\ openers[o] \in Openings
  BY LadderLength DEF MigrationsInv
<1> DEFINE at == openers[o].next
           tried == Migrated(database, Ladder(backend)[at], at)
<1>3. /\ openers[o].pc = "migrating" /\ at <= Rungs(backend)
      /\ database' = Committed(tried)
      /\ Becomes(o, IF tried.ok THEN [openers[o] EXCEPT !.next = @ + 1]
                    ELSE [openers[o] EXCEPT !.pc = "refused"])
      /\ UNCHANGED <<backend, leftBehind>>
  BY <1>2 DEF migrate
<1>4. PICK k \in 0 .. v : openers[o].read = 1 .. k /\ at \in k + 1 .. v + 1
  BY <1>1, <1>3 DEF RungIs, StandsAt
<1>5. database = At(backend, v, leftBehind) /\ database.versions = 1 .. v
  BY <1>1 DEF RungIs, At, Base
<1>6. CASE at <= v
  <2>1. at \in 1 .. v /\ at \in 1 .. Rungs(backend) /\ k \in 0 .. v - 1
    BY <1>2, <1>4, <1>6
  <2>2. tried.ok = FALSE
    <3>1. Len(Ladder(backend)[at]) \in Nat /\ \A i \in 1 .. Len(Ladder(backend)[at]) : Ladder(backend)[at][i].op \in Ops
      BY <1>2, <2>1, LadderStatements
    <3>2. at \in database.versions
      BY <1>5, <2>1
    <3> HIDE DEF at
    <3> QED BY <3>1, <3>2, RecordedTwice
  <2> DEFINE r == [openers[o] EXCEPT !.pc = "refused"]
  <2>3. r \in Openings /\ r.pc = "refused" /\ r.read = 1 .. k
    BY <1>2, <1>4 DEF Openings
  <2>4. StandsAt(r, backend, v)
    BY <2>1, <2>3 DEF StandsAt
  <2> HIDE DEF tried
  <2>5. database' = database /\ Becomes(o, r)
    BY <1>3, <2>2 DEF Committed
  <2> HIDE DEF r
  <2> QED BY <1>1, <1>3, <2>3, <2>4, <2>5, OpenerMoves
<1>7. CASE ~(at <= v)
  <2>1. at = v + 1 /\ v \in 0 .. Rungs(backend) - 1
    BY <1>2, <1>3, <1>4, <1>7
  <2>2. tried.ok /\ Rung(tried) = At(backend, v + 1, leftBehind)
    BY <1>2, <1>5, <2>1, NextMigration
  <2> HIDE DEF tried
  <2>3. database' = At(backend, v + 1, leftBehind) /\ Becomes(o, [openers[o] EXCEPT !.next = @ + 1])
    BY <1>3, <2>2 DEF Committed
  <2> QED BY <1>1, <1>3, <2>1, <2>3, RungClimbs
<1> QED BY <1>6, <1>7

LEMMA OpenedStands ==
    ASSUME MigrationsInv, NEW o \in Openers, Opened(o)
    PROVE  MigrationsInv'
<1>1. PICK v \in 0 .. Rungs(backend) : RungIs(v)
  BY DEF MigrationsInv
<1>2. /\ v \in Nat /\ Rungs(backend) \in Nat /\ Len(Ladder(backend)) = Rungs(backend)
      /\ openers[o] \in Openings
  BY LadderLength DEF MigrationsInv
<1>3. openers[o].pc = "migrating" /\ openers[o].next > Rungs(backend)
  BY <1>2 DEF Opened
<1>4. openers[o].next <= v + 1
  <2>1. PICK k \in 0 .. v : openers[o].next \in k + 1 .. v + 1
    BY <1>1, <1>3 DEF RungIs, StandsAt
  <2> QED BY <2>1, <1>2
<1>5. v = Rungs(backend)
  BY <1>2, <1>3, <1>4 DEF Openings
<1> DEFINE r == [openers[o] EXCEPT !.pc = "open"]
<1>6. r \in Openings /\ r.pc = "open"
  BY <1>2 DEF Openings
<1>7. StandsAt(r, backend, v)
  BY <1>5, <1>6 DEF StandsAt
<1>8. Becomes(o, r) /\ UNCHANGED <<backend, database, leftBehind>>
  BY DEF Opened
<1> HIDE DEF r
<1> QED BY <1>1, <1>6, <1>7, <1>8, OpenerMoves

LEMMA RestartStands ==
    ASSUME MigrationsInv, NEW o \in Openers, Restart(o)
    PROVE  MigrationsInv'
<1>1. PICK v \in 0 .. Rungs(backend) : RungIs(v)
  BY DEF MigrationsInv
<1>2. NotOpen \in Openings /\ StandsAt(NotOpen, backend, v)
  BY DEF NotOpen, Openings, StandsAt
<1>3. Becomes(o, NotOpen) /\ UNCHANGED <<backend, database, leftBehind>>
  BY DEF Restart
<1> QED BY <1>1, <1>2, <1>3, OpenerMoves

(* Both ladders end at the twelfth level.                                             *)
LEMMA LaddersMeet == LaddersAgree
<1>1. /\ BuiltTo("sqlite", Rungs("sqlite"), {}) = At("sqlite", Rungs("sqlite"), {})
      /\ BuiltTo("postgres", Rungs("postgres"), {}) = At("postgres", Rungs("postgres"), {})
  BY BuiltRung, LadderLength DEF Backends
<1>2. Objects("sqlite", Rungs("sqlite")) = Level12 /\ Objects("postgres", Rungs("postgres")) = Level12
  BY DEF Objects, Rungs, Levels, Ahead
<1>3. Len(SqliteLadder) = Rungs("sqlite") /\ Len(PostgresLadder) = Rungs("postgres")
  BY DEF SqliteLadder, PostgresLadder, Rungs
<1> QED BY <1>1, <1>2, <1>3 DEF LaddersAgree, At, Base

LEMMA MigrationsInvImplies == MigrationsInv => MigrationsSafe
<1> SUFFICES ASSUME MigrationsInv PROVE MigrationsSafe
  OBVIOUS
<1>1. PICK v \in 0 .. Rungs(backend) : RungIs(v)
  BY DEF MigrationsInv
<1>2. v \in Nat /\ backend \in Backends /\ Rungs(backend) \in Nat /\ Len(Ladder(backend)) = Rungs(backend)
  BY LadderLength DEF MigrationsInv
<1>3. database = At(backend, v, leftBehind) /\ database.versions = 1 .. v
      /\ database.jobs = Queue(backend, v, leftBehind)
  BY <1>1 DEF RungIs, At, Base
<1>4. SchemaIsARung
  BY <1>2, <1>3, HighestVersion, BuiltRung DEF SchemaIsARung
<1>5. RefusedOnlyByARace
  <2>1. ASSUME NEW o \in Openers, openers[o].pc = "refused" PROVE database.versions # openers[o].read
    <3>1. PICK k \in 0 .. v - 1 : openers[o].read = 1 .. k
      BY <1>1, <2>1 DEF RungIs, StandsAt
    <3>2. v \in 1 .. v /\ v \notin 1 .. k
      BY <1>2
    <3> QED BY <1>3, <3>1, <3>2
  <2>2. ASSUME NEW o \in Openers, openers[o].pc = "open" PROVE database.versions = 1 .. Len(Ladder(backend))
    BY <1>1, <1>2, <1>3, <2>2 DEF RungIs, StandsAt
  <2> QED BY <2>1, <2>2 DEF RefusedOnlyByARace
<1>6. QueueSurvives
  BY <1>3, QueueIsKept DEF QueueSurvives, Kept
<1> QED BY <1>4, <1>5, <1>6, LaddersMeet DEF MigrationsSafe

(* Whatever processes open the store at the same time, from whatever version an earlier  *)
(* release left and with whatever queue, and wherever they die, the schema is always one *)
(* rung of its backend's ladder, an Open fails only because another process migrated     *)
(* since it read the version, one that succeeds has every rung, no repository loses its  *)
(* turn, and both backends end with the same tables and columns (sqlite.Open,            *)
(* postgres.Open, migrate).                                                            *)
THEOREM MigrationsAreSafe == MigrationsSpec => []MigrationsSafe
<1>1. MigrationsInit => MigrationsInv
  BY MigrationsStart
<1>2. MigrationsInv /\ [MigrationsNext]_migrationVars => MigrationsInv'
  <2> SUFFICES ASSUME MigrationsInv, [MigrationsNext]_migrationVars PROVE MigrationsInv'
    OBVIOUS
  <2>1. ASSUME NEW o \in Openers, Open(o) PROVE MigrationsInv'
    BY <2>1, OpenStands
  <2>2. ASSUME NEW o \in Openers, migrate(o) PROVE MigrationsInv'
    BY <2>2, MigrateStands
  <2>3. ASSUME NEW o \in Openers, Opened(o) PROVE MigrationsInv'
    BY <2>3, OpenedStands
  <2>4. ASSUME NEW o \in Openers, Restart(o) PROVE MigrationsInv'
    BY <2>4, RestartStands
  <2>5. CASE UNCHANGED migrationVars
    BY <2>5 DEF MigrationsInv, RungIs, At, migrationVars
  <2> QED BY <2>1, <2>2, <2>3, <2>4, <2>5 DEF MigrationsNext
<1> QED BY <1>1, <1>2, MigrationsInvImplies, PTL DEF MigrationsSpec
=============================================================================
