---------------------------- MODULE SymbolProofs ----------------------------
(* The page of a symbol lookup is the best prefix of all that matches, and  *)
(* the passes over language servers take back nothing without evidence and  *)
(* hide no failure behind a row, for any rows, page size, answers of the    *)
(* servers, passes, edits and failures.                                     *)
EXTENDS UnitLookup, Refiners, WellFoundedInduction, FiniteSetTheorems,
        SequenceTheorems, TLAPS

-----------------------------------------------------------------------------
(* Numbers *)

(* A set of numbers has a least one.                                                     *)
LEMMA LeastNumber ==
    ASSUME NEW T \in SUBSET Nat, T # {}
    PROVE  \E n \in T : \A m \in T : n <= m
<1> DEFINE R == {ss \in Nat \X Nat : ss[1] < ss[2]}
<1>1. IsWellFoundedOn(R, Nat)
  BY NatLessThanWellFounded DEF OpToRel
<1>2. PICK n \in T : \A m \in T : ~(<<m, n>> \in R)
  <2> HIDE DEF R
  <2> QED BY <1>1, WFMin
<1>3. ASSUME NEW m \in T PROVE n <= m
  <2>1. <<m, n>> \in Nat \X Nat /\ <<m, n>>[1] = m /\ <<m, n>>[2] = n
    OBVIOUS
  <2>2. ~(m < n)
    BY <1>2, <2>1, Zenon
  <2> QED BY <2>2
<1> QED BY <1>3

(* Induction, with the property as a set of numbers. *)
LEMMA InductionSet ==
    ASSUME NEW T, 0 \in T, \A n \in Nat : n \in T => n + 1 \in T
    PROVE  Nat \subseteq T
<1> SUFFICES ASSUME Nat \ T # {} PROVE FALSE
  OBVIOUS
<1>1. PICK n \in Nat \ T : \A m \in Nat \ T : n <= m
  BY LeastNumber
<1>2. n # 0 /\ n - 1 \in Nat
  BY <1>1
<1>3. n - 1 \in T
  BY <1>1, <1>2
<1> QED BY <1>1, <1>2, <1>3

-----------------------------------------------------------------------------
(* Sorting *)

(* A strict total order of a set, by its pairs, and a sequence in that order.   *)
Orders(less, S) ==
    /\ \A x \in S : <<x, x>> \notin less
    /\ \A x, y, z \in S : <<x, y>> \in less /\ <<y, z>> \in less => <<x, z>> \in less
    /\ \A x, y \in S : x = y \/ <<x, y>> \in less \/ <<y, x>> \in less

Sorts(s, n, S, less) ==
    s \in [1 .. n -> S] /\ \A i, j \in 1 .. n : i < j => <<s[i], s[j]>> \in less

(* A set in order leaves nobody out and names nobody twice.                     *)
LEMMA SortedCovers ==
    ASSUME NEW S, IsFiniteSet(S), NEW n, n = Cardinality(S), NEW less, Orders(less, S),
           NEW s, Sorts(s, n, S, less)
    PROVE  /\ n \in Nat
           /\ \A i, j \in 1 .. n : s[i] = s[j] => i = j
           /\ \A x \in S : \E i \in 1 .. n : s[i] = x
<1>1. n \in Nat
  BY FS_CardinalityType
<1>2. s \in [1 .. n -> S]
  BY DEF Sorts
<1>3. ASSUME NEW i \in 1 .. n, NEW j \in 1 .. n, s[i] = s[j] PROVE i = j
  <2>1. s[i] \in S /\ <<s[i], s[i]>> \notin less
    BY <1>2 DEF Orders
  <2>2. ~(i < j) /\ ~(j < i)
    BY <1>3, <2>1 DEF Sorts
  <2> QED BY <1>1, <2>2
<1>4. s \in Injection(1 .. n, S)
  BY <1>2, <1>3 DEF Injection, IsInjective
<1>5. Cardinality(1 .. n) = n
  BY <1>1, FS_Interval
<1>6. s \in Surjection(1 .. n, S)
  BY <1>1, <1>4, <1>5, FS_Injection
<1> QED BY <1>1, <1>3, <1>6 DEF Surjection

LEMMA SortedExists ==
    ASSUME NEW S, IsFiniteSet(S), NEW less, Orders(less, S)
    PROVE  \E s : Sorts(s, Cardinality(S), S, less)
<1> DEFINE T == {n \in Nat : \A U \in SUBSET S : Cardinality(U) = n => \E s : Sorts(s, n, U, less)}
<1>1. \A U \in SUBSET S : IsFiniteSet(U) /\ Cardinality(U) \in Nat /\ Orders(less, U)
  BY FS_Subset, FS_CardinalityType DEF Orders
<1>2. 0 \in T
  <2> SUFFICES ASSUME NEW U \in SUBSET S, Cardinality(U) = 0 PROVE \E s : Sorts(s, 0, U, less)
    OBVIOUS
  <2> DEFINE s == [i \in 1 .. 0 |-> 0]
  <2>1. Sorts(s, 0, U, less)
    BY DEF Sorts
  <2> QED BY <2>1
<1>3. ASSUME NEW n \in Nat, n \in T PROVE n + 1 \in T
  <2> SUFFICES ASSUME NEW U \in SUBSET S, Cardinality(U) = n + 1 PROVE \E s : Sorts(s, n + 1, U, less)
    OBVIOUS
  <2>1. \A x \in U : Cardinality(U \ {x}) = n /\ U \ {x} \in SUBSET S
    <3> SUFFICES ASSUME NEW x \in U PROVE Cardinality(U \ {x}) = n
      OBVIOUS
    <3> HIDE DEF T
    <3>1. Cardinality(U \ {x}) = Cardinality(U) - 1
      BY <1>1, FS_RemoveElement
    <3> QED BY <3>1
  <2>2. U # {}
    BY FS_EmptySet
  <2>3. PICK m \in U : \A y \in U \ {m} : <<y, m>> \in less
    <3>1. PICK x \in U : TRUE
      BY <2>2
    <3> DEFINE V == U \ {x}
    <3>2. IsFiniteSet(V) /\ Cardinality(V) = n /\ Orders(less, V) /\ V \subseteq U
      BY <1>1, <2>1
    <3>3. PICK t : Sorts(t, n, V, less)
      BY <1>3, <2>1
    <3> HIDE DEF V, T
    <3>4. \A y \in V : \E i \in 1 .. n : t[i] = y
      BY <3>2, <3>3, SortedCovers
    <3>5. CASE n = 0
      <4>1. V = {}
        BY <3>4, <3>5
      <4> QED BY <3>1, <4>1 DEF V
    <3>6. CASE n # 0
      <4>1. n \in 1 .. n /\ t[n] \in V
        BY <3>3, <3>6 DEF Sorts
      <4>2. \A y \in V : y = t[n] \/ <<y, t[n]>> \in less
        <5> SUFFICES ASSUME NEW y \in V PROVE y = t[n] \/ <<y, t[n]>> \in less
          OBVIOUS
        <5>1. PICK i \in 1 .. n : t[i] = y
          BY <3>4
        <5>2. i = n \/ i < n
          OBVIOUS
        <5> QED BY <3>3, <4>1, <5>1, <5>2 DEF Sorts
      <4>3. CASE <<t[n], x>> \in less
        <5>1. \A y \in V : <<y, x>> \in less
          BY <1>1, <3>2, <4>1, <4>2, <4>3 DEF Orders
        <5> QED BY <5>1 DEF V
      <4>4. CASE <<t[n], x>> \notin less
        <5>1. x # t[n] /\ <<x, t[n]>> \in less
          BY <1>1, <3>2, <4>1, <4>4 DEF Orders, V
        <5> QED BY <3>2, <4>1, <4>2, <5>1 DEF V
      <4> QED BY <4>3, <4>4
    <3> QED BY <3>5, <3>6
  <2>4. PICK r : Sorts(r, n, U \ {m}, less)
    BY <1>3, <2>1
  <2> HIDE DEF T
  <2> DEFINE s == [i \in 1 .. n + 1 |-> IF i = n + 1 THEN m ELSE r[i]]
  <2>5. \A i \in 1 .. n + 1 : i = n + 1 \/ i \in 1 .. n
    OBVIOUS
  <2>6. s[n + 1] = m /\ \A i \in 1 .. n : s[i] = r[i] /\ r[i] \in U \ {m}
    BY <2>4 DEF Sorts
  <2>7. s \in [1 .. n + 1 -> U]
    BY <2>5, <2>6
  <2> HIDE DEF s
  <2>8. ASSUME NEW i \in 1 .. n + 1, NEW j \in 1 .. n + 1, i < j PROVE <<s[i], s[j]>> \in less
    <3>1. i \in 1 .. n
      BY <2>8
    <3>2. CASE j = n + 1
      BY <2>3, <2>6, <3>1, <3>2
    <3>3. CASE j \in 1 .. n
      BY <2>4, <2>6, <2>8, <3>1, <3>3 DEF Sorts
    <3> QED BY <2>5, <3>2, <3>3
  <2>9. Sorts(s, n + 1, U, less)
    BY <2>7, <2>8 DEF Sorts
  <2> QED BY <2>9
<1>4. Cardinality(S) \in T
  <2> HIDE DEF T
  <2> QED BY <1>1, <1>2, <1>3, InductionSet
<1> QED BY <1>4

LEMMA InOrderSorts ==
    ASSUME NEW S, IsFiniteSet(S), NEW less, Orders(less, S)
    PROVE  Sorts(InOrder(S, less), Cardinality(S), S, less)
<1>1. \E s \in [1 .. Cardinality(S) -> S] :
          \A i, j \in 1 .. Cardinality(S) : i < j => <<s[i], s[j]>> \in less
  BY SortedExists DEF Sorts
<1> QED BY <1>1 DEF InOrder, Sorts

(* There is one such sequence.                                                 *)
LEMMA SortedOnce ==
    ASSUME NEW S, IsFiniteSet(S), NEW n, n = Cardinality(S), NEW less, Orders(less, S),
           NEW s, Sorts(s, n, S, less), NEW t, Sorts(t, n, S, less)
    PROVE  s = t
<1>1. n \in Nat /\ s \in [1 .. n -> S] /\ t \in [1 .. n -> S]
  BY FS_CardinalityType DEF Sorts
<1>2. /\ \A i, j \in 1 .. n : s[i] = s[j] => i = j
      /\ \A x \in S : \E i \in 1 .. n : s[i] = x
  BY SortedCovers
<1>3. /\ \A i, j \in 1 .. n : t[i] = t[j] => i = j
      /\ \A x \in S : \E i \in 1 .. n : t[i] = x
  BY SortedCovers
<1> DEFINE D == {i \in 1 .. n : s[i] # t[i]}
<1>4. D = {}
  <2> SUFFICES ASSUME D # {} PROVE FALSE
    OBVIOUS
  <2>1. D \in SUBSET Nat
    BY <1>1
  <2>2. PICK i \in D : \A k \in D : i <= k
    <3> HIDE DEF D
    <3> QED BY <2>1, LeastNumber
  <2>3. i \in 1 .. n /\ s[i] # t[i] /\ s[i] \in S /\ t[i] \in S /\ \A k \in 1 .. n : k < i => s[k] = t[k]
    BY <1>1, <2>2
  <2>4. PICK j \in 1 .. n : t[j] = s[i]
    BY <1>3, <2>3
  <2>5. PICK k \in 1 .. n : s[k] = t[i]
    BY <1>2, <2>3
  <2> HIDE DEF D
  <2>6. i < j
    BY <1>1, <1>2, <2>3, <2>4
  <2>7. i < k
    BY <1>1, <1>3, <2>3, <2>5
  <2>8. <<s[i], t[i]>> \in less
    BY <2>3, <2>5, <2>7 DEF Sorts
  <2>9. <<t[i], s[i]>> \in less
    BY <2>3, <2>4, <2>6 DEF Sorts
  <2> QED BY <2>3, <2>8, <2>9 DEF Orders
<1> QED BY <1>1, <1>4

(* Two sets in order, one before the other, put one after the other.            *)
Joined(s, m, t, n) == [i \in 1 .. m + n |-> IF i <= m THEN s[i] ELSE t[i - m]]

LEMMA SortedJoin ==
    ASSUME NEW A, NEW B, IsFiniteSet(A), IsFiniteSet(B), NEW less,
           \A a \in A, b \in B : <<a, b>> \in less /\ a # b,
           NEW m, m = Cardinality(A), NEW n, n = Cardinality(B),
           NEW s, Sorts(s, m, A, less), NEW t, Sorts(t, n, B, less)
    PROVE  /\ Cardinality(A \cup B) = m + n
           /\ Sorts(Joined(s, m, t, n), m + n, A \cup B, less)
<1>1. m \in Nat /\ n \in Nat /\ s \in [1 .. m -> A] /\ t \in [1 .. n -> B]
  BY FS_CardinalityType DEF Sorts
<1>2. Cardinality(A \cup B) = m + n
  <2>1. A \cap B = {}
    OBVIOUS
  <2>2. Cardinality(A \cap B) = 0
    BY <2>1, FS_EmptySet
  <2>3. Cardinality(A \cup B) = Cardinality(A) + Cardinality(B) - Cardinality(A \cap B)
    BY FS_Union
  <2> QED BY <1>1, <2>2, <2>3
<1> DEFINE f == [i \in 1 .. m + n |-> IF i <= m THEN s[i] ELSE t[i - m]]
<1>3. \A i \in 1 .. m + n : \/ i <= m /\ i \in 1 .. m /\ f[i] = s[i] /\ s[i] \in A
                            \/ ~(i <= m) /\ i - m \in 1 .. n /\ f[i] = t[i - m] /\ t[i - m] \in B
  <2> SUFFICES ASSUME NEW i \in 1 .. m + n
               PROVE  \/ i <= m /\ i \in 1 .. m /\ f[i] = s[i] /\ s[i] \in A
                      \/ ~(i <= m) /\ i - m \in 1 .. n /\ f[i] = t[i - m] /\ t[i - m] \in B
    OBVIOUS
  <2>1. CASE i <= m
    BY <1>1, <2>1
  <2>2. CASE ~(i <= m)
    <3>1. i - m \in 1 .. n
      BY <1>1, <2>2
    <3> QED BY <1>1, <2>2, <3>1
  <2> QED BY <2>1, <2>2
<1>4. f \in [1 .. m + n -> A \cup B]
  BY <1>3
<1> HIDE DEF f
<1>5. ASSUME NEW i \in 1 .. m + n, NEW j \in 1 .. m + n, i < j PROVE <<f[i], f[j]>> \in less
  <2>1. CASE j <= m
    BY <1>1, <1>3, <1>5, <2>1 DEF Sorts
  <2>2. CASE i <= m /\ ~(j <= m)
    BY <1>3, <2>2
  <2>3. CASE ~(i <= m)
    <3>1. ~(j <= m) /\ i - m < j - m
      BY <1>1, <1>5, <2>3
    <3> QED BY <1>3, <2>3, <3>1 DEF Sorts
  <2> QED BY <1>1, <2>1, <2>2, <2>3
<1>6. Sorts(f, m + n, A \cup B, less)
  BY <1>4, <1>5 DEF Sorts
<1> QED BY <1>2, <1>6 DEF f, Joined

-----------------------------------------------------------------------------
(* The lookup *)

LEMMA KeyLess4 ==
    ASSUME NEW s, DOMAIN s = 1 .. 4, NEW t
    PROVE  KeyLess(s, t) <=> \/ s[1] < t[1]
                             \/ s[1] = t[1] /\ s[2] < t[2]
                             \/ s[1] = t[1] /\ s[2] = t[2] /\ s[3] < t[3]
                             \/ s[1] = t[1] /\ s[2] = t[2] /\ s[3] = t[3] /\ s[4] < t[4]
  BY DEF KeyLess

LEMMA KeyLess5 ==
    ASSUME NEW s, DOMAIN s = 1 .. 5, NEW t
    PROVE  KeyLess(s, t) <=> \/ s[1] < t[1]
                             \/ s[1] = t[1] /\ s[2] < t[2]
                             \/ s[1] = t[1] /\ s[2] = t[2] /\ s[3] < t[3]
                             \/ s[1] = t[1] /\ s[2] = t[2] /\ s[3] = t[3] /\ s[4] < t[4]
                             \/ /\ s[1] = t[1] /\ s[2] = t[2] /\ s[3] = t[3] /\ s[4] = t[4]
                                /\ s[5] < t[5]
  BY DEF KeyLess

(* How far a unit is from the term, and which of two comes first.              *)
Far(u, opts) == IF Matches(u, opts.terms, AsWritten) THEN 0 ELSE 1

LEMMA BetterIs ==
    ASSUME NEW u \in DOMAIN UnitPool, NEW v \in DOMAIN UnitPool, NEW opts
    PROVE  Better(u, v, opts)
             <=> \/ UnitPool[u].penalty < UnitPool[v].penalty
                 \/ UnitPool[u].penalty = UnitPool[v].penalty /\ Far(u, opts) < Far(v, opts)
                 \/ /\ UnitPool[u].penalty = UnitPool[v].penalty /\ Far(u, opts) = Far(v, opts)
                    /\ UnitPool[u].length < UnitPool[v].length
                 \/ /\ UnitPool[u].penalty = UnitPool[v].penalty /\ Far(u, opts) = Far(v, opts)
                    /\ UnitPool[u].length = UnitPool[v].length /\ u < v
<1> DEFINE s == <<UnitPool[u].penalty, Far(u, opts), UnitPool[u].length, u>>
           t == <<UnitPool[v].penalty, Far(v, opts), UnitPool[v].length, v>>
<1>1. /\ DOMAIN s = 1 .. 4
      /\ s[1] = UnitPool[u].penalty /\ s[2] = Far(u, opts) /\ s[3] = UnitPool[u].length /\ s[4] = u
      /\ t[1] = UnitPool[v].penalty /\ t[2] = Far(v, opts) /\ t[3] = UnitPool[v].length /\ t[4] = v
  OBVIOUS
<1>2. Better(u, v, opts) <=> KeyLess(s, t)
  BY DEF Better, Far
<1> HIDE DEF s, t
<1>3. KeyLess(s, t) <=> \/ s[1] < t[1]
                        \/ s[1] = t[1] /\ s[2] < t[2]
                        \/ s[1] = t[1] /\ s[2] = t[2] /\ s[3] < t[3]
                        \/ s[1] = t[1] /\ s[2] = t[2] /\ s[3] = t[3] /\ s[4] < t[4]
  BY <1>1, KeyLess4
<1> QED BY <1>1, <1>2, <1>3

LEMMA BetterOrders ==
    ASSUME NEW A \in SUBSET DOMAIN UnitPool, NEW opts
    PROVE  Orders({p \in A \X A : Better(p[1], p[2], opts)}, A)
<1> DEFINE less == {p \in A \X A : Better(p[1], p[2], opts)}
<1>1. \A u, v \in A : <<u, v>> \in less <=> Better(u, v, opts)
  OBVIOUS
<1> HIDE DEF less
<1>2. \A u \in A : /\ u \in Int /\ Far(u, opts) \in Int
                   /\ UnitPool[u].penalty \in Int /\ UnitPool[u].length \in Int
  BY UnitLookupAssumption DEF Far
<1>3. \A u \in A : ~Better(u, u, opts)
  BY <1>2, BetterIs
<1>4. \A u, v, w \in A : Better(u, v, opts) /\ Better(v, w, opts) => Better(u, w, opts)
  <2> SUFFICES ASSUME NEW u \in A, NEW v \in A, NEW w \in A, Better(u, v, opts), Better(v, w, opts)
               PROVE  Better(u, w, opts)
    OBVIOUS
  <2>1. \A x, y \in {u, v, w} :
          Better(x, y, opts)
             <=> \/ UnitPool[x].penalty < UnitPool[y].penalty
                 \/ UnitPool[x].penalty = UnitPool[y].penalty /\ Far(x, opts) < Far(y, opts)
                 \/ /\ UnitPool[x].penalty = UnitPool[y].penalty /\ Far(x, opts) = Far(y, opts)
                    /\ UnitPool[x].length < UnitPool[y].length
                 \/ /\ UnitPool[x].penalty = UnitPool[y].penalty /\ Far(x, opts) = Far(y, opts)
                    /\ UnitPool[x].length = UnitPool[y].length /\ x < y
    BY BetterIs
  <2> QED BY <1>2, <2>1
<1>5. \A u, v \in A : u = v \/ Better(u, v, opts) \/ Better(v, u, opts)
  BY <1>2, BetterIs
<1>6. Orders(less, A)
  BY <1>1, <1>3, <1>4, <1>5 DEF Orders
<1> QED BY <1>6 DEF less

(* The corpus: one row per unit, one id per row.                               *)
UnitRows == [id : Nat, at : DOMAIN UnitPool]
CorpusOK(rs, c) ==
    /\ c \in Nat /\ rs \subseteq UnitRows /\ IsFiniteSet(rs)
    /\ \A r \in rs : r.id <= c
    /\ \A r, q \in rs : r.id = q.id \/ r.at = q.at => r = q

Bests(F, opts) == {p \in F \X F : Better(p[1].at, p[2].at, opts)}

LEMMA BestsOrder ==
    ASSUME NEW rs, NEW c, CorpusOK(rs, c), NEW F \in SUBSET rs, NEW opts
    PROVE  IsFiniteSet(F) /\ Orders(Bests(F, opts), F)
<1> DEFINE A == DOMAIN UnitPool
           less == {p \in A \X A : Better(p[1], p[2], opts)}
<1>1. Orders(less, A)
  BY BetterOrders
<1>2. \A u, v \in A : <<u, v>> \in less <=> Better(u, v, opts)
  OBVIOUS
<1>3. \A r, q \in F : /\ <<r, q>> \in Bests(F, opts) <=> <<r.at, q.at>> \in less
                      /\ r.at \in A /\ (r.at = q.at => r = q)
  <2> SUFFICES ASSUME NEW r \in F, NEW q \in F
               PROVE  /\ <<r, q>> \in Bests(F, opts) <=> <<r.at, q.at>> \in less
                      /\ r.at \in A /\ (r.at = q.at => r = q)
    OBVIOUS
  <2>1. r.at \in A /\ q.at \in A /\ (r.at = q.at => r = q)
    BY DEF CorpusOK, UnitRows
  <2>2. <<r, q>> \in Bests(F, opts) <=> Better(r.at, q.at, opts)
    BY DEF Bests
  <2> HIDE DEF less
  <2> QED BY <1>2, <2>1, <2>2
<1>4. IsFiniteSet(F)
  BY FS_Subset DEF CorpusOK
<1> HIDE DEF A, less
<1> QED BY <1>1, <1>3, <1>4 DEF Orders

(* What follows of the rows in order for their units in order.                 *)
UnitsOf(s, n) == [i \in 1 .. n |-> s[i].at]

LEMMA UnitsInOrder ==
    ASSUME NEW rs, NEW c, CorpusOK(rs, c), NEW F \in SUBSET rs, NEW opts,
           NEW n, n = Cardinality(F), NEW s, Sorts(s, n, F, Bests(F, opts)),
           NEW A, A = {r.at : r \in F}
    PROVE  InOrder(A, {p \in A \X A : Better(p[1], p[2], opts)}) = UnitsOf(s, n)
<1> DEFINE less == {p \in A \X A : Better(p[1], p[2], opts)}
           g == [r \in F |-> r.at]
           t == [i \in 1 .. n |-> s[i].at]
<1>1. \A r \in F : r.at \in A /\ r.at \in DOMAIN UnitPool
  BY DEF CorpusOK, UnitRows
<1>2. A \in SUBSET DOMAIN UnitPool /\ IsFiniteSet(F) /\ n \in Nat
  BY <1>1, BestsOrder, FS_CardinalityType
<1>3. Orders(less, A)
  BY <1>2, BetterOrders
<1>4. g \in Surjection(F, A) /\ g \in Injection(F, A)
  BY DEF Surjection, Injection, IsInjective, CorpusOK
<1>5. IsFiniteSet(A) /\ Cardinality(A) = n
  <2> HIDE DEF g
  <2>1. IsFiniteSet(A)
    BY <1>2, <1>4, FS_Surjection
  <2> QED BY <1>4, <2>1, FS_Injection
<1>6. \A i \in 1 .. n : s[i] \in F /\ t[i] = s[i].at /\ t[i] \in A
  BY <1>1 DEF Sorts
<1>7. t \in [1 .. n -> A]
  BY <1>6
<1>8. \A u, v \in A : Better(u, v, opts) => <<u, v>> \in less
  OBVIOUS
<1> HIDE DEF less, t, g
<1>9. \A i, j \in 1 .. n : i < j => <<t[i], t[j]>> \in less
  <2> SUFFICES ASSUME NEW i \in 1 .. n, NEW j \in 1 .. n, i < j PROVE <<t[i], t[j]>> \in less
    OBVIOUS
  <2>1. <<s[i], s[j]>> \in Bests(F, opts)
    BY DEF Sorts
  <2>2. Better(s[i].at, s[j].at, opts)
    BY <2>1 DEF Bests
  <2> QED BY <1>6, <1>8, <2>2
<1>10. Sorts(t, n, A, less)
  BY <1>7, <1>9 DEF Sorts
<1>11. Sorts(InOrder(A, less), n, A, less)
  BY <1>3, <1>5, InOrderSorts
<1>12. InOrder(A, less) = t
  BY <1>3, <1>5, <1>10, <1>11, SortedOnce
<1> QED BY <1>12 DEF less, t, UnitsOf

(* LimitedTo keeps the leading entries, as many as there may be.               *)
Leading(s, k) == [i \in 1 .. k |-> s[i]]
Kept(n, limit) == IF limit > 0 /\ n > limit THEN limit ELSE n

LEMMA Limited ==
    ASSUME NEW n \in Nat, NEW s, s = Leading(s, n), NEW limit \in Int
    PROVE  /\ Kept(n, limit) \in 0 .. n /\ (limit > 0 => Kept(n, limit) <= limit)
           /\ LimitedTo(s, limit) = Leading(s, Kept(n, limit))
           /\ Len(Leading(s, Kept(n, limit))) = Kept(n, limit)
<1> DEFINE X == {s[i] : i \in 1 .. n}
<1>1. s \in [1 .. n -> X]
  <2>1. \A i \in 1 .. n : s[i] \in X
    OBVIOUS
  <2> HIDE DEF X
  <2> QED BY <2>1 DEF Leading
<1> HIDE DEF X
<1>2. s \in Seq(X) /\ Len(s) = n
  BY <1>1
<1>3. Kept(n, limit) \in 0 .. n /\ (limit > 0 => Kept(n, limit) <= limit)
  BY DEF Kept
<1>4. CASE limit > 0 /\ n > limit
  <2>1. LimitedTo(s, limit) = SubSeq(s, 1, limit) /\ Kept(n, limit) = limit
    BY <1>2, <1>4 DEF LimitedTo, Kept
  <2>2. SubSeq(s, 1, limit) = [i \in 1 .. limit |-> s[i]] /\ Len(SubSeq(s, 1, limit)) = limit
    BY <1>2, <1>4
  <2> QED BY <1>3, <2>1, <2>2 DEF Leading
<1>5. CASE ~(limit > 0 /\ n > limit)
  <2>1. LimitedTo(s, limit) = s /\ Kept(n, limit) = n
    BY <1>2, <1>5 DEF LimitedTo, Kept
  <2> QED BY <1>2, <1>3, <2>1
<1> QED BY <1>4, <1>5

(* The rows a statement finds, and the rows all statements together should.    *)
Found(opts, tier, exclude) == {r \in rows : UnitFilters(r.at, opts, tier) /\ r.id \notin exclude}

All(opts) ==
    {x \in rows : /\ opts.repos = {} \/ UnitPool[x.at].repo \in opts.repos
                  /\ Matches(x.at, opts.terms, IF Widens(opts) THEN Containing ELSE AsWritten)}

LEMMA MatchesMore ==
    ASSUME NEW u, NEW terms, Matches(u, terms, AsWritten)
    PROVE  Matches(u, terms, Containing)
  BY DEF Matches, AsWritten, Containing

LEMMA UnitQueryIs ==
    ASSUME NEW c, CorpusOK(rows, c), NEW opts, opts.limit \in Int,
           NEW tier \in {"exact", "handWritten", "remainder"}, NEW limit \in Int, NEW exclude,
           NEW F, F = Found(opts, tier, exclude), NEW n, n = Cardinality(F)
    PROVE  /\ n \in Nat
           /\ Sorts(InOrder(F, Bests(F, opts)), n, F, Bests(F, opts))
           /\ UnitQuery(opts, tier, limit, exclude) = LimitedTo(InOrder(F, Bests(F, opts)), limit)
<1> DEFINE less == {p \in F \X F : KeyLess(unitOrderBy(p[1], opts, tier), unitOrderBy(p[2], opts, tier))}
<1>1. F \in SUBSET rows
  BY DEF Found
<1>2. IsFiniteSet(F) /\ Orders(Bests(F, opts), F) /\ n \in Nat
  BY <1>1, BestsOrder, FS_CardinalityType
<1>3. ASSUME NEW r \in F, NEW q \in F
      PROVE  KeyLess(unitOrderBy(r, opts, tier), unitOrderBy(q, opts, tier)) <=> Better(r.at, q.at, opts)
  <2> DEFINE Flag(x) == IF tier = "remainder" /\ ~Matches(x.at, opts.terms, AsWritten) THEN 1 ELSE 0
             a == UnitPool[r.at].penalty
             b == Flag(r)
             d == UnitPool[r.at].length
             e == UnitPool[q.at].penalty
             f == Flag(q)
             g == UnitPool[q.at].length
             u == r.at
             v == q.at
             k == r.id
             l == q.id
  <2>1. u \in DOMAIN UnitPool /\ v \in DOMAIN UnitPool /\ k \in Int /\ l \in Int
    BY <1>1 DEF CorpusOK, UnitRows
  <2>2. u \in Int /\ v \in Int /\ b \in Int /\ f \in Int /\ a \in Int /\ e \in Int /\ d \in Int /\ g \in Int
    BY <2>1, UnitLookupAssumption
  <2>3. ASSUME NEW x \in F PROVE Flag(x) = Far(x.at, opts)
    <3>1. CASE tier = "remainder"
      BY <3>1 DEF Far
    <3>2. CASE tier # "remainder"
      <4>1. Matches(x.at, opts.terms, AsWritten)
        BY <3>2 DEF Found, UnitFilters
      <4> QED BY <3>2, <4>1 DEF Far
    <3> QED BY <3>1, <3>2
  <2>4. u = v => k = l
    BY <1>1 DEF CorpusOK
  <2>5. unitOrderBy(r, opts, tier) = <<a, b, d, u, k>> /\ unitOrderBy(q, opts, tier) = <<e, f, g, v, l>>
    BY DEF unitOrderBy
  <2>6. b = Far(u, opts) /\ f = Far(v, opts)
    BY <2>3
  <2>7. Better(u, v, opts) <=> \/ a < e
                               \/ a = e /\ b < f
                               \/ a = e /\ b = f /\ d < g
                               \/ a = e /\ b = f /\ d = g /\ u < v
    <3>1. Better(u, v, opts) <=> \/ a < e
                                 \/ a = e /\ Far(u, opts) < Far(v, opts)
                                 \/ a = e /\ Far(u, opts) = Far(v, opts) /\ d < g
                                 \/ a = e /\ Far(u, opts) = Far(v, opts) /\ d = g /\ u < v
      <4> HIDE DEF u, v
      <4> QED BY <2>1, BetterIs DEF a, d, e, g, u, v
    <3> HIDE DEF a, b, d, e, f, g, u, v
    <3> QED BY <2>6, <3>1
  <2> DEFINE s == <<a, b, d, u, k>>
             t == <<e, f, g, v, l>>
  <2> HIDE DEF Flag, a, b, d, e, f, g, u, v, k, l
  <2>8. KeyLess(s, t) <=> \/ a < e
                          \/ a = e /\ b < f
                          \/ a = e /\ b = f /\ d < g
                          \/ a = e /\ b = f /\ d = g /\ u < v
                          \/ a = e /\ b = f /\ d = g /\ u = v /\ k < l
    <3>1. /\ DOMAIN s = 1 .. 5
          /\ s[1] = a /\ s[2] = b /\ s[3] = d /\ s[4] = u /\ s[5] = k
          /\ t[1] = e /\ t[2] = f /\ t[3] = g /\ t[4] = v /\ t[5] = l
      OBVIOUS
    <3> HIDE DEF s, t
    <3>2. KeyLess(s, t) <=> \/ s[1] < t[1]
                            \/ s[1] = t[1] /\ s[2] < t[2]
                            \/ s[1] = t[1] /\ s[2] = t[2] /\ s[3] < t[3]
                            \/ s[1] = t[1] /\ s[2] = t[2] /\ s[3] = t[3] /\ s[4] < t[4]
                            \/ /\ s[1] = t[1] /\ s[2] = t[2] /\ s[3] = t[3] /\ s[4] = t[4]
                               /\ s[5] < t[5]
      BY <3>1, KeyLess5
    <3> QED BY <3>1, <3>2
  <2>9. KeyLess(s, t) <=> Better(u, v, opts)
    BY <2>1, <2>4, <2>7, <2>8
  <2> QED BY <2>5, <2>9 DEF u, v, s, t
<1>4. less = Bests(F, opts)
  <2>1. \A p \in F \X F : p[1] \in F /\ p[2] \in F
    OBVIOUS
  <2> QED BY <1>3, <2>1 DEF Bests
<1>5. UnitQuery(opts, tier, limit, exclude) = LimitedTo(InOrder(F, less), limit)
  BY DEF UnitQuery, Found
<1> HIDE DEF less
<1>6. Sorts(InOrder(F, Bests(F, opts)), n, F, Bests(F, opts))
  BY <1>2, InOrderSorts
<1> QED BY <1>2, <1>4, <1>5, <1>6

LEMMA BestFirstIs ==
    ASSUME NEW c, CorpusOK(rows, c), NEW opts, NEW n, n = Cardinality(All(opts)),
           NEW s, Sorts(s, n, All(opts), Bests(All(opts), opts))
    PROVE  BestFirst(opts) = UnitsOf(s, n)
<1>1. All(opts) \in SUBSET rows
  BY DEF All
<1>2. Wanted(opts) = {r.at : r \in All(opts)}
  BY DEF Wanted, All
<1> QED BY <1>1, <1>2, UnitsInOrder DEF BestFirst

(* The rows the first statement finds are the best of all, and the second one  *)
(* finds the others.                                                           *)
LEMMA Tiers ==
    ASSUME NEW c, CorpusOK(rows, c), NEW opts, opts.limit \in Int,
           NEW E, E = Found(opts, FirstTier(opts), {})
    PROVE  /\ E \in SUBSET All(opts)
           /\ ~Widens(opts) => E = All(opts)
           /\ \A r \in E, q \in All(opts) \ E : <<r, q>> \in Bests(All(opts), opts) /\ r # q
           /\ Widens(opts) => Found(opts, "remainder", {r.id : r \in E}) = All(opts) \ E
<1>1. CASE ~Widens(opts)
  <2>1. FirstTier(opts) = "exact"
    BY <1>1 DEF FirstTier
  <2>2. E = All(opts)
    BY <1>1, <2>1 DEF Found, All, UnitFilters
  <2> QED BY <1>1, <2>2
<1>2. CASE Widens(opts)
  <2>1. FirstTier(opts) = "handWritten"
    BY <1>2 DEF FirstTier
  <2>2. E = {r \in rows : /\ opts.repos = {} \/ UnitPool[r.at].repo \in opts.repos
                          /\ Matches(r.at, opts.terms, AsWritten) /\ UnitPool[r.at].penalty = 0}
    BY <2>1 DEF Found, UnitFilters
  <2>3. All(opts) = {r \in rows : /\ opts.repos = {} \/ UnitPool[r.at].repo \in opts.repos
                                  /\ Matches(r.at, opts.terms, Containing)}
    BY <1>2 DEF All
  <2>4. E \in SUBSET All(opts)
    BY <2>2, <2>3, MatchesMore
  <2>5. Found(opts, "remainder", {r.id : r \in E}) = All(opts) \ E
    <3>1. Found(opts, "remainder", {r.id : r \in E})
             = {x \in rows : x \in All(opts) /\ x.id \notin {r.id : r \in E}}
      BY <2>3 DEF Found, UnitFilters
    <3>2. ASSUME NEW x \in rows PROVE x.id \notin {r.id : r \in E} <=> x \notin E
      <4>1. \A r \in E : r \in rows
        BY <2>2
      <4> QED BY <4>1 DEF CorpusOK
    <3>3. All(opts) \subseteq rows
      BY <2>3
    <3> QED BY <3>1, <3>2, <3>3
  <2>6. ASSUME NEW r \in E, NEW q \in All(opts) \ E
        PROVE  <<r, q>> \in Bests(All(opts), opts) /\ r # q
    <3>1. /\ r.at \in DOMAIN UnitPool /\ q.at \in DOMAIN UnitPool
          /\ UnitPool[r.at].penalty = 0 /\ Far(r.at, opts) = 0
      BY <2>2, <2>3 DEF CorpusOK, UnitRows, Far
    <3>2. UnitPool[q.at].penalty \in Nat /\ (UnitPool[q.at].penalty # 0 \/ Far(q.at, opts) = 1)
      <4>1. ~(Matches(q.at, opts.terms, AsWritten) /\ UnitPool[q.at].penalty = 0)
        BY <2>2, <2>3
      <4> QED BY <3>1, <4>1, UnitLookupAssumption DEF Far
    <3>3. Better(r.at, q.at, opts)
      <4>1. \/ UnitPool[r.at].penalty < UnitPool[q.at].penalty
            \/ UnitPool[r.at].penalty = UnitPool[q.at].penalty /\ Far(r.at, opts) < Far(q.at, opts)
        BY <3>1, <3>2
      <4> QED BY <3>1, <4>1, BetterIs
    <3> QED BY <2>4, <3>3 DEF Bests
  <2> QED BY <1>2, <2>4, <2>5, <2>6
<1> QED BY <1>1, <1>2

FirstOf(opts) == Found(opts, FirstTier(opts), {})
Ranked(F, opts) == InOrder(F, Bests(F, opts))

LEMMA RankedIs ==
    ASSUME NEW c, CorpusOK(rows, c), NEW F \in SUBSET rows, NEW opts, NEW n, n = Cardinality(F)
    PROVE  /\ n \in Nat /\ Sorts(Ranked(F, opts), n, F, Bests(F, opts))
           /\ Ranked(F, opts) \in [1 .. n -> UnitRows]
           /\ \A i \in 1 .. n : Ranked(F, opts)[i] \in F
           /\ \A i, j \in 1 .. n : Ranked(F, opts)[i].id = Ranked(F, opts)[j].id => i = j
           /\ \A r \in F : \E i \in 1 .. n : Ranked(F, opts)[i] = r
<1>1. IsFiniteSet(F) /\ Orders(Bests(F, opts), F) /\ n \in Nat
  BY BestsOrder, FS_CardinalityType
<1>2. Sorts(Ranked(F, opts), n, F, Bests(F, opts))
  BY <1>1, InOrderSorts DEF Ranked
<1> DEFINE s == Ranked(F, opts)
<1> HIDE DEF s
<1>3. /\ \A i, j \in 1 .. n : s[i] = s[j] => i = j
      /\ \A r \in F : \E i \in 1 .. n : s[i] = r
  BY <1>1, <1>2, SortedCovers DEF s
<1>4. s \in [1 .. n -> F]
  BY <1>2 DEF Sorts, s
<1>5. F \subseteq UnitRows /\ \A r, q \in F : r.id = q.id => r = q
  BY DEF CorpusOK
<1>6. s \in [1 .. n -> UnitRows]
  BY <1>4, <1>5
<1>7. \A i, j \in 1 .. n : s[i].id = s[j].id => i = j
  BY <1>3, <1>4, <1>5
<1> QED BY <1>1, <1>2, <1>3, <1>4, <1>6, <1>7 DEF s

LEMMA FirstAndRest ==
    ASSUME NEW c, CorpusOK(rows, c), NEW opts, opts.limit \in Int,
           NEW E, E = FirstOf(opts), NEW R, R = All(opts) \ E,
           NEW m, m = Cardinality(E), NEW n, n = Cardinality(R)
    PROVE  BestFirst(opts) = [i \in 1 .. m + n |-> IF i <= m THEN Ranked(E, opts)[i].at
                                                   ELSE Ranked(R, opts)[i - m].at]
<1>1. /\ E \in SUBSET All(opts) /\ R \in SUBSET rows /\ E \in SUBSET rows
      /\ \A r \in E, q \in R : <<r, q>> \in Bests(All(opts), opts) /\ r # q
  <2>1. All(opts) \subseteq rows
    BY DEF All
  <2> QED BY <2>1, Tiers DEF FirstOf
<1>2. /\ m \in Nat /\ Sorts(Ranked(E, opts), m, E, Bests(E, opts))
      /\ n \in Nat /\ Sorts(Ranked(R, opts), n, R, Bests(R, opts))
  BY <1>1, RankedIs
<1>3. Bests(E, opts) \subseteq Bests(All(opts), opts) /\ Bests(R, opts) \subseteq Bests(All(opts), opts)
  BY <1>1 DEF Bests
<1>4. Sorts(Ranked(E, opts), m, E, Bests(All(opts), opts)) /\ Sorts(Ranked(R, opts), n, R, Bests(All(opts), opts))
  BY <1>2, <1>3 DEF Sorts
<1> DEFINE f == Joined(Ranked(E, opts), m, Ranked(R, opts), n)
           B == Bests(All(opts), opts)
           s == Ranked(E, opts)
           t == Ranked(R, opts)
<1>5. IsFiniteSet(E) /\ IsFiniteSet(R) /\ E \cup R = All(opts)
  BY <1>1, BestsOrder
<1>6. Cardinality(E \cup R) = m + n /\ Sorts(f, m + n, E \cup R, B)
  <2> HIDE DEF B, s, t
  <2>1. \A a \in E, b \in R : <<a, b>> \in B /\ a # b
    BY <1>1 DEF B
  <2>2. Sorts(s, m, E, B) /\ Sorts(t, n, R, B)
    BY <1>4 DEF B, s, t
  <2>3. /\ Cardinality(E \cup R) = m + n
        /\ Sorts(Joined(s, m, t, n), m + n, E \cup R, B)
    BY <1>5, <2>1, <2>2, SortedJoin
  <2> QED BY <2>3 DEF s, t
<1> HIDE DEF f
<1>7. BestFirst(opts) = UnitsOf(f, m + n)
  BY <1>5, <1>6, BestFirstIs
<1>8. \A i \in 1 .. m + n : f[i].at = IF i <= m THEN s[i].at ELSE t[i - m].at
  BY DEF f, Joined
<1> QED BY <1>7, <1>8 DEF UnitsOf

-----------------------------------------------------------------------------
(* The invariant *)

PageOK(pg, limit) ==
    /\ pg \in Seq(UnitRows)
    /\ \A i, j \in DOMAIN pg : i # j => pg[i].id # pg[j].id
    /\ limit > 0 => Len(pg) <= limit

BestPage(pg, opts) == [i \in DOMAIN pg |-> pg[i].at] = LimitedTo(BestFirst(opts), opts.limit)

(* An undisturbed lookup between its statements has the whole first tier, and     *)
(* at its end the best of all rows that match.                                   *)
LookupTyped == query.step # "none" => query \in [opts : Lookups, step : {"none", "second", "done"}]

LookupInv ==
    /\ CorpusOK(rows, commits)
    /\ query.step \in {"none", "second", "done"} /\ LookupTyped
    /\ query.step = "none" => ~disturbed
    /\ query.step # "none" => query.opts \in Lookups /\ PageOK(page, query.opts.limit)
    /\ query.step = "second" =>
          /\ Widens(query.opts) /\ Len(page) < query.opts.limit
          /\ ~disturbed => page = Ranked(FirstOf(query.opts), query.opts)
    /\ query.step = "done" /\ ~disturbed => BestPage(page, query.opts)

LEMMA LookupStarts == LookupInit => LookupInv
  BY FS_EmptySet DEF LookupInit, LookupInv, LookupTyped, CorpusOK

LEMMA LookupEnough == LookupInv => PageIsBestPrefix
  BY DEF LookupInv, PageOK, BestPage, PageIsBestPrefix

LEMMA CommitKeeps ==
    ASSUME LookupInv, NEW u \in DOMAIN UnitPool, CommitUnit(u)
    PROVE  LookupInv'
<1> DEFINE kept == {r \in rows : r.at # u}
           new == [id |-> commits + 1, at |-> u]
<1>1. CorpusOK(rows, commits)
  BY DEF LookupInv, LookupTyped
<1>2. IsFiniteSet(kept) /\ IsFiniteSet(kept \cup {new})
  BY <1>1, FS_Subset, FS_AddElement DEF CorpusOK
<1>3. commits \in Nat /\ new \in UnitRows /\ new.id = commits + 1 /\ new.at = u
  BY <1>1 DEF CorpusOK, UnitRows
<1>4. \A r \in kept : r \in rows /\ r.at # u /\ r \in UnitRows /\ r.id <= commits /\ r.id \in Nat
  BY <1>1 DEF CorpusOK, UnitRows
<1> HIDE DEF kept, new
<1>5. CorpusOK(kept \cup {new}, commits + 1)
  <2>1. kept \cup {new} \subseteq UnitRows /\ \A r \in kept \cup {new} : r.id <= commits + 1
    BY <1>3, <1>4
  <2>2. \A r, q \in kept \cup {new} : r.id = q.id \/ r.at = q.at => r = q
    BY <1>1, <1>3, <1>4 DEF CorpusOK
  <2> QED BY <1>2, <1>3, <2>1, <2>2 DEF CorpusOK
<1>6. rows' = kept \cup {new} /\ commits' = commits + 1
  BY DEF CommitUnit, kept, new
<1>7. CorpusOK(rows, commits)'
  BY <1>5, <1>6
<1>8. query' = query /\ page' = page /\ disturbed' = (disturbed \/ query.step # "none")
  BY DEF CommitUnit
<1> QED BY <1>7, <1>8 DEF LookupInv, LookupTyped

LEMMA FirstPageKeeps ==
    ASSUME LookupInv, NEW opts \in Lookups, FirstPage(opts)
    PROVE  LookupInv'
<1> DEFINE E == FirstOf(opts)
           R == All(opts) \ E
           m == Cardinality(E)
           n == Cardinality(R)
           s == Ranked(E, opts)
           t == Ranked(R, opts)
           units == UnitQuery(opts, FirstTier(opts), opts.limit, {})
           limit == opts.limit
           k == Kept(m, limit)
<1>1. CorpusOK(rows, commits) /\ limit \in Int /\ ~disturbed
  BY UnitLookupAssumption DEF LookupInv, FirstPage
<1>2. E \in SUBSET rows /\ R \in SUBSET rows
  BY DEF FirstOf, Found, All
<1>3. /\ m \in Nat /\ s \in [1 .. m -> UnitRows]
      /\ \A i, j \in 1 .. m : s[i].id = s[j].id => i = j
  <2> HIDE DEF E, m
  <2> QED BY <1>1, <1>2, RankedIs DEF m
<1>4. n \in Nat /\ t \in [1 .. n -> UnitRows]
  <2> HIDE DEF R, n
  <2> QED BY <1>1, <1>2, RankedIs DEF n
<1>5. units = LimitedTo(s, limit)
  <2>1. FirstTier(opts) \in {"exact", "handWritten", "remainder"}
    BY DEF FirstTier
  <2> QED BY <1>1, <2>1, UnitQueryIs DEF FirstOf, Ranked
<1>6. /\ k \in 0 .. m /\ (limit > 0 => k <= limit)
      /\ units = Leading(s, k) /\ units \in Seq(UnitRows) /\ Len(units) = k
  <2>1. s = Leading(s, m)
    BY <1>3 DEF Leading
  <2>2. k \in 0 .. m /\ (limit > 0 => k <= limit) /\ units = Leading(s, k) /\ Len(Leading(s, k)) = k
    <3> HIDE DEF E, m, s, units, limit
    <3> QED BY <1>1, <1>3, <1>5, <2>1, Limited
  <2>3. Leading(s, k) \in Seq(UnitRows)
    <3> HIDE DEF s, k, m
    <3> QED BY <1>3, <2>2 DEF Leading
  <2> QED BY <2>2, <2>3
<1>7. /\ page' = units /\ UNCHANGED <<rows, commits, disturbed>>
      /\ query' = [opts |-> opts, step |-> IF Widens(opts) /\ Len(units) < opts.limit THEN "second" ELSE "done"]
  BY DEF FirstPage
<1>8. query'.opts = opts /\ query'.step = IF Widens(opts) /\ k < limit THEN "second" ELSE "done"
  BY <1>6, <1>7
<1>9. (~Widens(opts) => R = {}) /\ (Widens(opts) => limit > 0)
  <2>1. ~Widens(opts) => E = All(opts)
    BY <1>1, Tiers DEF FirstOf
  <2> QED BY <2>1 DEF Widens
<1>10. BestFirst(opts) = [i \in 1 .. m + n |-> IF i <= m THEN s[i].at ELSE t[i - m].at]
  <2> HIDE DEF E, R, m, n
  <2> QED BY <1>1, FirstAndRest DEF E, R, m, n
<1>11. FirstOf(opts)' = E /\ Ranked(FirstOf(opts), opts)' = s /\ BestFirst(opts)' = BestFirst(opts)
  BY <1>7 DEF FirstOf, Found, Ranked, BestFirst, Wanted
<1>12. Cardinality({}) = 0
  BY FS_EmptySet
<1>13. R = {} => n = 0
  BY <1>12
<1> HIDE DEF E, R, m, n, s, t, units
<1>14. PageOK(units, limit)
  BY <1>1, <1>3, <1>6 DEF PageOK, Leading
<1>15. CASE Widens(opts) /\ k < limit
  <2>1. units = s
    <3>1. k = m
      BY <1>1, <1>3, <1>15 DEF Kept
    <3> QED BY <1>3, <1>6, <3>1 DEF Leading
  <2> QED BY <1>1, <1>6, <1>7, <1>8, <1>11, <1>14, <1>15, <2>1 DEF LookupInv, LookupTyped
<1>16. CASE ~(Widens(opts) /\ k < limit)
  <2>1. k = Kept(m + n, limit)
    <3>1. CASE Widens(opts)
      BY <1>1, <1>3, <1>4, <1>9, <1>16, <3>1 DEF Kept
    <3>2. CASE ~Widens(opts)
      BY <1>3, <1>9, <1>13, <3>2
    <3> QED BY <3>1, <3>2
  <2> DEFINE b == BestFirst(opts)
  <2>2. m + n \in Nat /\ b = [i \in 1 .. m + n |-> b[i]] /\ \A i \in 1 .. m : b[i] = s[i].at
    <3>1. \A i \in 1 .. m : i \in 1 .. m + n
      BY <1>3, <1>4
    <3>2. b = [i \in 1 .. m + n |-> b[i]]
      BY <1>10
    <3> QED BY <1>3, <1>4, <1>10, <3>1, <3>2
  <2>3. LimitedTo(b, limit) = Leading(b, k)
    <3>1. b = Leading(b, m + n)
      BY <2>2 DEF Leading
    <3> DEFINE N == m + n
    <3> HIDE DEF b, k, N, limit
    <3>2. N \in Nat /\ b = Leading(b, N) /\ k = Kept(N, limit)
      BY <2>1, <2>2, <3>1 DEF N
    <3>3. LimitedTo(b, limit) = Leading(b, Kept(N, limit))
      BY <1>1, <3>2, Limited
    <3> QED BY <3>2, <3>3
  <2>4. DOMAIN units = 1 .. k /\ \A i \in 1 .. k : i \in 1 .. m /\ units[i] = s[i]
    BY <1>3, <1>6 DEF Leading
  <2> HIDE DEF b, k
  <2>5. [i \in DOMAIN units |-> units[i].at] = LimitedTo(b, limit)
    BY <2>2, <2>3, <2>4 DEF Leading
  <2>6. BestPage(page, query.opts)'
    BY <1>7, <1>8, <1>11, <2>5 DEF BestPage, b
  <2> QED BY <1>1, <1>7, <1>8, <1>14, <1>16, <2>6 DEF LookupInv, LookupTyped, k
<1> QED BY <1>15, <1>16

LEMMA Appended ==
    ASSUME NEW s \in Seq(UnitRows), NEW t \in Seq(UnitRows)
    PROVE  /\ s \o t \in Seq(UnitRows) /\ Len(s \o t) = Len(s) + Len(t)
           /\ \A i \in 1 .. Len(s) : (s \o t)[i] = s[i]
           /\ \A i \in Len(s) + 1 .. Len(s) + Len(t) : (s \o t)[i] = t[i - Len(s)]
  OBVIOUS

LEMMA SecondPageKeeps ==
    ASSUME LookupInv, SecondPage
    PROVE  LookupInv'
<1> DEFINE opts == query.opts
           limit == opts.limit
           ids == {page[i].id : i \in DOMAIN page}
           F == Found(opts, "remainder", ids)
           n == Cardinality(F)
           t == Ranked(F, opts)
           m == Len(page)
           k == Kept(n, limit - m)
           units == UnitQuery(opts, "remainder", limit - m, ids)
<1>1. /\ CorpusOK(rows, commits) /\ opts \in Lookups /\ limit \in Int /\ query.step = "second"
      /\ PageOK(page, limit) /\ Widens(opts) /\ m < limit
      /\ ~disturbed => page = Ranked(FirstOf(opts), opts)
  BY UnitLookupAssumption DEF LookupInv, SecondPage
<1>2. /\ page' = page \o units /\ query'.opts = opts /\ query'.step = "done"
      /\ UNCHANGED <<rows, commits, disturbed>>
  <2>1. query' = [query EXCEPT !.step = "done"]
    BY DEF SecondPage
  <2>2. query'.opts = opts /\ query'.step = "done"
    <3>1. query \in [opts : Lookups, step : {"none", "second", "done"}]
      BY <1>1 DEF LookupInv, LookupTyped
    <3> QED BY <2>1, <3>1
  <2> QED BY <2>2 DEF SecondPage
<1>3. F \in SUBSET rows
  BY DEF Found
<1>4. /\ n \in Nat /\ t \in [1 .. n -> UnitRows]
      /\ \A i \in 1 .. n : t[i] \in F
      /\ \A i, j \in 1 .. n : t[i].id = t[j].id => i = j
  <2> HIDE DEF F, n, opts
  <2> QED BY <1>1, <1>3, RankedIs DEF n
<1>5. page \in Seq(UnitRows) /\ m \in Nat /\ limit - m \in Int /\ limit - m > 0
  BY <1>1 DEF PageOK
<1>6. units = LimitedTo(t, limit - m)
  <2> DEFINE l == limit - m
  <2> HIDE DEF ids, opts, l
  <2>1. UnitQuery(opts, "remainder", l, ids) = LimitedTo(InOrder(F, Bests(F, opts)), l)
    <3> HIDE DEF F
    <3> QED BY <1>1, <1>5, UnitQueryIs DEF F, l
  <2> QED BY <2>1 DEF Ranked, l
<1> DEFINE l == limit - m
<1>7. /\ k \in 0 .. n /\ k <= l /\ units = Leading(t, k) /\ Len(Leading(t, k)) = k
      /\ Leading(t, k) \in Seq(UnitRows)
  <2> HIDE DEF l, t, n, units, F
  <2>1. t = Leading(t, n)
    BY <1>4 DEF Leading
  <2>2. k \in 0 .. n /\ k <= l /\ LimitedTo(t, l) = Leading(t, k) /\ Len(Leading(t, k)) = k
    <3>1. l \in Int /\ l > 0
      BY <1>5 DEF l
    <3> QED BY <1>4, <2>1, <3>1, Limited DEF l
  <2>3. Leading(t, k) \in Seq(UnitRows)
    <3> HIDE DEF k
    <3> QED BY <1>4, <2>2 DEF Leading
  <2> QED BY <1>6, <2>2, <2>3 DEF l
<1> HIDE DEF k, units, t, n, F
<1>8. /\ page' \in Seq(UnitRows) /\ Len(page') = m + k
      /\ \A i \in 1 .. m : page'[i] = page[i]
      /\ \A i \in m + 1 .. m + k : page'[i] = t[i - m] /\ i - m \in 1 .. n
  <2>1. units \in Seq(UnitRows) /\ Len(units) = k /\ \A i \in 1 .. k : units[i] = t[i] /\ i \in 1 .. n
    BY <1>4, <1>7 DEF Leading
  <2>2. \A i \in m + 1 .. m + k : i - m \in 1 .. k
    BY <1>4, <1>5, <1>7
  <2>3. /\ page \o units \in Seq(UnitRows) /\ Len(page \o units) = m + k
        /\ \A i \in 1 .. m : (page \o units)[i] = page[i]
        /\ \A i \in m + 1 .. m + k : (page \o units)[i] = units[i - m]
    <3> HIDE DEF l
    <3> QED BY <1>5, <2>1, Appended
  <2> QED BY <1>2, <2>1, <2>2, <2>3
<1>9. PageOK(page', limit)
  <2>1. \A i \in DOMAIN page' : i \in 1 .. m \/ i \in m + 1 .. m + k
    BY <1>4, <1>5, <1>7, <1>8
  <2>2. \A i \in 1 .. n : \A j \in 1 .. m : t[i].id # page[j].id
    <3>1. \A r \in F : r.id \notin ids
      BY DEF Found, F
    <3>2. \A j \in 1 .. m : page[j].id \in ids
      BY <1>5
    <3> QED BY <1>4, <3>1, <3>2
  <2>3. \A i, j \in 1 .. m : i # j => page[i].id # page[j].id
    BY <1>1, <1>5 DEF PageOK
  <2>4. ASSUME NEW i \in DOMAIN page', NEW j \in DOMAIN page', i # j PROVE page'[i].id # page'[j].id
    <3>1. CASE i \in 1 .. m /\ j \in 1 .. m
      BY <1>8, <2>3, <2>4, <3>1
    <3>2. CASE i \in 1 .. m /\ j \in m + 1 .. m + k
      BY <1>8, <2>2, <3>2
    <3>3. CASE i \in m + 1 .. m + k /\ j \in 1 .. m
      BY <1>8, <2>2, <3>3
    <3>4. CASE i \in m + 1 .. m + k /\ j \in m + 1 .. m + k
      <4>1. i - m # j - m
        BY <1>5, <2>4, <3>4
      <4> QED BY <1>4, <1>8, <3>4, <4>1
    <3> QED BY <2>1, <3>1, <3>2, <3>3, <3>4
  <2> QED BY <1>1, <1>5, <1>7, <1>8, <2>4 DEF PageOK
<1>10. ASSUME ~disturbed PROVE BestPage(page, query.opts)'
  <2> DEFINE E == FirstOf(opts)
             R == All(opts) \ E
             b == BestFirst(opts)
             s == Ranked(E, opts)
  <2>1. E \in SUBSET rows /\ page = s
    BY <1>1, <1>10 DEF FirstOf, Found
  <2>2. /\ Cardinality(E) \in Nat /\ s \in [1 .. Cardinality(E) -> UnitRows]
        /\ \A i \in 1 .. Cardinality(E) : s[i] \in E
        /\ \A r \in E : \E i \in 1 .. Cardinality(E) : s[i] = r
    <3> HIDE DEF E, opts
    <3> QED BY <1>1, <2>1, RankedIs
  <2>3. Cardinality(E) = m
    <3> HIDE DEF E, s, opts
    <3> QED BY <2>1, <2>2
  <2>4. ids = {r.id : r \in E}
    <3>1. DOMAIN page = 1 .. m
      BY <1>5
    <3> HIDE DEF E, s, opts, m
    <3> QED BY <2>1, <2>2, <2>3, <3>1
  <2>5. F = R
    <3> HIDE DEF E, opts, ids
    <3> QED BY <1>1, <2>4, Tiers DEF F, E, FirstOf
  <2>6. b = [i \in 1 .. m + n |-> IF i <= m THEN s[i].at ELSE t[i - m].at]
    <3>1. n = Cardinality(R) /\ t = Ranked(R, opts)
      BY <2>5 DEF n, t
    <3> HIDE DEF E, R, opts, m
    <3> QED BY <1>1, <2>3, <3>1, FirstAndRest DEF E, R
  <2> HIDE DEF s, R, E
  <2>7. Kept(m + n, limit) = m + k /\ m + n \in Nat
    <3>1. limit \in Int /\ m < limit /\ n \in Nat /\ m \in Nat /\ k = Kept(n, limit - m)
      BY <1>1, <1>4, <1>5 DEF k
    <3> HIDE DEF limit, m
    <3> QED BY <3>1 DEF Kept
  <2>8. LimitedTo(b, limit) = Leading(b, m + k)
    <3> DEFINE N == m + n
    <3>1. b = Leading(b, N)
      BY <2>6 DEF Leading
    <3> HIDE DEF N, b, limit
    <3>2. LimitedTo(b, limit) = Leading(b, Kept(N, limit))
      BY <1>1, <2>7, <3>1, Limited DEF N
    <3> QED BY <2>7, <3>2 DEF N
  <2>9. \A i \in 1 .. m + k : page'[i].at = b[i]
    <3> SUFFICES ASSUME NEW i \in 1 .. m + k PROVE page'[i].at = b[i]
      OBVIOUS
    <3>1. i \in 1 .. m + n
      BY <1>4, <1>5, <1>7
    <3>2. CASE i <= m
      <4>1. i \in 1 .. m
        BY <1>5, <3>2
      <4> QED BY <1>8, <2>1, <2>6, <3>1, <3>2, <4>1
    <3>3. CASE ~(i <= m)
      <4>1. i \in m + 1 .. m + k
        BY <1>4, <1>5, <1>7, <3>3
      <4> QED BY <1>8, <2>6, <3>1, <3>3, <4>1
    <3> QED BY <3>2, <3>3
  <2>10. DOMAIN page' = 1 .. m + k
    BY <1>8
  <2>11. b' = b
    BY <1>2 DEF BestFirst, Wanted
  <2> HIDE DEF b
  <2>12. [i \in DOMAIN page' |-> page'[i].at] = LimitedTo(b, limit)
    BY <2>8, <2>9, <2>10 DEF Leading
  <2> QED BY <1>2, <2>11, <2>12 DEF BestPage, b
<1>11. CorpusOK(rows, commits)'
  BY <1>1, <1>2
<1>12. /\ query'.opts = query.opts /\ disturbed' = disturbed
       /\ query' \in [opts : Lookups, step : {"none", "second", "done"}]
  BY <1>1, <1>2 DEF SecondPage, LookupInv, LookupTyped
<1> QED BY <1>1, <1>2, <1>9, <1>10, <1>11, <1>12 DEF LookupInv, LookupTyped

(* A lookup no pass commits under returns the leading rows of one ranking of all  *)
(* that matches, although it runs two statements and the second excludes what the *)
(* first returned; under a pass it still returns no row twice and no more than    *)
(* asked (QueryUnits), for any corpus, terms, limit and ids.                      *)
THEOREM PageIsBest == LookupSpec => []PageIsBestPrefix
<1>1. ASSUME LookupInv, [LookupNext]_lookupVars PROVE LookupInv'
  <2>1. ASSUME NEW u \in DOMAIN UnitPool, CommitUnit(u) PROVE LookupInv'
    BY <1>1, <2>1, CommitKeeps
  <2>2. ASSUME NEW opts \in Lookups, FirstPage(opts) PROVE LookupInv'
    BY <1>1, <2>2, FirstPageKeeps
  <2>3. CASE SecondPage
    BY <1>1, <2>3, SecondPageKeeps
  <2>4. CASE UNCHANGED lookupVars
    <3>1. rows' = rows /\ commits' = commits /\ query' = query /\ page' = page /\ disturbed' = disturbed
      BY <2>4 DEF lookupVars
    <3> QED BY <1>1, <3>1 DEF LookupInv, LookupTyped, CorpusOK, FirstOf, Found, Ranked, BestPage, BestFirst, Wanted
  <2> QED BY <1>1, <2>1, <2>2, <2>3, <2>4 DEF LookupNext
<1> QED BY <1>1, LookupStarts, LookupEnough, PTL DEF LookupSpec

-----------------------------------------------------------------------------
(* Call refiner *)

(* A finite set put in a sequence. *)
LEMMA InSomeOrder ==
    ASSUME NEW S, IsFiniteSet(S)
    PROVE  Cardinality(S) \in Nat /\ SetToSeq(S) \in [1 .. Cardinality(S) -> S]
<1>1. Cardinality(S) \in Nat /\ ExistsBijection(1 .. Cardinality(S), S)
  BY FS_CardinalityType
<1>2. \E g \in [1 .. Cardinality(S) -> S] : IsInjective(g)
  BY <1>1 DEF ExistsBijection, Bijection, Injection
<1> QED BY <1>1, <1>2 DEF SetToSeq

(* The leading elements of a set in order. *)
LEMMA Foremost ==
    ASSUME NEW S, IsFiniteSet(S), NEW less, Orders(less, S), NEW s, s = InOrder(S, less)
    PROVE  /\ s \in Seq(S) /\ Len(s) = Cardinality(S) /\ Cardinality(S) \in Nat
           /\ \A k \in 0 .. Len(s) : SubSeq(s, 1, k) \in Seq(S)
           /\ \A i, j \in DOMAIN s : s[i] = s[j] => i = j
           /\ \A x \in S : \E i \in DOMAIN s : s[i] = x
<1> DEFINE n == Cardinality(S)
<1>1. n \in Nat
  BY FS_CardinalityType
<1>2. Sorts(s, n, S, less)
  BY InOrderSorts
<1>3. s \in [1 .. n -> S]
  BY <1>2 DEF Sorts
<1>4. /\ \A i, j \in 1 .. n : s[i] = s[j] => i = j
      /\ \A x \in S : \E i \in 1 .. n : s[i] = x
  <2> HIDE DEF n
  <2> QED BY <1>2, SortedCovers DEF n
<1> HIDE DEF n
<1>5. s \in Seq(S) /\ Len(s) = n /\ DOMAIN s = 1 .. n
  BY <1>1, <1>3
<1> QED BY <1>1, <1>4, <1>5 DEF n

LEMMA NearIsTold ==
    ASSUME NEW name, NEW line, NEW i \in matchCallEdge(name, line)
    PROVE  i \in DOMAIN callEdges /\ Delta(callEdges[i].line, line) <= LineTolerance
  BY DEF matchCallEdge

(* A reference on the line of a call is a reference to that call. *)
LEMMA SameLine ==
    ASSUME callEdges \in Seq(ParsedEdges), NEW i \in DOMAIN callEdges, NEW name, callEdges[i].name = name
    PROVE  i \in matchCallEdge(name, callEdges[i].line)
<1> DEFINE line == callEdges[i].line
<1>1. \A j \in DOMAIN callEdges : callEdges[j].line \in Nat
  <2>1. \A j \in DOMAIN callEdges : callEdges[j] \in ParsedEdges
    OBVIOUS
  <2>2. \A e \in ParsedEdges : e.line \in Lines
    BY DEF ParsedEdges
  <2> QED BY <2>1, <2>2, RefinerAssumption
<1>2. Delta(line, line) = 0
  BY <1>1 DEF Delta
<1>3. \A j \in DOMAIN callEdges :
         /\ Delta(callEdges[j].line, line) \in Nat
         /\ Delta(callEdges[j].line, line) = 0 => callEdges[j].line = line
  BY <1>1 DEF Delta
<1>4. 0 <= LineTolerance
  BY RefinerAssumption
<1> QED BY <1>1, <1>2, <1>3, <1>4 DEF matchCallEdge

LEMMA MissingIsFinite ==
    ASSUME NEW d, NEW lines, IsFiniteSet(lines)
    PROVE  IsFiniteSet(Missing(d, lines))
<1> DEFINE Y == {y \in lines \X Defs : matchCallEdge(NameOf[d], y[1]) = {} /\ Encloses(y[2], y[1]) /\ y[2] # d}
           Call(x) == [line |-> x[1], name |-> NameOf[d], src |-> x[2], dst |-> d]
           f == [x \in Y |-> Call(x)]
<1>1. IsFiniteSet(Y)
  <2>1. IsFiniteSet(Defs)
    <3>1. \A n \in Nat : IsFiniteSet(1 .. n)
      BY FS_Interval
    <3> QED BY <3>1 DEF Defs
  <2>2. IsFiniteSet(lines \X Defs)
    BY <2>1, FS_Product
  <2>3. Y \in SUBSET (lines \X Defs)
    OBVIOUS
  <2> HIDE DEF Y
  <2> QED BY <2>2, <2>3, FS_Subset
<1>2. Missing(d, lines) = {Call(x) : x \in Y}
  BY DEF Missing
<1> HIDE DEF Y
<1>3. f \in Surjection(Y, {Call(x) : x \in Y})
  BY DEF Surjection
<1> HIDE DEF Call, f
<1> QED BY <1>1, <1>2, <1>3, FS_Surjection

(* While definitions are asked about, the edges stand as they were; every claim *)
(* is by a definition a reference of which is nearest to the edge, and every    *)
(* edge nearest to a reference of a completed definition is claimed.            *)
RefinerInv ==
    /\ was \in Seq(ParsedEdges) /\ answers \in [{1, 2} -> SUBSET Lines]
    /\ rpc = "ask" =>
        /\ callEdges = was /\ todo \in Seq({1, 2}) /\ IsFiniteSet(plan.add)
        /\ \A i \in DOMAIN plan.claim :
              /\ plan.claim[i] \in {1, 2}
              /\ \E l \in answers[plan.claim[i]] : i \in matchCallEdge(NameOf[plan.claim[i]], l)
        /\ \A d \in {1, 2} \cap plan.complete : \A l \in answers[d] :
              matchCallEdge(NameOf[d], l) \subseteq DOMAIN plan.claim
    /\ rpc # "ask" => EvidenceWins

LEMMA RefinerStarts == RefinerInit => RefinerInv
<1> SUFFICES ASSUME RefinerInit PROVE RefinerInv
  OBVIOUS
<1> DEFINE wanted == {d \in Defs : d \in boundary \/ Ambiguous(d)}
           Before(a, b) == IF (a \in boundary) # (b \in boundary) THEN a \in boundary ELSE a < b
           less == {p \in wanted \X wanted : Before(p[1], p[2])}
           s == InOrder(wanted, less)
<1>1. callEdges \in Seq(ParsedEdges)
  <2>1. CASE callEdges = <<>>
    BY <2>1
  <2>2. CASE \E e \in ParsedEdges : callEdges = <<e>>
    BY <2>2
  <2>3. CASE \E e, f \in ParsedEdges : callEdges = <<e, f>>
    BY <2>3
  <2> QED BY <2>1, <2>2, <2>3 DEF RefinerInit
<1>2. wanted \subseteq {1, 2}
  <2>1. boundary \subseteq {2}
    BY DEF RefinerInit
  <2>2. ~Ambiguous(3)
    BY DEF Ambiguous, Defs, NameOf
  <2>3. Defs = {1, 2, 3}
    BY DEF Defs
  <2> QED BY <2>1, <2>2, <2>3
<1>3. IsFiniteSet(wanted)
  <2>1. wanted \in SUBSET (1 .. 2)
    BY <1>2
  <2>2. \A n \in Nat : IsFiniteSet(1 .. n)
    BY FS_Interval
  <2> HIDE DEF wanted
  <2> QED BY <2>1, <2>2, FS_Subset
<1>4. Orders(less, wanted)
  <2>1. \A a, b \in wanted : <<a, b>> \in less <=> Before(a, b)
    OBVIOUS
  <2>2. \A a \in wanted : a \in Int
    BY <1>2
  <2> HIDE DEF wanted, less
  <2> QED BY <2>1, <2>2 DEF Orders
<1>5. todo = SubSeq(s, 1, IF Len(s) > MaxSymbols THEN MaxSymbols ELSE Len(s))
  BY DEF RefinerInit, selectCandidates
<1> HIDE DEF less, wanted, s
<1>6. todo \in Seq({1, 2})
  <2>1. Len(s) \in Nat /\ \A k \in 0 .. Len(s) : SubSeq(s, 1, k) \in Seq(wanted)
    BY <1>3, <1>4, Foremost DEF s
  <2>2. (IF Len(s) > MaxSymbols THEN MaxSymbols ELSE Len(s)) \in 0 .. Len(s)
    BY <2>1, RefinerAssumption
  <2>3. todo \in Seq(wanted)
    BY <1>5, <2>1, <2>2
  <2> DEFINE n == Len(todo)
  <2>4. n \in Nat /\ todo \in [1 .. n -> wanted]
    BY <2>3
  <2>5. todo \in [1 .. n -> {1, 2}]
    BY <1>2, <2>4
  <2> HIDE DEF n
  <2> QED BY <2>4, <2>5
<1>7. answers \in [{1, 2} -> SUBSET Lines]
  <2>1. {ls \in SUBSET Lines : Cardinality(ls) <= MaxRefs + 1} \subseteq SUBSET Lines
    OBVIOUS
  <2> QED BY <2>1 DEF RefinerInit
<1> QED BY <1>1, <1>6, <1>7, FS_EmptySet DEF RefinerInit, RefinerInv, EmptyPlan

LEMMA AskKeeps == RefinerInv /\ askDefinition => RefinerInv'
<1> SUFFICES ASSUME RefinerInv, askDefinition PROVE RefinerInv'
  OBVIOUS
<1> DEFINE d == Head(todo)
           lines == answers[d]
<1>1. d \in {1, 2} /\ Tail(todo) \in Seq({1, 2}) /\ lines \in SUBSET Lines
  BY DEF RefinerInv, askDefinition
<1>2. IsFiniteSet(lines)
  BY <1>1, RefinerAssumption, FS_Subset
<1>3. /\ rpc = "ask" /\ todo' = Tail(todo)
      /\ UNCHANGED <<boundary, callEdges, answers, rpc, was>>
  BY DEF askDefinition
<1>4. \A name, l : matchCallEdge(name, l)' = matchCallEdge(name, l)
  BY <1>3 DEF matchCallEdge
<1>5. CASE UNCHANGED plan
  BY <1>1, <1>3, <1>4, <1>5 DEF RefinerInv
<1>6. CASE /\ plan'.claim = [i \in DOMAIN plan.claim \cup Claims(d, lines) |->
                                IF i \in DOMAIN plan.claim THEN plan.claim[i] ELSE d]
           /\ plan'.add = plan.add \cup Missing(d, lines)
           /\ plan'.complete = plan.complete \cup {d}
  <2>1. IsFiniteSet(plan'.add)
    <3>1. IsFiniteSet(Missing(d, lines)) /\ IsFiniteSet(plan.add)
      BY <1>2, <1>3, MissingIsFinite DEF RefinerInv
    <3> DEFINE M == Missing(d, lines)
               A == plan.add
    <3> HIDE DEF M, A
    <3>2. IsFiniteSet(A \cup M)
      BY <3>1, FS_Union DEF A, M
    <3> QED BY <1>6, <3>2 DEF A, M
  <2>2. ASSUME NEW i \in DOMAIN plan'.claim
        PROVE  /\ plan'.claim[i] \in {1, 2}
               /\ \E l \in answers[plan'.claim[i]] : i \in matchCallEdge(NameOf[plan'.claim[i]], l)
    <3>1. CASE i \in DOMAIN plan.claim
      <4>1. plan'.claim[i] = plan.claim[i]
        BY <1>6, <3>1
      <4> QED BY <1>3, <3>1, <4>1 DEF RefinerInv
    <3>2. CASE i \notin DOMAIN plan.claim
      <4>1. plan'.claim[i] = d /\ i \in Claims(d, lines)
        BY <1>6, <2>2, <3>2
      <4>2. \E l \in lines : i \in matchCallEdge(NameOf[d], l)
        BY <4>1 DEF Claims
      <4> HIDE DEF d
      <4> QED BY <1>1, <4>1, <4>2
    <3> QED BY <3>1, <3>2
  <2>3. ASSUME NEW e \in {1, 2} \cap plan'.complete, NEW l \in answers[e]
        PROVE  matchCallEdge(NameOf[e], l) \subseteq DOMAIN plan'.claim
    <3>1. DOMAIN plan'.claim = DOMAIN plan.claim \cup Claims(d, lines)
      BY <1>6
    <3>2. CASE e \in plan.complete
      BY <1>3, <2>3, <3>1, <3>2 DEF RefinerInv
    <3>3. CASE e = d
      <4>1. \A i \in matchCallEdge(NameOf[d], l) : i \in DOMAIN plan.claim \cup Claims(d, lines)
        BY <2>3, <3>3 DEF Claims
      <4> HIDE DEF d, lines
      <4> QED BY <3>1, <3>3, <4>1
    <3> HIDE DEF d
    <3> QED BY <1>6, <2>3, <3>2, <3>3
  <2> HIDE DEF d, lines
  <2> QED BY <1>1, <1>3, <1>4, <2>1, <2>2, <2>3 DEF RefinerInv
<1> QED BY <1>5, <1>6 DEF askDefinition

LEMMA ApplyKeeps == RefinerInv /\ applyPlan => RefinerInv'
<1> SUFFICES ASSUME RefinerInv, applyPlan PROVE RefinerInv'
  OBVIOUS
<1>1. /\ rpc = "ask" /\ rpc' = "done" /\ callEdges = was /\ was' = was /\ answers' = answers /\ plan' = plan
      /\ was \in Seq(ParsedEdges) /\ IsFiniteSet(plan.add)
  BY DEF RefinerInv, applyPlan
<1>2. ASSUME NEW i \in DOMAIN was
      PROVE  callEdges'[i] = was[i] \/ callEdges'[i] = ResolvedCall(i)
  <2>1. PICK resolutionsOk \in BOOLEAN, addsOk \in BOOLEAN :
          LET rewritten == [j \in DOMAIN callEdges |-> IF resolutionsOk THEN ResolvedCall(j) ELSE callEdges[j]]
              added == SetToSeq(plan.add)
          IN callEdges' = IF addsOk
                          THEN rewritten \o [k \in DOMAIN added |->
                                  [line |-> added[k].line, name |-> added[k].name,
                                   dst |-> added[k].dst, source |-> "lsp"]]
                          ELSE rewritten
    BY DEF applyPlan
  <2> DEFINE r == [j \in DOMAIN callEdges |-> IF resolutionsOk THEN ResolvedCall(j) ELSE callEdges[j]]
             added == SetToSeq(plan.add)
             New(k) == [line |-> added[k].line, name |-> added[k].name, dst |-> added[k].dst, source |-> "lsp"]
             a == [k \in DOMAIN added |-> New(k)]
             R == {r[j] : j \in DOMAIN was}
             A == {a[k] : k \in DOMAIN added}
  <2>2. callEdges' = r \o a \/ callEdges' = r
    BY <2>1
  <2>3. r[i] = was[i] \/ r[i] = ResolvedCall(i)
    BY <1>1
  <2>4. DOMAIN r = 1 .. Len(was) /\ Len(was) \in Nat
    BY <1>1
  <2>5. \E n \in Nat : DOMAIN a = 1 .. n
    BY <1>1, InSomeOrder
  <2> HIDE DEF r, a
  <2>6. r \in Seq(R \cup A) /\ Len(r) = Len(was) /\ a \in Seq(R \cup A)
    <3>1. r = [j \in 1 .. Len(was) |-> r[j]]
      BY <1>1, <2>4 DEF r
    <3>2. a = [k \in DOMAIN added |-> a[k]] /\ DOMAIN a = DOMAIN added
      BY DEF a
    <3> HIDE DEF added
    <3>3. r \in [1 .. Len(was) -> R \cup A]
      BY <1>1, <3>1
    <3>4. a \in [DOMAIN a -> R \cup A]
      BY <3>2
    <3> HIDE DEF R, A
    <3>5. PICK n \in Nat : DOMAIN a = 1 .. n
      BY <2>5
    <3> QED BY <2>4, <3>3, <3>4, <3>5
  <2>7. (r \o a)[i] = r[i]
    <3>1. i \in 1 .. Len(r)
      BY <1>1, <2>6
    <3> HIDE DEF R, A
    <3> QED BY <2>6, <3>1
  <2> QED BY <2>2, <2>3, <2>7
<1>3. ASSUME NEW i \in DOMAIN was, callEdges'[i].dst # was[i].dst
      PROVE  \/ i \in DOMAIN plan.claim /\ callEdges'[i].dst = plan.claim[i]
             \/ callEdges'[i].dst = NoCallee /\ i \notin DOMAIN plan.claim
  <2>1. callEdges'[i] = ResolvedCall(i) /\ was[i] \in ParsedEdges /\ callEdges[i] = was[i]
    BY <1>1, <1>2, <1>3
  <2>2. /\ [was[i] EXCEPT !.dst = NoCallee, !.source = "lsp"].dst = NoCallee
        /\ [was[i] EXCEPT !.dst = plan.claim[i], !.source = "lsp"].dst = plan.claim[i]
    BY <2>1 DEF ParsedEdges
  <2> QED BY <1>3, <2>1, <2>2 DEF ResolvedCall, Contradicted
<1>4. ASSUME NEW i \in DOMAIN was, callEdges'[i].dst # was[i].dst, callEdges'[i].dst = NoCallee,
             NEW d \in {1, 2} \cap plan.complete, NEW l \in answers[d], l = was[i].line
      PROVE  FALSE
  <2>1. i \notin DOMAIN plan.claim
    <3>1. i \in DOMAIN plan.claim => plan.claim[i] \in {1, 2}
      BY <1>1 DEF RefinerInv
    <3> QED BY <1>3, <1>4, <3>1 DEF NoCallee
  <2>2. callEdges[i].name = NameOf[d]
    <3>1. was[i] \in ParsedEdges
      BY <1>1
    <3>2. was[i].name = "save"
      BY <3>1 DEF ParsedEdges
    <3>3. d = 1 \/ d = 2
      OBVIOUS
    <3> QED BY <1>1, <3>2, <3>3 DEF NameOf
  <2>3. i \in matchCallEdge(NameOf[d], l)
    BY <1>1, <1>4, <2>2, SameLine
  <2> QED BY <1>1, <2>1, <2>3 DEF RefinerInv
<1>5. ASSUME NEW i \in DOMAIN was, callEdges'[i].dst # was[i].dst, callEdges'[i].dst # NoCallee
      PROVE  \E l \in answers[callEdges'[i].dst] : Delta(l, was[i].line) <= LineTolerance
  <2>1. i \in DOMAIN plan.claim /\ callEdges'[i].dst = plan.claim[i] /\ plan.claim[i] \in {1, 2}
    BY <1>1, <1>3, <1>5 DEF RefinerInv
  <2>2. PICK l \in answers[plan.claim[i]] : i \in matchCallEdge(NameOf[plan.claim[i]], l)
    BY <1>1, <2>1 DEF RefinerInv
  <2>3. Delta(was[i].line, l) <= LineTolerance
    BY <1>1, <2>2, NearIsTold
  <2>4. was[i].line \in Nat /\ l \in Nat
    <3>1. was[i] \in ParsedEdges /\ answers[plan.claim[i]] \subseteq Lines
      BY <1>1, <2>1 DEF RefinerInv
    <3>2. was[i].line \in Lines /\ l \in Lines
      BY <2>2, <3>1 DEF ParsedEdges
    <3> QED BY <3>2, RefinerAssumption
  <2>5. Delta(l, was[i].line) = Delta(was[i].line, l)
    BY <2>4 DEF Delta
  <2> QED BY <2>1, <2>2, <2>3, <2>5
<1>6. EvidenceWins'
  BY <1>1, <1>4, <1>5 DEF EvidenceWins
<1> QED BY <1>1, <1>6 DEF RefinerInv

LEMMA RefinerKeeps == RefinerInv /\ [RefinerNext]_refinerVars => RefinerInv'
<1> SUFFICES ASSUME RefinerInv, UNCHANGED refinerVars PROVE RefinerInv'
  BY AskKeeps, ApplyKeeps DEF RefinerNext
<1>1. /\ boundary' = boundary /\ callEdges' = callEdges /\ answers' = answers /\ plan' = plan
      /\ todo' = todo /\ rpc' = rpc /\ was' = was
  BY DEF refinerVars
<1>2. \A name, l : matchCallEdge(name, l)' = matchCallEdge(name, l)
  BY <1>1 DEF matchCallEdge
<1> QED BY <1>1, <1>2 DEF RefinerInv, EvidenceWins

LEMMA RefinerEnough == RefinerInv => EvidenceWins
  BY DEF RefinerInv, EvidenceWins

-----------------------------------------------------------------------------
(* Symbols *)

(* A recursion over numbers that stays in a set has a solution.                        *)
Iterates(g, first, n, step) == g[0] = first /\ \A i \in 1 .. n : g[i] = step[<<i, g[i - 1]>>]

LEMMA Recursion ==
    ASSUME NEW S, NEW first \in S, NEW n \in Nat, NEW step \in [(1 .. n) \X S -> S]
    PROVE  \E g \in [0 .. n -> S] : Iterates(g, first, n, step)
<1> DEFINE Good(g, k) == g[0] = first /\ \A i \in 1 .. k : g[i] = step[<<i, g[i - 1]>>]
           T == {k \in Nat : k <= n => \E g \in [0 .. k -> S] : Good(g, k)}
<1>1. 0 \in T
  <2> DEFINE g == [i \in 0 .. 0 |-> first]
  <2>1. g \in [0 .. 0 -> S] /\ Good(g, 0)
    OBVIOUS
  <2> QED BY <2>1
<1>2. ASSUME NEW k \in Nat, k \in T PROVE k + 1 \in T
  <2> SUFFICES ASSUME k + 1 <= n PROVE \E g \in [0 .. k + 1 -> S] : Good(g, k + 1)
    OBVIOUS
  <2>1. PICK g \in [0 .. k -> S] : Good(g, k)
    BY <1>2
  <2>2. k \in 0 .. k /\ k + 1 \in 1 .. n /\ step[<<k + 1, g[k]>>] \in S
    <3>1. k \in 0 .. k /\ k + 1 \in 1 .. n
      OBVIOUS
    <3>2. g[k] \in S
      BY <3>1
    <3>3. <<k + 1, g[k]>> \in (1 .. n) \X S
      BY <3>1, <3>2
    <3> QED BY <3>1, <3>3
  <2> DEFINE h == [i \in 0 .. k + 1 |-> IF i = k + 1 THEN step[<<k + 1, g[k]>>] ELSE g[i]]
  <2>3. \A i \in 0 .. k + 1 : i = k + 1 \/ i \in 0 .. k
    OBVIOUS
  <2>4. h \in [0 .. k + 1 -> S] /\ h[k + 1] = step[<<k + 1, g[k]>>] /\ \A i \in 0 .. k : h[i] = g[i]
    <3>1. \A i \in 0 .. k : i # k + 1 /\ i \in 0 .. k + 1 /\ g[i] \in S
      BY <2>1
    <3> QED BY <2>2, <2>3, <3>1
  <2> HIDE DEF h
  <2>5. h[0] = first
    BY <2>1, <2>4
  <2>6. ASSUME NEW i \in 1 .. k + 1 PROVE h[i] = step[<<i, h[i - 1]>>]
    <3>1. CASE i = k + 1
      <4>1. i - 1 = k
        BY <3>1
      <4> QED BY <2>2, <2>4, <3>1, <4>1
    <3>2. CASE i # k + 1
      <4>1. i \in 1 .. k /\ i \in 0 .. k /\ i - 1 \in 0 .. k
        BY <3>2
      <4> QED BY <2>1, <2>4, <4>1
    <3> QED BY <3>1, <3>2
  <2> QED BY <2>4, <2>5, <2>6
<1>3. n \in T
  <2> HIDE DEF T
  <2> QED BY <1>1, <1>2, InductionSet
<1> QED BY <1>3 DEF Iterates

LEMMA JoinedSets ==
    ASSUME NEW X, NEW s \in Seq(X), NEW t \in Seq(X)
    PROVE  s \o t \in Seq(X) /\ ToSet(s \o t) = ToSet(s) \cup ToSet(t)
<1> DEFINE m == Len(s)
           n == Len(t)
           u == s \o t
<1>1. /\ m \in Nat /\ n \in Nat /\ DOMAIN s = 1 .. m /\ DOMAIN t = 1 .. n
      /\ u \in Seq(X) /\ DOMAIN u = 1 .. m + n
      /\ \A i \in 1 .. m + n : u[i] = IF i <= m THEN s[i] ELSE t[i - m]
  OBVIOUS
<1> HIDE DEF m, n, u
<1>2. ASSUME NEW x \in ToSet(u) PROVE x \in ToSet(s) \cup ToSet(t)
  <2>1. PICK i \in 1 .. m + n : x = u[i]
    BY <1>1 DEF ToSet
  <2>2. CASE i <= m
    <3>1. i \in 1 .. m /\ u[i] = s[i]
      BY <1>1, <2>2
    <3> QED BY <1>1, <2>1, <3>1 DEF ToSet
  <2>3. CASE ~(i <= m)
    <3>1. i - m \in 1 .. n /\ u[i] = t[i - m]
      BY <1>1, <2>3
    <3> QED BY <1>1, <2>1, <3>1 DEF ToSet
  <2> QED BY <2>2, <2>3
<1>3. ASSUME NEW x \in ToSet(s) PROVE x \in ToSet(u)
  <2>1. PICK i \in 1 .. m : x = s[i]
    BY <1>1 DEF ToSet
  <2>2. i \in 1 .. m + n /\ i <= m
    BY <1>1
  <2> QED BY <1>1, <2>1, <2>2 DEF ToSet
<1>4. ASSUME NEW x \in ToSet(t) PROVE x \in ToSet(u)
  <2>1. PICK i \in 1 .. n : x = t[i]
    BY <1>1 DEF ToSet
  <2>2. i + m \in 1 .. m + n /\ ~(i + m <= m) /\ (i + m) - m = i
    BY <1>1
  <2>3. u[i + m] = t[i]
    BY <1>1, <2>2
  <2> QED BY <1>1, <2>1, <2>2, <2>3 DEF ToSet
<1>5. ToSet(u) = ToSet(s) \cup ToSet(t)
  BY <1>2, <1>3, <1>4
<1> QED BY <1>1, <1>5 DEF u

(* Concatenating a sequence of sequences. *)
LEMMA Flattened ==
    ASSUME NEW n \in Nat, NEW ss, DOMAIN ss = 1 .. n, ss = [i \in 1 .. n |-> ss[i]],
           \A i \in 1 .. n : IsSeq(ss[i])
    PROVE  /\ IsSeq(FlattenSeq(ss))
           /\ ToSet(FlattenSeq(ss)) = UNION {ToSet(ss[i]) : i \in 1 .. n}
<1> DEFINE X == UNION {ToSet(ss[i]) : i \in 1 .. n}
           S == Seq(X)
           Def(g, i) == IF i = 1 THEN ss[i] ELSE g[i - 1] \o ss[i]
           Good(g) == g = [i \in 1 .. n |-> Def(g, i)]
           step == [p \in (1 .. n) \X S |-> p[2] \o ss[p[1]]]
<1>1. \A i \in 1 .. n : ss[i] \in S
  <2> SUFFICES ASSUME NEW i \in 1 .. n PROVE ss[i] \in S
    OBVIOUS
  <2>1. ToSet(ss[i]) \subseteq X
    OBVIOUS
  <2> HIDE DEF X
  <2> QED BY <2>1 DEF IsSeq
<1>2. ss \in Seq({ss[i] : i \in 1 .. n}) /\ Len(ss) = n
  OBVIOUS
<1>3. CASE n = 0
  <2>1. FlattenSeq(ss) = ss
    BY <1>2, <1>3 DEF FlattenSeq
  <2>2. ss = <<>>
    BY <1>2, <1>3
  <2>3. ToSet(ss) = {} /\ X = {}
    BY <1>3, <2>2 DEF ToSet
  <2> QED BY <2>1, <2>2, <2>3 DEF IsSeq
<1>4. CASE n # 0
  <2>1. \A p \in (1 .. n) \X S : p[2] \o ss[p[1]] \in S
    <3> SUFFICES ASSUME NEW p \in (1 .. n) \X S PROVE p[2] \o ss[p[1]] \in S
      OBVIOUS
    <3>1. p[2] \in Seq(X) /\ ss[p[1]] \in Seq(X)
      BY <1>1
    <3> HIDE DEF X
    <3> QED BY <3>1
  <2>2. step \in [(1 .. n) \X S -> S]
    <3> HIDE DEF S
    <3> QED BY <2>1
  <2>3. <<>> \in S
    OBVIOUS
  <2> HIDE DEF S, step
  <2>4. PICK h \in [0 .. n -> S] : Iterates(h, <<>>, n, step)
    BY <2>2, <2>3, Recursion
  <2> DEFINE g == [i \in 1 .. n |-> h[i]]
  <2>5. ASSUME NEW i \in 1 .. n PROVE g[i] = h[i - 1] \o ss[i] /\ h[i - 1] \in S
    <3>1. i - 1 \in 0 .. n
      OBVIOUS
    <3>2. h[i - 1] \in S /\ h[i] = step[<<i, h[i - 1]>>]
      BY <2>4, <3>1 DEF Iterates
    <3>3. <<i, h[i - 1]>> \in (1 .. n) \X S
      BY <3>2
    <3> QED BY <3>2, <3>3 DEF step
  <2>6. ASSUME NEW i \in 1 .. n PROVE g[i] = Def(g, i)
    <3>1. CASE i = 1
      <4>1. h[0] = <<>> /\ i - 1 = 0
        BY <2>4, <3>1 DEF Iterates
      <4>2. <<>> \o ss[i] = ss[i]
        BY <1>1 DEF S
      <4> QED BY <2>5, <3>1, <4>1, <4>2
    <3>2. CASE i # 1
      <4>1. i - 1 \in 1 .. n
        BY <3>2
      <4> QED BY <2>5, <3>2, <4>1
    <3> QED BY <3>1, <3>2
  <2>7. g = [i \in 1 .. n |-> g[i]]
    OBVIOUS
  <2> HIDE DEF g, Def
  <2>8. Good(g)
    BY <2>6, <2>7
  <2> DEFINE flat == CHOOSE f : Good(f)
  <2>9. FlattenSeq(ss) = flat[n]
    BY <1>2, <1>4 DEF FlattenSeq, Def
  <2>10. Good(flat)
    <3> HIDE DEF Good
    <3> QED BY <2>8
  <2> HIDE DEF flat
  <2>11. \A i \in 1 .. n : flat[i] = Def(flat, i)
    BY <2>10
  <2> DEFINE Is(i) == flat[i] \in Seq(X) /\ ToSet(flat[i]) = UNION {ToSet(ss[j]) : j \in 1 .. i}
             T == {i \in Nat : i = 0 \/ i > n \/ Is(i)}
  <2>12. 0 \in T
    OBVIOUS
  <2>13. ASSUME NEW i \in Nat, i \in T PROVE i + 1 \in T
    <3> SUFFICES ASSUME i + 1 <= n PROVE Is(i + 1)
      OBVIOUS
    <3>1. i + 1 \in 1 .. n /\ ss[i + 1] \in Seq(X)
      BY <1>1 DEF S
    <3>2. flat[i + 1] = IF i = 0 THEN ss[i + 1] ELSE flat[i] \o ss[i + 1]
      BY <2>11, <3>1 DEF Def
    <3>3. CASE i = 0
      <4>1. 1 .. i + 1 = {i + 1}
        BY <3>3
      <4>2. UNION {ToSet(ss[j]) : j \in 1 .. i + 1} = ToSet(ss[i + 1])
        BY <4>1
      <4> HIDE DEF X
      <4> QED BY <3>1, <3>2, <3>3, <4>2
    <3>4. CASE i # 0
      <4>1. flat[i] \in Seq(X) /\ ToSet(flat[i]) = UNION {ToSet(ss[j]) : j \in 1 .. i}
        BY <2>13, <3>1, <3>4
      <4> HIDE DEF X
      <4>2. flat[i + 1] \in Seq(X) /\ ToSet(flat[i + 1]) = ToSet(flat[i]) \cup ToSet(ss[i + 1])
        BY <3>1, <3>2, <3>4, <4>1, JoinedSets
      <4>3. 1 .. i + 1 = (1 .. i) \cup {i + 1}
        OBVIOUS
      <4>4. UNION {ToSet(ss[j]) : j \in 1 .. i + 1} = (UNION {ToSet(ss[j]) : j \in 1 .. i}) \cup ToSet(ss[i + 1])
        BY <4>3
      <4> QED BY <4>1, <4>2, <4>4
    <3> QED BY <3>3, <3>4
  <2> HIDE DEF Is
  <2>14. Is(n)
    <3>1. Nat \subseteq T
      <4> HIDE DEF T
      <4> QED BY <2>12, <2>13, InductionSet
    <3> QED BY <1>4, <3>1
  <2>15. flat[n] \in Seq(X) /\ ToSet(flat[n]) = X
    BY <2>14 DEF Is
  <2> HIDE DEF X
  <2> QED BY <2>9, <2>15 DEF IsSeq, X
<1> QED BY <1>3, <1>4

Distinct(units) == \A i, j \in DOMAIN units : units[i].name = units[j].name => i = j

LEMMA AddedUnit ==
    ASSUME NEW X, NEW a \in Seq(X), NEW x \in X, NEW b, b = Append(a, x)
    PROVE  /\ b \in Seq(X) /\ \A y : y \in NamesOf(b) <=> y \in NamesOf(a) \/ y = x.name
           /\ Distinct(a) /\ x.name \notin NamesOf(a) => Distinct(b)
<1> DEFINE n == Len(a)
<1>1. /\ n \in Nat /\ DOMAIN a = 1 .. n /\ b \in Seq(X) /\ DOMAIN b = 1 .. n + 1
      /\ \A i \in 1 .. n : b[i] = a[i] /\ i \in 1 .. n + 1
      /\ b[n + 1] = x /\ n + 1 \in 1 .. n + 1
  BY AppendProperties
<1> HIDE DEF n
<1>2. \A i \in 1 .. n + 1 : i \in 1 .. n \/ i = n + 1
  BY <1>1
<1>3. ToSet(b) = ToSet(a) \cup {x}
  BY <1>1, <1>2 DEF ToSet
<1>4. NamesOf(b) = NamesOf(a) \cup {x.name}
  BY <1>3 DEF NamesOf
<1>5. ASSUME Distinct(a), x.name \notin NamesOf(a), NEW i \in DOMAIN b, NEW j \in DOMAIN b, b[i].name = b[j].name
      PROVE  i = j
  <2>1. \A k \in 1 .. n : a[k].name # x.name
    BY <1>1, <1>5 DEF NamesOf, ToSet
  <2> QED BY <1>1, <1>2, <1>5, <2>1 DEF Distinct
<1> QED BY <1>1, <1>4, <1>5 DEF Distinct

(* The units to add: one for each name of a function or method that no unit has. *)
LEMMA MissedIs ==
    ASSUME NEW symbols, IsSeq(symbols), NEW units, NEW m, m = missed(symbols, units)
    PROVE  /\ m \in Seq({UnitFor(x) : x \in ToSet(symbols)}) /\ Distinct(m)
           /\ NamesOf(m) = {x.name : x \in {y \in ToSet(symbols) : IsFunction(y)}} \ NamesOf(units)
<1> DEFINE N == Len(symbols)
           X == {UnitFor(x) : x \in ToSet(symbols)}
           S == Seq(X)
           Taken(i, a) == IsFunction(symbols[i]) /\ symbols[i].name \notin NamesOf(units) \cup NamesOf(a)
           Step(i, a) == IF Taken(i, a) THEN Append(a, UnitFor(symbols[i])) ELSE a
           Def(g, i) == IF i = 0 THEN <<>> ELSE Step(i, g[i - 1])
           Good(g) == g = [i \in 0 .. N |-> Def(g, i)]
           step == [p \in (1 .. N) \X S |-> Step(p[1], p[2])]
<1>1. N \in Nat /\ DOMAIN symbols = 1 .. N /\ \A i \in 1 .. N : UnitFor(symbols[i]) \in X
  BY DEF IsSeq, ToSet
<1>2. \A i \in 1 .. N : \A a \in S : Step(i, a) \in S
  <2> SUFFICES ASSUME NEW i \in 1 .. N, NEW a \in S PROVE Step(i, a) \in S
    OBVIOUS
  <2>1. a \in Seq(X) /\ UnitFor(symbols[i]) \in X
    BY <1>1
  <2> HIDE DEF X, Taken
  <2> QED BY <2>1, AppendProperties
<1> HIDE DEF Step
<1>3. step \in [(1 .. N) \X S -> S]
  <2>1. \A p \in (1 .. N) \X S : p[1] \in 1 .. N /\ p[2] \in S
    OBVIOUS
  <2> HIDE DEF S
  <2> QED BY <1>2, <2>1
<1>4. <<>> \in S
  OBVIOUS
<1> HIDE DEF S, step, N, X
<1>5. PICK h \in [0 .. N -> S] : Iterates(h, <<>>, N, step)
  BY <1>1, <1>3, <1>4, Recursion
<1>6. ASSUME NEW i \in 1 .. N PROVE h[i] = Step(i, h[i - 1]) /\ i # 0
  <2>1. i - 1 \in 0 .. N /\ i # 0
    BY <1>1
  <2>2. h[i - 1] \in S /\ h[i] = step[<<i, h[i - 1]>>]
    BY <1>5, <2>1 DEF Iterates
  <2>3. <<i, h[i - 1]>> \in (1 .. N) \X S
    BY <2>2
  <2> QED BY <2>1, <2>2, <2>3 DEF step
<1>7. ASSUME NEW i \in 0 .. N PROVE h[i] = Def(h, i)
  <2>1. CASE i = 0
    BY <1>5, <2>1 DEF Iterates
  <2>2. CASE i # 0
    <3>1. i \in 1 .. N
      BY <1>1, <2>2
    <3> QED BY <1>6, <2>2, <3>1
  <2> QED BY <2>1, <2>2
<1>8. h = [i \in 0 .. N |-> h[i]]
  BY <1>5
<1> HIDE DEF Def
<1>9. Good(h)
  BY <1>7, <1>8
<1> DEFINE add == CHOOSE g : Good(g)
<1>10. m = add[N]
  BY DEF missed, Def, Step, N
<1>11. Good(add)
  <2> HIDE DEF Good
  <2> QED BY <1>9
<1> HIDE DEF add
<1>12. \A i \in 0 .. N : add[i] = Def(add, i)
  BY <1>11
<1> DEFINE Named(i) == {x.name : x \in {y \in {symbols[j] : j \in 1 .. i} : IsFunction(y)}} \ NamesOf(units)
           Is(i) == add[i] \in Seq(X) /\ Distinct(add[i]) /\ NamesOf(add[i]) = Named(i)
           T == {i \in Nat : i > N \/ Is(i)}
<1>13. Is(0)
  <2>1. add[0] = <<>>
    BY <1>1, <1>12 DEF Def
  <2>2. Named(0) = {}
    OBVIOUS
  <2>3. NamesOf(<<>>) = {} /\ Distinct(<<>>) /\ <<>> \in Seq(X)
    BY DEF NamesOf, ToSet, Distinct
  <2> QED BY <2>1, <2>2, <2>3
<1>14. ASSUME NEW i \in Nat, i + 1 <= N, Is(i) PROVE Is(i + 1)
  <2> DEFINE a == add[i]
             b == add[i + 1]
             s == symbols[i + 1]
  <2>1. b = Step(i + 1, a) /\ i + 1 \in 1 .. N
    <3>1. i + 1 \in 0 .. N /\ i + 1 # 0 /\ (i + 1) - 1 = i
      BY <1>1, <1>14
    <3> QED BY <1>12, <1>14, <3>1 DEF Def
  <2>2. Named(i + 1) = Named(i) \cup (IF IsFunction(s) THEN {s.name} \ NamesOf(units) ELSE {})
    <3>1. {symbols[j] : j \in 1 .. i + 1} = {symbols[j] : j \in 1 .. i} \cup {s}
      <4>1. 1 .. i + 1 = (1 .. i) \cup {i + 1}
        BY <1>14
      <4> QED BY <4>1
    <3> DEFINE A == {symbols[j] : j \in 1 .. i}
               B == {symbols[j] : j \in 1 .. i + 1}
    <3> HIDE DEF A, B, s
    <3>2. B = A \cup {s}
      BY <3>1 DEF A, B
    <3> QED BY <3>2 DEF A, B
  <2>3. a \in Seq(X) /\ Distinct(a) /\ NamesOf(a) = Named(i) /\ UnitFor(s) \in X /\ UnitFor(s).name = s.name
    BY <1>1, <1>14, <2>1 DEF UnitFor
  <2>4. CASE Taken(i + 1, a)
    <3>1. b = Append(a, UnitFor(s))
      BY <2>1, <2>4 DEF Step
    <3>2. IsFunction(s) /\ s.name \notin NamesOf(units) /\ s.name \notin NamesOf(a)
      BY <2>4
    <3> HIDE DEF a, b, s, Named
    <3> DEFINE u == UnitFor(s)
    <3>3. a \in Seq(X) /\ u \in X /\ b = Append(a, u) /\ u.name = s.name
      BY <2>3, <3>1
    <3> HIDE DEF u
    <3>4. /\ b \in Seq(X) /\ \A y : y \in NamesOf(b) <=> y \in NamesOf(a) \/ y = u.name
          /\ Distinct(a) /\ u.name \notin NamesOf(a) => Distinct(b)
      BY <3>3, AddedUnit
    <3>5. b \in Seq(X) /\ NamesOf(b) = NamesOf(a) \cup {s.name} /\ Distinct(b)
      BY <2>3, <3>2, <3>3, <3>4
    <3> QED BY <2>2, <2>3, <3>2, <3>5 DEF b
  <2>5. CASE ~Taken(i + 1, a)
    <3>1. b = a
      BY <2>1, <2>5 DEF Step
    <3>2. ~IsFunction(s) \/ s.name \in NamesOf(units) \/ s.name \in NamesOf(a)
      BY <2>5
    <3> HIDE DEF a, b, s, Named
    <3> QED BY <2>2, <2>3, <3>1, <3>2 DEF b
  <2> QED BY <2>4, <2>5
<1> HIDE DEF Is
<1>15. Is(N)
  <2>1. 0 \in T
    BY <1>13
  <2>2. \A i \in Nat : i \in T => i + 1 \in T
    BY <1>1, <1>14
  <2>3. Nat \subseteq T
    <3> HIDE DEF T
    <3> QED BY <2>1, <2>2, InductionSet
  <2> QED BY <1>1, <2>3
<1>16. ToSet(symbols) = {symbols[j] : j \in 1 .. N}
  BY <1>1 DEF ToSet
<1> QED BY <1>10, <1>15, <1>16 DEF Is, X

LEMMA FunctionKinds ==
    ASSUME NEW y
    PROVE  IsFunction(y) <=> y.kind \in {6, 9, 12}
<1>1. DOMAIN symbolKinds = {5, 6, 9, 12, 13}
  BY DEF symbolKinds
<1>2. /\ symbolKinds[6] = "method" /\ symbolKinds[9] = "method" /\ symbolKinds[12] = "function"
      /\ symbolKinds[5] = "class" /\ symbolKinds[13] = "var"
  BY DEF symbolKinds
<1>3. y.kind \in {5, 6, 9, 12, 13} => y.kind = 5 \/ y.kind = 6 \/ y.kind = 9 \/ y.kind = 12 \/ y.kind = 13
  OBVIOUS
<1> QED BY <1>1, <1>2, <1>3 DEF IsFunction

SymbolsOf(raw) == ToSet(raw) \cup UNION {ToSet(r.children) : r \in ToSet(raw)}
FunctionNames(raw) == {Bare(s.name) : s \in {t \in SymbolsOf(raw) : t.kind \in {6, 9, 12}}}

(* The functions and methods among a file's flattened symbols. *)
LEMMA FlattenedSymbols ==
    ASSUME NEW raw, IsSeq(raw), \A i \in DOMAIN raw : IsSeq(raw[i].children),
           NEW s, s = flattenSymbols(raw)
    PROVE  /\ IsSeq(s)
           /\ {x.name : x \in {y \in ToSet(s) : IsFunction(y)}} = FunctionNames(raw)
<1> DEFINE n == Len(raw)
           Top(i) == [name |-> Bare(raw[i].name), kind |-> raw[i].kind, container |-> <<>>]
           Child(i, c) == [name |-> Bare(raw[i].children[c].name), kind |-> raw[i].children[c].kind,
                           container |-> <<raw[i].name>>]
           Children(i) == [c \in DOMAIN raw[i].children |-> Child(i, c)]
           Group(i) == <<Top(i)>> \o Children(i)
           ss == [i \in DOMAIN raw |-> Group(i)]
           In(i) == {Top(i)} \cup {Child(i, c) : c \in DOMAIN raw[i].children}
<1>1. n \in Nat /\ DOMAIN raw = 1 .. n
  BY DEF IsSeq
<1>2. ASSUME NEW i \in 1 .. n PROVE IsSeq(ss[i]) /\ ToSet(ss[i]) = In(i)
  <2> DEFINE X == In(i)
             t == <<Top(i)>>
             u == Children(i)
             m == Len(raw[i].children)
  <2>1. m \in Nat /\ DOMAIN raw[i].children = 1 .. m
    BY <1>1 DEF IsSeq
  <2>2. u \in Seq(X) /\ ToSet(u) = {Child(i, c) : c \in DOMAIN raw[i].children}
    <3> HIDE DEF Child, m, Top
    <3>1. u = [c \in 1 .. m |-> Child(i, c)]
      BY <2>1
    <3>2. \A c \in 1 .. m : Child(i, c) \in X
      BY <2>1
    <3>3. ToSet(u) = {Child(i, c) : c \in DOMAIN raw[i].children}
      BY <2>1, <3>1 DEF ToSet
    <3> HIDE DEF X, u
    <3> QED BY <2>1, <3>1, <3>2, <3>3
  <2>3. t \in Seq(X) /\ ToSet(t) = {Top(i)}
    <3> HIDE DEF Child, Top
    <3> QED BY DEF ToSet
  <2>4. ss[i] = t \o u
    BY <1>1
  <2> HIDE DEF t, u, Top, Child, X, ss
  <2>5. t \o u \in Seq(X) /\ ToSet(t \o u) = ToSet(t) \cup ToSet(u)
    BY <2>2, <2>3, JoinedSets
  <2>6. ToSet(ss[i]) = X
    BY <2>2, <2>3, <2>4, <2>5 DEF X
  <2> QED BY <2>4, <2>5, <2>6 DEF IsSeq, X
<1>3. DOMAIN ss = 1 .. n /\ ss = [i \in 1 .. n |-> ss[i]]
  BY <1>1
<1>4. s = FlattenSeq(ss)
  BY DEF flattenSymbols
<1> HIDE DEF ss, n, Top, Child
<1>5. IsSeq(s) /\ ToSet(s) = UNION {ToSet(ss[i]) : i \in 1 .. n}
  <2>1. \A i \in 1 .. n : IsSeq(ss[i])
    BY <1>2
  <2> QED BY <1>1, <1>3, <1>4, <2>1, Flattened
<1>6. \A x : x \in ToSet(s) <=> \E i \in 1 .. n : x = Top(i) \/ \E c \in DOMAIN raw[i].children : x = Child(i, c)
  <2>1. \A x : x \in ToSet(s) <=> \E i \in 1 .. n : x \in ToSet(ss[i])
    BY <1>5
  <2> QED BY <1>2, <2>1
<1>7. \A x : x \in SymbolsOf(raw) <=> \E i \in 1 .. n : x = raw[i] \/ \E c \in DOMAIN raw[i].children : x = raw[i].children[c]
  BY <1>1 DEF SymbolsOf, ToSet
<1>8. ASSUME NEW x \in ToSet(s), IsFunction(x) PROVE x.name \in FunctionNames(raw)
  <2>1. x.kind \in {6, 9, 12}
    BY <1>8, FunctionKinds
  <2>2. PICK i \in 1 .. n : x = Top(i) \/ \E c \in DOMAIN raw[i].children : x = Child(i, c)
    BY <1>6
  <2>3. CASE x = Top(i)
    <3>1. raw[i] \in SymbolsOf(raw) /\ x.name = Bare(raw[i].name) /\ x.kind = raw[i].kind
      BY <1>7, <2>3 DEF Top
    <3> QED BY <2>1, <3>1 DEF FunctionNames
  <2>4. CASE \E c \in DOMAIN raw[i].children : x = Child(i, c)
    <3>1. PICK c \in DOMAIN raw[i].children : x = Child(i, c)
      BY <2>4
    <3> DEFINE t == raw[i].children[c]
    <3>2. t \in SymbolsOf(raw) /\ x.name = Bare(t.name) /\ x.kind = t.kind
      BY <1>7, <3>1 DEF Child
    <3> HIDE DEF t
    <3> QED BY <2>1, <3>2 DEF FunctionNames
  <2> QED BY <2>2, <2>3, <2>4
<1>9. ASSUME NEW t \in SymbolsOf(raw), t.kind \in {6, 9, 12}
      PROVE  \E x \in ToSet(s) : IsFunction(x) /\ x.name = Bare(t.name)
  <2>1. PICK i \in 1 .. n : t = raw[i] \/ \E c \in DOMAIN raw[i].children : t = raw[i].children[c]
    BY <1>7
  <2>2. CASE t = raw[i]
    <3>1. Top(i) \in ToSet(s) /\ Top(i).name = Bare(t.name) /\ Top(i).kind = t.kind
      BY <1>6, <2>2 DEF Top
    <3> QED BY <1>9, <3>1, FunctionKinds
  <2>3. CASE \E c \in DOMAIN raw[i].children : t = raw[i].children[c]
    <3>1. PICK c \in DOMAIN raw[i].children : t = raw[i].children[c]
      BY <2>3
    <3>2. Child(i, c) \in ToSet(s) /\ Child(i, c).name = Bare(t.name) /\ Child(i, c).kind = t.kind
      BY <1>6, <3>1 DEF Child
    <3> QED BY <1>9, <3>2, FunctionKinds
  <2> QED BY <2>1, <2>2, <2>3
<1>10. \A y : y \in {x.name : x \in {z \in ToSet(s) : IsFunction(z)}} <=> y \in FunctionNames(raw)
  BY <1>8, <1>9 DEF FunctionNames
<1> QED BY <1>5, <1>10

(* The units of a content: its parser's, and those its server adds to them. *)
Contents(f) == 1 .. Len(SymFiles[f].parsed)
Told(f, v) == missed(Reported(f, v), Parsed(f, v))
Partly(f, v, units) == \E k \in 0 .. Len(Told(f, v)) : units = Parsed(f, v) \o SubSeq(Told(f, v), 1, k)
Wholly(f, v, units) == units = Parsed(f, v) \o Told(f, v)

LEMMA ParsedIs ==
    ASSUME NEW f \in Windowed, NEW v \in Contents(f)
    PROVE  /\ Len(SymFiles[f].parsed[v]) \in Nat
           /\ Parsed(f, v) \in Seq({[name |-> x, qualified |-> <<>>, by |-> "ast"] : x \in ToSet(SymFiles[f].parsed[v])})
           /\ Len(Parsed(f, v)) = Len(SymFiles[f].parsed[v])
           /\ NamesOf(Parsed(f, v)) = ToSet(SymFiles[f].parsed[v])
<1> DEFINE p == SymFiles[f].parsed[v]
           Unit(x) == [name |-> x, qualified |-> <<>>, by |-> "ast"]
           X == {Unit(x) : x \in ToSet(p)}
           u == Parsed(f, v)
           n == Len(p)
<1>1. n \in Nat /\ DOMAIN p = 1 .. n
  <2>1. IsSeq(p)
    BY SymbolAssumption DEF IsContents, IsSeq, Contents, Windowed
  <2> HIDE DEF p
  <2> QED BY <2>1 DEF IsSeq
<1>2. u = [i \in DOMAIN p |-> Unit(p[i])]
  BY DEF Parsed
<1> HIDE DEF p, u, n
<1>3. \A i \in 1 .. n : Unit(p[i]) \in X /\ Unit(p[i]).name = p[i]
  BY <1>1 DEF ToSet
<1>4. NamesOf(u) = ToSet(p)
  <2> HIDE DEF X
  <2>1. DOMAIN u = 1 .. n /\ \A i \in 1 .. n : u[i].name = p[i]
    BY <1>1, <1>2, <1>3
  <2> QED BY <1>1, <2>1 DEF NamesOf, ToSet
<1> HIDE DEF Unit
<1>5. u \in [1 .. n -> X]
  <2> HIDE DEF X
  <2> QED BY <1>1, <1>2, <1>3
<1>6. u \in Seq(X) /\ Len(u) = n
  <2> HIDE DEF X
  <2> QED BY <1>1, <1>5
<1> QED BY <1>1, <1>4, <1>6 DEF p, u, n, X, Unit

Unparsed(f, v) == FunctionNames(SymFiles[f].reported[v]) \ ToSet(SymFiles[f].parsed[v])

LEMMA ToldIs ==
    ASSUME NEW f \in Windowed, NEW v \in Contents(f), NEW m, m = Told(f, v)
    PROVE  /\ m \in Seq({UnitFor(x) : x \in ToSet(Reported(f, v))}) /\ Len(m) \in Nat /\ DOMAIN m = 1 .. Len(m)
           /\ \A i \in 1 .. Len(m) : m[i].by = "lsp"
           /\ Distinct(m)
           /\ NamesOf(m) = Unparsed(f, v)
<1> DEFINE raw == SymFiles[f].reported[v]
           s == Reported(f, v)
           X == {UnitFor(x) : x \in ToSet(s)}
<1>1. IsSeq(raw) /\ \A i \in DOMAIN raw : IsSeq(raw[i].children)
  <2>1. v \in DOMAIN SymFiles[f].reported
    BY SymbolAssumption DEF IsContents, IsSeq, Contents, Windowed
  <2> QED BY <2>1, SymbolAssumption DEF IsContents, Windowed
<1>2. s = flattenSymbols(raw)
  BY DEF Reported
<1> HIDE DEF raw, s
<1>3. IsSeq(s) /\ {x.name : x \in {y \in ToSet(s) : IsFunction(y)}} = FunctionNames(raw)
  BY <1>1, <1>2, FlattenedSymbols
<1>4. /\ m \in Seq(X) /\ Distinct(m)
      /\ NamesOf(m) = {x.name : x \in {y \in ToSet(s) : IsFunction(y)}} \ NamesOf(Parsed(f, v))
  <2> DEFINE p == Parsed(f, v)
  <2>1. m = missed(s, p)
    BY DEF Told, s
  <2> HIDE DEF p
  <2>2. /\ m \in Seq(X) /\ Distinct(m)
        /\ NamesOf(m) = {x.name : x \in {y \in ToSet(s) : IsFunction(y)}} \ NamesOf(p)
    BY <1>3, <2>1, MissedIs
  <2> QED BY <2>2 DEF p
<1>5. \A x \in X : x.by = "lsp"
  BY DEF UnitFor
<1> HIDE DEF X
<1>6. Len(m) \in Nat /\ DOMAIN m = 1 .. Len(m) /\ \A i \in 1 .. Len(m) : m[i] \in X
  BY <1>4
<1> QED BY <1>3, <1>4, <1>5, <1>6, ParsedIs DEF raw, X, s, Unparsed

LEMMA Sliced ==
    ASSUME NEW X, NEW s \in Seq(X), NEW t \in Seq(X)
    PROVE  /\ SubSeq(s \o t, 1, Len(s)) = s
           /\ SubSeq(s \o t, Len(s) + 1, Len(s \o t)) = t
<1> DEFINE m == Len(s)
           n == Len(t)
           u == s \o t
           a == SubSeq(u, 1, m)
           b == SubSeq(u, m + 1, m + n)
<1>1. /\ m \in Nat /\ n \in Nat /\ Len(u) = m + n /\ u \in Seq(X)
      /\ \A i \in 1 .. m : u[i] = s[i]
      /\ \A i \in 1 .. n : u[i + m] = t[i]
  <2>1. m \in Nat /\ n \in Nat /\ Len(u) = m + n /\ u \in Seq(X)
    OBVIOUS
  <2>2. \A i \in 1 .. m + n : u[i] = IF i <= m THEN s[i] ELSE t[i - m]
    OBVIOUS
  <2> HIDE DEF m, n, u
  <2>3. ASSUME NEW i \in 1 .. n PROVE u[i + m] = t[i]
    <3>1. i + m \in 1 .. m + n /\ ~(i + m <= m) /\ (i + m) - m = i
      BY <2>1
    <3> QED BY <2>2, <3>1
  <2>4. ASSUME NEW i \in 1 .. m PROVE u[i] = s[i]
    <3>1. i \in 1 .. m + n /\ i <= m
      BY <2>1
    <3> QED BY <2>2, <3>1
  <2> QED BY <2>1, <2>3, <2>4
<1>2. s = [i \in 1 .. m |-> s[i]] /\ t = [i \in 1 .. n |-> t[i]]
  OBVIOUS
<1> HIDE DEF m, n, u
<1>3. a = [i \in 1 .. m |-> u[i]]
  <2>1. a = [i \in 1 .. m |-> u[i + 1 - 1]]
    BY <1>1
  <2> QED BY <1>1, <2>1
<1>4. b = [i \in 1 .. n |-> u[i + m]]
  <2> DEFINE lo == m + 1
             hi == m + n
  <2>1. lo \in Int /\ hi \in Int /\ hi - lo + 1 = n /\ \A i \in 1 .. n : i + lo - 1 = i + m
    BY <1>1
  <2> HIDE DEF lo, hi
  <2>2. SubSeq(u, lo, hi) = [i \in 1 .. hi - lo + 1 |-> u[i + lo - 1]]
    BY <2>1
  <2>3. SubSeq(u, lo, hi) = [i \in 1 .. n |-> u[i + m]]
    BY <2>1, <2>2
  <2> QED BY <2>3 DEF lo, hi
<1>5. a = s /\ b = t
  <2> HIDE DEF a, b
  <2> QED BY <1>1, <1>2, <1>3, <1>4
<1> QED BY <1>1, <1>5 DEF m, n, u

IsPart(own, parsed, added, m, k) ==
    /\ own = parsed
    /\ \A i \in DOMAIN added : added[i].by = "lsp"
    /\ NamesOf(added) \subseteq NamesOf(m) /\ Cardinality(NamesOf(added)) = Len(added)
    /\ k = Len(m) => NamesOf(added) = NamesOf(m)

(* Units that the server added in part: none twice, none the parser has. *)
LEMMA PartlyMerged ==
    ASSUME NEW f \in Windowed, NEW v \in Contents(f), NEW m, m = Told(f, v), NEW k \in 0 .. Len(m),
           NEW units, units = Parsed(f, v) \o SubSeq(m, 1, k),
           NEW n, n = Len(SymFiles[f].parsed[v]),
           NEW added, added = SubSeq(units, n + 1, Len(units))
    PROVE  IsPart(SubSeq(units, 1, n), Parsed(f, v), added, m, k)
<1> DEFINE p == Parsed(f, v)
           A == {[name |-> x, qualified |-> <<>>, by |-> "ast"] : x \in ToSet(SymFiles[f].parsed[v])}
           B == {UnitFor(x) : x \in ToSet(Reported(f, v))}
           X == A \cup B
           b == SubSeq(m, 1, k)
<1>1. n \in Nat /\ p \in Seq(A) /\ Len(p) = n
  BY ParsedIs
<1>2. /\ m \in Seq(B) /\ Len(m) \in Nat /\ DOMAIN m = 1 .. Len(m) /\ Distinct(m)
      /\ \A i \in 1 .. Len(m) : m[i].by = "lsp"
  BY ToldIs
<1> HIDE DEF p, A, B
<1>3. b = [i \in 1 .. k |-> m[i]] /\ k \in Nat /\ Len(b) = k /\ DOMAIN b = 1 .. k
  <2>1. k \in Nat /\ k <= Len(m)
    BY <1>2
  <2>2. b = [i \in 1 .. k |-> m[i + 1 - 1]] /\ Len(b) = k
    BY <1>2, <2>1
  <2> QED BY <2>1, <2>2
<1>4. \A i \in 1 .. k : i \in 1 .. Len(m)
  BY <1>2
<1> HIDE DEF b, X
<1>5. p \in Seq(X) /\ b \in Seq(X)
  <2>1. \A i \in 1 .. n : p[i] \in X
    BY <1>1 DEF X
  <2>2. \A i \in 1 .. k : b[i] \in X
    BY <1>2, <1>3, <1>4 DEF X
  <2>3. b = [i \in 1 .. k |-> b[i]]
    BY <1>3
  <2>4. p = [i \in 1 .. n |-> p[i]]
    BY <1>1
  <2>5. b \in [1 .. k -> X] /\ p \in [1 .. n -> X]
    BY <2>1, <2>2, <2>3, <2>4
  <2>6. \A j \in Nat : \A q \in [1 .. j -> X] : q \in Seq(X)
    OBVIOUS
  <2> QED BY <1>1, <1>3, <2>5, <2>6
<1>6. units = p \o b
  BY DEF p, b
<1>7. SubSeq(units, 1, n) = p /\ added = b
  <2>1. SubSeq(p \o b, 1, Len(p)) = p /\ SubSeq(p \o b, Len(p) + 1, Len(p \o b)) = b
    BY <1>5, Sliced
  <2> QED BY <1>1, <1>6, <2>1
<1>8. NamesOf(b) \subseteq NamesOf(m) /\ (k = Len(m) => NamesOf(b) = NamesOf(m))
  <2>1. \A i \in 1 .. k : b[i] = m[i]
    BY <1>3
  <2>2. \A x : x \in NamesOf(b) <=> \E i \in 1 .. k : x = m[i].name
    <3>1. \A x : x \in NamesOf(b) <=> \E i \in 1 .. k : x = b[i].name
      <4>1. DOMAIN b = 1 .. k
        BY <1>3
      <4> QED BY <4>1 DEF NamesOf, ToSet
    <3> QED BY <2>1, <3>1
  <2>3. \A x : x \in NamesOf(m) <=> \E i \in 1 .. Len(m) : x = m[i].name
    BY <1>2 DEF NamesOf, ToSet
  <2> DEFINE B0 == NamesOf(b)
             M0 == NamesOf(m)
             l == Len(m)
  <2> HIDE DEF B0, M0, l
  <2>4. B0 \subseteq M0
    BY <1>4, <2>2, <2>3 DEF B0, M0, l
  <2>5. ASSUME k = l PROVE M0 \subseteq B0
    BY <2>2, <2>3, <2>5 DEF B0, M0, l
  <2> QED BY <2>4, <2>5 DEF B0, M0, l
<1>9. Cardinality(NamesOf(b)) = k
  <2> DEFINE g == [i \in 1 .. k |-> b[i].name]
             N == NamesOf(b)
  <2>1. N = {b[i].name : i \in 1 .. k}
    <3>1. DOMAIN b = 1 .. k
      BY <1>3
    <3> QED BY <3>1 DEF NamesOf, ToSet
  <2>2. g \in Surjection(1 .. k, N)
    BY <2>1 DEF Surjection
  <2>3. \A i, j \in 1 .. k : g[i] = g[j] => i = j
    BY <1>2, <1>3, <1>4 DEF Distinct
  <2> HIDE DEF g, N
  <2>4. g \in Injection(1 .. k, N)
    BY <2>2, <2>3 DEF Injection, Surjection, IsInjective
  <2>5. IsFiniteSet(1 .. k) /\ Cardinality(1 .. k) = k
    BY <1>3, FS_Interval
  <2> QED BY <2>2, <2>4, <2>5, FS_Surjection DEF N
<1>10. \A i \in DOMAIN b : b[i].by = "lsp"
  BY <1>2, <1>3, <1>4
<1> QED BY <1>3, <1>7, <1>8, <1>9, <1>10 DEF p, IsPart

LEMMA WhollyIsPartly ==
    ASSUME NEW f \in Windowed, NEW v \in Contents(f), NEW units
    PROVE  /\ Wholly(f, v, units) <=> units = Parsed(f, v) \o SubSeq(Told(f, v), 1, Len(Told(f, v)))
           /\ Wholly(f, v, units) => Partly(f, v, units)
           /\ units = Parsed(f, v) => Partly(f, v, units)
<1> DEFINE m == Told(f, v)
           n == Len(m)
           p == Parsed(f, v)
           A == {[name |-> x, qualified |-> <<>>, by |-> "ast"] : x \in ToSet(SymFiles[f].parsed[v])}
           B == {UnitFor(x) : x \in ToSet(Reported(f, v))}
<1>1. m \in Seq(B) /\ n \in Nat
  BY ToldIs
<1>2. p \in Seq(A)
  BY ParsedIs
<1> HIDE DEF A, B, m, p
<1>3. SubSeq(m, 1, n) = m /\ SubSeq(m, 1, 0) = <<>>
  BY <1>1
<1>4. p \o <<>> = p
  BY <1>2
<1>5. 0 \in 0 .. n /\ n \in 0 .. n
  BY <1>1
<1> HIDE DEF n
<1> QED BY <1>3, <1>4, <1>5 DEF Wholly, Partly, m, n, p

(* What SymbolsMerged says of a file with a current row. *)
LEMMA MergedFile ==
    ASSUME DOMAIN symUnits = Windowed,
           \A f \in Windowed : symRows[f] = symTree[f] =>
              /\ symTree[f] \in Contents(f)
              /\ Partly(f, symTree[f], symUnits[f])
              /\ Wholly(f, symTree[f], symUnits[f]) \/ f \in excused
    PROVE  SymbolsMerged
<1> SUFFICES ASSUME NEW f \in Windowed, symRows[f] = symTree[f]
             PROVE  LET v == symTree[f]
                        n == Len(SymFiles[f].parsed[v])
                        added == SubSeq(symUnits[f], n + 1, Len(symUnits[f]))
                        raw == SymFiles[f].reported[v]
                        functions == {Bare(s.name) : s \in {t \in ToSet(raw) \cup UNION {ToSet(r.children) : r \in ToSet(raw)} :
                                                               t.kind \in {6, 9, 12}}}
                        expected == functions \ ToSet(SymFiles[f].parsed[v])
                        names == NamesOf(added)
                    IN /\ SubSeq(symUnits[f], 1, n) = Parsed(f, v)
                       /\ \A i \in DOMAIN added : added[i].by = "lsp"
                       /\ names \subseteq expected /\ Cardinality(names) = Len(added)
                       /\ names # expected => f \in excused
  BY DEF SymbolsMerged
<1> DEFINE v == symTree[f]
           n == Len(SymFiles[f].parsed[v])
           units == symUnits[f]
           added == SubSeq(units, n + 1, Len(units))
           raw == SymFiles[f].reported[v]
           functions == {Bare(s.name) : s \in {t \in ToSet(raw) \cup UNION {ToSet(r.children) : r \in ToSet(raw)} :
                                                  t.kind \in {6, 9, 12}}}
           expected == functions \ ToSet(SymFiles[f].parsed[v])
           names == NamesOf(added)
           m == Told(f, v)
<1>1. v \in Contents(f) /\ Partly(f, v, units) /\ (Wholly(f, v, units) \/ f \in excused)
  OBVIOUS
<1>2. expected = NamesOf(m)
  <2>1. functions = FunctionNames(raw)
    BY DEF FunctionNames, SymbolsOf
  <2> HIDE DEF functions, raw, v, m
  <2>2. NamesOf(m) = Unparsed(f, v)
    BY <1>1, ToldIs DEF m
  <2> QED BY <2>1, <2>2 DEF raw, Unparsed
<1>3. \E k \in 0 .. Len(m) : units = Parsed(f, v) \o SubSeq(m, 1, k) /\ (k = Len(m) \/ f \in excused)
  <2>1. CASE Wholly(f, v, units)
    <3>1. Len(m) \in 0 .. Len(m)
      BY <1>1, ToldIs
    <3> QED BY <1>1, <2>1, <3>1, WhollyIsPartly
  <2>2. CASE f \in excused
    BY <1>1, <2>2 DEF Partly
  <2> QED BY <1>1, <2>1, <2>2
<1> HIDE DEF v, units, m, n, added, expected
<1>4. PICK k \in 0 .. Len(m) : units = Parsed(f, v) \o SubSeq(m, 1, k) /\ (k = Len(m) \/ f \in excused)
  BY <1>3
<1>5. /\ SubSeq(units, 1, n) = Parsed(f, v)
      /\ \A i \in DOMAIN added : added[i].by = "lsp"
      /\ names \subseteq NamesOf(m) /\ Cardinality(names) = Len(added)
      /\ k = Len(m) => names = NamesOf(m)
  <2> HIDE DEF names
  <2>1. m = Told(f, v) /\ n = Len(SymFiles[f].parsed[v]) /\ added = SubSeq(units, n + 1, Len(units))
    BY DEF m, n, added
  <2>2. IsPart(SubSeq(units, 1, n), Parsed(f, v), added, m, k)
    BY <1>1, <1>4, <2>1, PartlyMerged
  <2> QED BY <2>2 DEF names, IsPart
<1> HIDE DEF names
<1>6. /\ SubSeq(units, 1, n) = Parsed(f, v)
      /\ \A i \in DOMAIN added : added[i].by = "lsp"
      /\ names \subseteq expected /\ Cardinality(names) = Len(added)
      /\ names # expected => f \in excused
  BY <1>2, <1>4, <1>5
<1> QED BY <1>6 DEF names, expected, added, n, units, v

-----------------------------------------------------------------------------
(* Symbol refiner: the invariant *)

Once(s) == IsSeq(s) /\ \A i, j \in DOMAIN s : s[i] = s[j] => i = j

LEMMA OnceTail ==
    ASSUME NEW s, Once(s), s # <<>>
    PROVE  /\ Head(s) \in ToSet(s) /\ Once(Tail(s))
           /\ \A x : x \in ToSet(Tail(s)) <=> x \in ToSet(s) /\ x # Head(s)
<1> DEFINE X == ToSet(s)
           n == Len(s)
           t == Tail(s)
<1>1. s \in Seq(X) /\ n \in Nat /\ DOMAIN s = 1 .. n
  BY DEF Once, IsSeq
<1> HIDE DEF X
<1>2. n > 0 /\ Head(s) = s[1] /\ Len(t) = n - 1 /\ t \in Seq(X)
  BY <1>1
<1>3. DOMAIN t = 1 .. n - 1 /\ \A i \in 1 .. n - 1 : t[i] = s[i + 1]
  BY <1>1, <1>2
<1> HIDE DEF n, t
<1>4. \A i \in 1 .. n - 1 : i + 1 \in 1 .. n /\ i + 1 # 1
  BY <1>1
<1>5. \A i \in 1 .. n : i = 1 \/ (i - 1 \in 1 .. n - 1 /\ (i - 1) + 1 = i)
  BY <1>1
<1>6. 1 \in 1 .. n
  BY <1>1, <1>2
<1>7. \A i, j \in 1 .. n : s[i] = s[j] => i = j
  BY <1>1 DEF Once
<1>8. ASSUME NEW x \in ToSet(t) PROVE x \in ToSet(s) /\ x # Head(s)
  <2>1. PICK i \in 1 .. n - 1 : x = s[i + 1]
    BY <1>3, <1>8 DEF ToSet
  <2> QED BY <1>1, <1>2, <1>4, <1>6, <1>7, <2>1 DEF ToSet
<1>9. ASSUME NEW x \in ToSet(s), x # Head(s) PROVE x \in ToSet(t)
  <2>1. PICK i \in 1 .. n : x = s[i]
    BY <1>1 DEF ToSet
  <2>2. i - 1 \in 1 .. n - 1 /\ (i - 1) + 1 = i
    BY <1>2, <1>5, <1>9, <2>1
  <2>3. t[i - 1] = x
    BY <1>3, <2>1, <2>2
  <2> QED BY <1>3, <2>2, <2>3 DEF ToSet
<1>10. ASSUME NEW i \in DOMAIN t, NEW j \in DOMAIN t, t[i] = t[j] PROVE i = j
  <2>1. i + 1 = j + 1 /\ i \in Int /\ j \in Int
    BY <1>1, <1>3, <1>4, <1>7, <1>10
  <2> QED BY <2>1
<1>11. IsSeq(t)
  <2>1. t \in [1 .. n - 1 -> ToSet(t)]
    <3>1. \A i \in 1 .. n - 1 : t[i] \in ToSet(t)
      BY <1>3 DEF ToSet
    <3>2. t = [i \in 1 .. n - 1 |-> t[i]]
      BY <1>2, <1>3
    <3> QED BY <3>1, <3>2
  <2>2. n - 1 \in Nat
    BY <1>1, <1>2
  <2> DEFINE Y == ToSet(t)
             k == n - 1
  <2> HIDE DEF Y, k
  <2>3. t \in Seq(Y)
    BY <2>1, <2>2 DEF Y, k
  <2> QED BY <2>3 DEF IsSeq, Y
<1>12. Head(s) \in ToSet(s)
  BY <1>1, <1>2, <1>6 DEF ToSet
<1> QED BY <1>8, <1>9, <1>10, <1>11, <1>12 DEF Once, t

LEMMA OnceInOrder ==
    ASSUME NEW S, IsFiniteSet(S), NEW less, Orders(less, S)
    PROVE  Once(InOrder(S, less)) /\ ToSet(InOrder(S, less)) = S
<1> DEFINE s == InOrder(S, less)
<1> HIDE DEF s
<1>1. /\ s \in Seq(S)
      /\ \A i, j \in DOMAIN s : s[i] = s[j] => i = j
      /\ \A x \in S : \E i \in DOMAIN s : s[i] = x
  BY Foremost DEF s
<1>2. \A i \in DOMAIN s : s[i] \in S
  BY <1>1
<1>3. ToSet(s) = S
  BY <1>1, <1>2 DEF ToSet
<1> QED BY <1>1, <1>3 DEF Once, IsSeq, s

LEMMA SetInSeq ==
    ASSUME NEW S, IsFiniteSet(S)
    PROVE  IsSeq(SetToSeq(S)) /\ ToSet(SetToSeq(S)) = S
<1> DEFINE n == Cardinality(S)
           f == SetToSeq(S)
<1>1. n \in Nat /\ ExistsBijection(1 .. n, S)
  BY FS_CardinalityType
<1>2. \E g \in [1 .. n -> S] : IsInjective(g)
  BY <1>1 DEF ExistsBijection, Bijection, Injection
<1>3. f \in [1 .. n -> S] /\ IsInjective(f)
  BY <1>2 DEF SetToSeq
<1> HIDE DEF f, n
<1>4. f \in Injection(1 .. n, S)
  BY <1>3 DEF Injection
<1>5. Cardinality(1 .. n) = n
  BY <1>1, FS_Interval
<1>6. f \in Surjection(1 .. n, S)
  BY <1>4, <1>5, FS_Injection DEF n
<1>7. DOMAIN f = 1 .. n /\ (\A i \in 1 .. n : f[i] \in S) /\ \A x \in S : \E i \in 1 .. n : f[i] = x
  BY <1>3, <1>6 DEF Surjection
<1>8. ToSet(f) = S
  BY <1>7 DEF ToSet
<1>9. f \in Seq(S)
  BY <1>1, <1>3
<1> QED BY <1>8, <1>9 DEF IsSeq, f

Adds(t, s, x) == \A y : y \in ToSet(t) <=> y \in ToSet(s) \/ y = x

LEMMA Appending ==
    ASSUME NEW s, IsSeq(s), NEW x, NEW t, t = Append(s, x)
    PROVE  IsSeq(t) /\ Len(t) = Len(s) + 1 /\ Len(s) \in Nat /\ Adds(t, s, x)
<1> DEFINE n == Len(s)
           X == ToSet(s) \cup {x}
<1>1. n \in Nat /\ DOMAIN s = 1 .. n /\ s \in Seq(X)
  <2>1. s \in Seq(ToSet(s))
    BY DEF IsSeq
  <2>2. n \in Nat /\ DOMAIN s = 1 .. n
    BY <2>1
  <2>3. s \in [1 .. n -> X]
    <3>1. s \in [1 .. n -> ToSet(s)]
      BY <2>1
    <3> QED BY <3>1
  <2> HIDE DEF X, n
  <2>4. s \in Seq(X)
    BY <2>2, <2>3
  <2> QED BY <2>2, <2>4
<1>2. x \in X
  OBVIOUS
<1> HIDE DEF X
<1>3. /\ t \in Seq(X) /\ Len(t) = n + 1 /\ DOMAIN t = 1 .. n + 1
      /\ \A i \in 1 .. n : t[i] = s[i] /\ i \in 1 .. n + 1
      /\ t[n + 1] = x /\ n + 1 \in 1 .. n + 1
  BY <1>1, <1>2, AppendProperties
<1> HIDE DEF n
<1>4. \A i \in 1 .. n + 1 : i \in 1 .. n \/ i = n + 1
  BY <1>1
<1>5. \A y : y \in ToSet(t) <=> y \in ToSet(s) \/ y = x
  BY <1>1, <1>3, <1>4 DEF ToSet
<1>6. ToSet(t) = X
  BY <1>5 DEF X
<1> QED BY <1>1, <1>3, <1>5, <1>6 DEF IsSeq, Adds, n

LspFields == {"pc", "window", "content", "langs", "todo", "blind", "symbols",
              "astErrors", "failures", "errors", "down", "empty"}

FilesOK ==
    /\ DOMAIN symTree = Windowed /\ DOMAIN symRows = Windowed /\ DOMAIN symUnits = Windowed
    /\ \A f \in Windowed : symTree[f] \in Contents(f) /\ symRows[f] \in Nat /\ symRows[f] <= symTree[f]

(* A current row is that of a file out of the window, with what the parser and   *)
(* the server gave for that content, unless its language is excused.             *)
RowsHold ==
    \A f \in Windowed : symRows[f] = symTree[f] =>
        /\ f \notin lsp.window
        /\ Partly(f, symTree[f], symUnits[f])
        /\ Wholly(f, symTree[f], symUnits[f]) \/ f \in excused

(* The running pass: the languages and files it still has to visit, each once,   *)
(* and the failures it counts, of which an empty language's has no name.         *)
Visits ==
    /\ DOMAIN lsp = LspFields /\ lsp.pc \in {"idle", "language", "file"} /\ lsp.window \subseteq Windowed
    /\ lsp.pc = "idle" => lsp.window = {}
    /\ lsp.pc # "idle" =>
          /\ \A f \in Windowed : lsp.content[f] \in Contents(f) /\ lsp.content[f] <= symTree[f]
          /\ Once(lsp.langs) /\ ToSet(lsp.langs) \subseteq RefinedLangs
          /\ IsSeq(lsp.astErrors) /\ ToSet(lsp.astErrors) \subseteq lsp.window
          /\ IsSeq(lsp.errors) /\ lsp.failures \in Nat /\ Len(lsp.errors) <= lsp.failures
          /\ lsp.empty # {} => Unnamed \in ToSet(lsp.errors)
    /\ lsp.pc = "file" =>
          /\ lsp.langs # <<>> /\ Once(lsp.todo)
          /\ \A f \in ToSet(lsp.todo) : f \in lsp.window /\ LangOf(f) = Head(lsp.langs)
          /\ lsp.blind => lsp.symbols = 0

Waiting(f) ==
    /\ LangOf(f) \in ToSet(lsp.langs)
    /\ lsp.pc = "file" /\ LangOf(f) = Head(lsp.langs) => f \in ToSet(lsp.todo)

Accounted(f) ==
    \/ Wholly(f, lsp.content[f], symUnits[f])
    \/ f \in ToSet(lsp.errors)
    \/ LangOf(f) \in lsp.down \cup lsp.empty
    \/ ~Refined(f)
    \/ lsp.pc = "file" /\ lsp.blind /\ LangOf(f) = Head(lsp.langs)

(* A file of the window that the parser did not fail on has the parser's units   *)
(* until the refiner comes to it, and afterwards those of its server too, unless *)
(* its failure is counted.                                                       *)
Progress ==
    lsp.pc # "idle" => \A f \in lsp.window \ ToSet(lsp.astErrors) :
        /\ Partly(f, lsp.content[f], symUnits[f])
        /\ IF Waiting(f) THEN symUnits[f] = Parsed(f, lsp.content[f]) ELSE Accounted(f)

SymbolInv == FilesOK /\ RowsHold /\ Visits /\ Progress

LEMMA SymbolEnough == SymbolInv => SymbolsMerged
  BY MergedFile DEF SymbolInv, FilesOK, RowsHold

LEMMA SymbolStarts == SymbolInit => SymbolInv
<1> SUFFICES ASSUME SymbolInit PROVE SymbolInv
  OBVIOUS
<1>1. \A f \in Windowed : 1 \in Contents(f)
  <2> SUFFICES ASSUME NEW f \in Windowed PROVE 1 \in Contents(f)
    OBVIOUS
  <2> DEFINE p == SymFiles[f].parsed
  <2>1. IsSeq(p) /\ p # <<>>
    BY SymbolAssumption DEF Windowed, IsContents
  <2> HIDE DEF p
  <2>2. Len(p) \in Nat /\ Len(p) # 0
    BY <2>1 DEF IsSeq
  <2>3. 1 \in 1 .. Len(p)
    BY <2>2
  <2> QED BY <2>3 DEF Contents, p
<1>2. FilesOK
  BY <1>1 DEF SymbolInit, FilesOK
<1>3. \A f \in Windowed : symRows[f] # symTree[f]
  BY DEF SymbolInit
<1>4. lsp.pc = "idle" /\ lsp.window = {} /\ DOMAIN lsp = LspFields
  BY DEF SymbolInit, NoRefinement, LspFields
<1> QED BY <1>2, <1>3, <1>4 DEF SymbolInv, RowsHold, Visits, Progress

LEMMA EditKeeps ==
    ASSUME SymbolInv, NEW f \in Windowed, EditSymbols(f)
    PROVE  SymbolInv'
<1>1. /\ symTree' = [symTree EXCEPT ![f] = @ + 1] /\ symTree[f] < Len(SymFiles[f].parsed)
      /\ symUnits' = symUnits /\ symRows' = symRows /\ lsp' = lsp /\ excused' = excused
  BY DEF EditSymbols
<1>2. DOMAIN symTree = Windowed
  BY DEF SymbolInv, FilesOK
<1>3. DOMAIN symTree' = Windowed /\ symTree'[f] = symTree[f] + 1 /\ \A g \in Windowed \ {f} : symTree'[g] = symTree[g]
  BY <1>1, <1>2
<1>4. symTree[f] \in Contents(f) /\ symTree[f] \in Nat /\ symTree'[f] \in Contents(f)
  <2> DEFINE n == Len(SymFiles[f].parsed)
  <2>1. symTree[f] \in 1 .. n /\ symTree[f] < n
    BY <1>1 DEF SymbolInv, FilesOK, Contents
  <2>2. n \in Nat
    BY SymbolAssumption DEF IsContents, IsSeq, Windowed
  <2> HIDE DEF n
  <2>3. symTree[f] \in Nat /\ symTree[f] + 1 \in 1 .. n
    BY <2>1, <2>2
  <2> QED BY <1>3, <2>1, <2>3 DEF Contents, n
<1>5. FilesOK' /\ symRows[f] # symTree'[f]
  <2>1. symRows[f] \in Nat /\ symRows[f] <= symTree[f]
    BY DEF SymbolInv, FilesOK
  <2>2. symRows[f] <= symTree'[f] /\ symRows[f] # symTree'[f]
    BY <1>3, <1>4, <2>1
  <2> QED BY <1>1, <1>3, <1>4, <2>1, <2>2 DEF SymbolInv, FilesOK
<1>6. RowsHold'
  BY <1>1, <1>3, <1>5 DEF SymbolInv, RowsHold
<1>7. Visits'
  <2>1. \A g \in Windowed : \A n : n \in Contents(g) /\ n <= symTree[g] => n <= symTree'[g]
    <3> SUFFICES ASSUME NEW g \in Windowed, NEW n \in Contents(g), n <= symTree[g] PROVE n <= symTree'[g]
      OBVIOUS
    <3>1. n \in Nat
      BY DEF Contents
    <3>2. CASE g = f
      BY <1>3, <1>4, <3>1, <3>2
    <3> QED BY <1>3, <3>2
  <2> QED BY <1>1, <2>1 DEF SymbolInv, Visits, RefinedLangs
<1>8. Progress'
  BY <1>1 DEF SymbolInv, Progress, Waiting, Accounted
<1> QED BY <1>5, <1>6, <1>7, <1>8 DEF SymbolInv

LEMMA LanguagesInOrder ==
    ASSUME NEW S, S \subseteq ToSet(LangOrder)
    PROVE  IsFiniteSet(S) /\ Orders(Sooner, S)
<1> DEFINE n == Len(LangOrder)
<1>1. /\ n \in Nat /\ DOMAIN LangOrder = 1 .. n
      /\ \A i, j \in 1 .. n : LangOrder[i] = LangOrder[j] => i = j
  BY SymbolAssumption DEF IsSeq
<1>2. \A x \in S : \E i \in 1 .. n : x = LangOrder[i]
  BY <1>1 DEF ToSet
<1>3. \A i, j \in 1 .. n : <<LangOrder[i], LangOrder[j]>> \in Sooner <=> i < j
  <2> SUFFICES ASSUME NEW i \in 1 .. n, NEW j \in 1 .. n
               PROVE  <<LangOrder[i], LangOrder[j]>> \in Sooner <=> i < j
    OBVIOUS
  <2>1. ASSUME i < j PROVE <<LangOrder[i], LangOrder[j]>> \in Sooner
    <3>1. <<i, j>> \in {q \in (DOMAIN LangOrder) \X (DOMAIN LangOrder) : q[1] < q[2]}
      BY <1>1, <2>1
    <3> QED BY <3>1 DEF Sooner
  <2>2. ASSUME <<LangOrder[i], LangOrder[j]>> \in Sooner PROVE i < j
    <3>1. PICK q \in (DOMAIN LangOrder) \X (DOMAIN LangOrder) :
             q[1] < q[2] /\ <<LangOrder[i], LangOrder[j]>> = <<LangOrder[q[1]], LangOrder[q[2]]>>
      BY <2>2 DEF Sooner
    <3>2. q[1] \in 1 .. n /\ q[2] \in 1 .. n /\ LangOrder[i] = LangOrder[q[1]] /\ LangOrder[j] = LangOrder[q[2]]
      BY <1>1, <3>1
    <3>3. i = q[1] /\ j = q[2]
      BY <1>1, <3>2
    <3> QED BY <3>1, <3>3
  <2> QED BY <2>1, <2>2
<1> HIDE DEF n
<1>4. Orders(Sooner, S)
  <2>1. \A x \in S : <<x, x>> \notin Sooner
    BY <1>1, <1>2, <1>3
  <2>2. ASSUME NEW x \in S, NEW y \in S, NEW z \in S, <<x, y>> \in Sooner, <<y, z>> \in Sooner
        PROVE  <<x, z>> \in Sooner
    <3>1. PICK i \in 1 .. n, j \in 1 .. n, k \in 1 .. n : x = LangOrder[i] /\ y = LangOrder[j] /\ z = LangOrder[k]
      BY <1>2
    <3>2. i < j /\ j < k
      BY <1>3, <2>2, <3>1
    <3>3. i < k
      BY <1>1, <3>2
    <3> QED BY <1>3, <3>1, <3>3
  <2>3. ASSUME NEW x \in S, NEW y \in S PROVE x = y \/ <<x, y>> \in Sooner \/ <<y, x>> \in Sooner
    <3>1. PICK i \in 1 .. n, j \in 1 .. n : x = LangOrder[i] /\ y = LangOrder[j]
      BY <1>2
    <3>2. i = j \/ i < j \/ j < i
      BY <1>1
    <3> QED BY <1>3, <3>1, <3>2
  <2> QED BY <2>1, <2>2, <2>3 DEF Orders
<1>5. IsFiniteSet(S)
  <2>1. IsFiniteSet(1 .. n)
    BY <1>1, FS_Interval
  <2>2. LangOrder \in Surjection(1 .. n, ToSet(LangOrder))
    <3>1. LangOrder = [i \in 1 .. n |-> LangOrder[i]]
      BY <1>1, SymbolAssumption DEF IsSeq
    <3>2. \A i \in 1 .. n : LangOrder[i] \in ToSet(LangOrder)
      BY <1>1 DEF ToSet
    <3>3. LangOrder \in [1 .. n -> ToSet(LangOrder)]
      BY <3>1, <3>2
    <3>4. \A x \in ToSet(LangOrder) : \E i \in 1 .. n : LangOrder[i] = x
      BY <1>1 DEF ToSet
    <3> QED BY <3>3, <3>4 DEF Surjection
  <2>3. IsFiniteSet(ToSet(LangOrder))
    BY <2>1, <2>2, FS_Surjection
  <2> QED BY <2>3, FS_Subset
<1> QED BY <1>4, <1>5

LEMMA IndexKeeps ==
    ASSUME SymbolInv, NEW bad \in SUBSET Windowed, NEW lost \in SUBSET bad, primaryIndex(bad, lost)
    PROVE  SymbolInv'
<1> DEFINE window == {f \in Windowed : symRows[f] # symTree[f]}
           L == {LangOf(f) : f \in {g \in window : Refined(g)}}
           langs == InOrder(L, Sooner)
           errs == SetToSeq(bad)
<1>1. /\ window # {} /\ bad \subseteq window
      /\ symUnits' = [f \in Windowed |->
                          IF f \in lost THEN <<>>
                          ELSE IF f \in window \ bad THEN Parsed(f, symTree[f]) ELSE symUnits[f]]
      /\ lsp' = [NoRefinement EXCEPT !.pc = "language", !.window = window, !.content = symTree,
                      !.langs = langs, !.astErrors = errs]
      /\ symTree' = symTree /\ symRows' = symRows /\ excused' = excused
  BY DEF primaryIndex
<1> HIDE DEF langs, errs
<1>2. /\ DOMAIN lsp' = LspFields /\ lsp'.pc = "language" /\ lsp'.window = window /\ lsp'.content = symTree
      /\ lsp'.langs = langs /\ lsp'.astErrors = errs /\ lsp'.errors = <<>> /\ lsp'.failures = 0
      /\ lsp'.empty = {} /\ lsp'.down = {} /\ lsp'.todo = <<>> /\ lsp'.blind = FALSE
  <2> HIDE DEF window
  <2> QED BY <1>1 DEF NoRefinement, LspFields
<1>3. IsSeq(errs) /\ ToSet(errs) = bad
  <2>1. IsFiniteSet(bad)
    BY SymbolAssumption, FS_Subset DEF Windowed
  <2> QED BY <2>1, SetInSeq DEF errs
<1>4. Once(langs) /\ ToSet(langs) = L
  <2>1. L \subseteq {SymFiles[f].lang : f \in DOMAIN SymFiles} \cap LspServers
    BY DEF Refined, LangOf, Windowed
  <2>2. L \subseteq ToSet(LangOrder)
    <3> HIDE DEF L
    <3> QED BY <2>1, SymbolAssumption
  <2> HIDE DEF L
  <2>3. IsFiniteSet(L) /\ Orders(Sooner, L)
    BY <2>2, LanguagesInOrder
  <2> QED BY <2>3, OnceInOrder DEF langs
<1>5. RefinedLangs' = L
  BY <1>2 DEF RefinedLangs, Refined, LangOf
<1>6. FilesOK'
  BY <1>1 DEF SymbolInv, FilesOK
<1>7. Visits'
  <2>1. \A f \in Windowed : symTree[f] \in Contents(f) /\ symTree[f] <= symTree[f]
    BY DEF SymbolInv, FilesOK, Contents
  <2>2. IsSeq(<<>>) /\ Len(<<>>) = 0 /\ 0 \in Nat /\ 0 <= 0
    BY DEF IsSeq
  <2> HIDE DEF L
  <2> QED BY <1>1, <1>2, <1>3, <1>4, <1>5, <2>1, <2>2 DEF Visits
<1>8. RowsHold'
  <2> SUFFICES ASSUME NEW f \in Windowed, symRows[f] = symTree[f]
               PROVE  /\ f \notin window /\ Partly(f, symTree[f], symUnits'[f])
                      /\ Wholly(f, symTree[f], symUnits'[f]) \/ f \in excused
    BY <1>1, <1>2 DEF RowsHold
  <2>1. f \notin window /\ symUnits'[f] = symUnits[f]
    BY <1>1
  <2> QED BY <2>1 DEF SymbolInv, RowsHold
<1>9. Progress'
  <2> SUFFICES ASSUME NEW f \in window \ bad
               PROVE  /\ Partly(f, symTree[f], symUnits'[f])
                      /\ symUnits'[f] = Parsed(f, symTree[f])
                      /\ ~Waiting(f)' => ~Refined(f)
    BY <1>2, <1>3 DEF Progress, Accounted, Refined, LangOf
  <2>1. symUnits'[f] = Parsed(f, symTree[f])
    BY <1>1
  <2>2. Partly(f, symTree[f], symUnits'[f])
    BY <2>1, WhollyIsPartly DEF SymbolInv, FilesOK
  <2>3. Refined(f) => LangOf(f) \in L
    OBVIOUS
  <2> QED BY <1>2, <1>4, <2>1, <2>2, <2>3 DEF Waiting
<1> QED BY <1>6, <1>7, <1>8, <1>9 DEF SymbolInv

LEMMA OpenKeeps ==
    ASSUME SymbolInv, NEW up \in BOOLEAN, NEW blind \in BOOLEAN, openLanguage(up, blind)
    PROVE  SymbolInv'
<1> DEFINE l == Head(lsp.langs)
           of == {f \in lsp.window : LangOf(f) = l}
           files == InOrder(of, {p \in Windowed \X Windowed : p[1] < p[2]})
<1>1. /\ lsp.pc = "language" /\ lsp.langs # <<>>
      /\ lsp' = IF ~up THEN [lsp EXCEPT !.langs = Tail(@), !.down = @ \cup {l}]
                ELSE [lsp EXCEPT !.pc = "file", !.blind = blind, !.symbols = 0, !.todo = files]
      /\ symTree' = symTree /\ symRows' = symRows /\ symUnits' = symUnits /\ excused' = excused
  BY DEF openLanguage
<1> HIDE DEF files
<1>2. /\ DOMAIN lsp = LspFields
      /\ Once(lsp.langs) /\ ToSet(lsp.langs) \subseteq RefinedLangs
  BY <1>1 DEF SymbolInv, Visits
<1>3. /\ l \in ToSet(lsp.langs) /\ Once(Tail(lsp.langs))
      /\ \A x : x \in ToSet(Tail(lsp.langs)) <=> x \in ToSet(lsp.langs) /\ x # l
  BY <1>1, <1>2, OnceTail
<1> HIDE DEF l
<1>4. /\ DOMAIN lsp' = LspFields
      /\ lsp'.window = lsp.window /\ lsp'.content = lsp.content /\ lsp'.astErrors = lsp.astErrors
      /\ lsp'.errors = lsp.errors /\ lsp'.failures = lsp.failures /\ lsp'.empty = lsp.empty
  <2>1. CASE ~up
    BY <1>1, <1>2, <2>1 DEF LspFields
  <2>2. CASE up
    BY <1>1, <1>2, <2>2 DEF LspFields
  <2> QED BY <2>1, <2>2
<1>5. RefinedLangs' = RefinedLangs
  BY <1>4 DEF RefinedLangs, Refined, LangOf
<1>6. FilesOK' /\ RowsHold'
  BY <1>1, <1>4 DEF SymbolInv, FilesOK, RowsHold
<1>7. CASE ~up
  <2>1. lsp'.pc = "language" /\ lsp'.langs = Tail(lsp.langs) /\ lsp'.down = lsp.down \cup {l}
    BY <1>1, <1>2, <1>7 DEF LspFields
  <2>2. Visits'
    <3>1. ToSet(Tail(lsp.langs)) \subseteq RefinedLangs
      BY <1>2, <1>3
    <3> QED BY <1>1, <1>3, <1>4, <1>5, <2>1, <3>1 DEF SymbolInv, Visits
  <2>3. Progress'
    <3> SUFFICES ASSUME NEW f \in lsp.window \ ToSet(lsp.astErrors)
                 PROVE  /\ Partly(f, lsp.content[f], symUnits[f])
                        /\ IF Waiting(f)' THEN symUnits[f] = Parsed(f, lsp.content[f]) ELSE Accounted(f)'
      BY <1>1, <1>4, <2>1 DEF Progress
    <3>1. /\ Partly(f, lsp.content[f], symUnits[f])
          /\ IF Waiting(f) THEN symUnits[f] = Parsed(f, lsp.content[f]) ELSE Accounted(f)
      BY <1>1 DEF SymbolInv, Progress
    <3>2. Waiting(f)' => Waiting(f)
      BY <1>1, <1>3, <2>1 DEF Waiting
    <3>3. ~Waiting(f)' => Accounted(f)'
      <4>1. CASE LangOf(f) = l
        BY <2>1, <4>1 DEF Accounted
      <4>2. CASE LangOf(f) # l /\ ~Waiting(f)'
        <5>1. ~Waiting(f)
          BY <1>1, <1>3, <2>1, <4>2 DEF Waiting
        <5> QED BY <1>1, <1>4, <2>1, <3>1, <5>1 DEF Accounted, Refined
      <4> QED BY <4>1, <4>2
    <3> QED BY <3>1, <3>2, <3>3
  <2> QED BY <1>6, <2>2, <2>3 DEF SymbolInv
<1>8. CASE up
  <2>1. /\ lsp'.pc = "file" /\ lsp'.langs = lsp.langs /\ lsp'.todo = files /\ lsp'.symbols = 0
        /\ lsp'.down = lsp.down
    BY <1>1, <1>2, <1>8 DEF LspFields
  <2>2. Once(files) /\ ToSet(files) = of
    <3> DEFINE less == {p \in Windowed \X Windowed : p[1] < p[2]}
    <3>1. IsFiniteSet(of) /\ of \subseteq Nat /\ of \subseteq Windowed
      <4>1. of \subseteq Windowed
        BY DEF SymbolInv, Visits
      <4> HIDE DEF of
      <4> QED BY <4>1, SymbolAssumption, FS_Subset DEF Windowed
    <3>2. \A a, b \in of : <<a, b>> \in less <=> a < b
      BY <3>1
    <3>3. \A a \in of : a \in Int
      BY <3>1
    <3> HIDE DEF of, less
    <3>4. Orders(less, of)
      BY <3>2, <3>3 DEF Orders
    <3> QED BY <3>1, <3>4, OnceInOrder DEF files, less
  <2>3. Visits'
    BY <1>1, <1>2, <1>4, <1>5, <2>1, <2>2 DEF SymbolInv, Visits, l
  <2>4. Progress'
    <3> SUFFICES ASSUME NEW f \in lsp.window \ ToSet(lsp.astErrors)
                 PROVE  /\ Partly(f, lsp.content[f], symUnits[f])
                        /\ IF Waiting(f)' THEN symUnits[f] = Parsed(f, lsp.content[f]) ELSE Accounted(f)'
      BY <1>1, <1>4, <2>1 DEF Progress
    <3>1. /\ Partly(f, lsp.content[f], symUnits[f])
          /\ IF Waiting(f) THEN symUnits[f] = Parsed(f, lsp.content[f]) ELSE Accounted(f)
      BY <1>1 DEF SymbolInv, Progress
    <3>2. Waiting(f)' <=> Waiting(f)
      <4>1. LangOf(f) = l => f \in of
        OBVIOUS
      <4> QED BY <1>1, <2>1, <2>2, <4>1 DEF Waiting, l, LangOf
    <3>3. Accounted(f) => Accounted(f)'
      BY <1>1, <1>4, <2>1 DEF Accounted, Refined
    <3> QED BY <3>1, <3>2, <3>3
  <2> QED BY <1>6, <2>3, <2>4 DEF SymbolInv
<1> QED BY <1>7, <1>8

(* What the units of one file come to, and the errors: refineFile's two ends.    *)
LEMMA RefineKeeps == SymbolInv /\ refineFile => SymbolInv'
<1> SUFFICES ASSUME SymbolInv, refineFile,
                    NEW f, f = Head(lsp.todo), NEW v, v = lsp.content[f]
             PROVE  SymbolInv'
  OBVIOUS
<1> DEFINE symbols == IF lsp.blind THEN <<>> ELSE Reported(f, v)
           new == missed(symbols, symUnits[f])
<1>1. /\ lsp.pc = "file" /\ lsp.todo # <<>>
      /\ symTree' = symTree /\ symRows' = symRows /\ excused' = excused
      /\ \/ /\ \E k \in {0} \cup DOMAIN new : symUnits' = [symUnits EXCEPT ![f] = @ \o SubSeq(new, 1, k - 1)]
            /\ lsp' = [lsp EXCEPT !.todo = Tail(@), !.failures = @ + 1, !.errors = Append(@, f)]
         \/ /\ symUnits' = [symUnits EXCEPT ![f] = @ \o new]
            /\ lsp' = [lsp EXCEPT !.todo = Tail(@), !.symbols = @ + Len(symbols)]
  BY DEF refineFile, FileFailed
<1>2. /\ DOMAIN lsp = LspFields /\ lsp.window \subseteq Windowed /\ Once(lsp.todo)
      /\ \A g \in ToSet(lsp.todo) : g \in lsp.window /\ LangOf(g) = Head(lsp.langs)
      /\ Once(lsp.langs) /\ lsp.langs # <<>> /\ (lsp.blind => lsp.symbols = 0)
      /\ IsSeq(lsp.errors) /\ lsp.failures \in Nat /\ Len(lsp.errors) <= lsp.failures
  BY <1>1 DEF SymbolInv, Visits
<1>3. /\ f \in ToSet(lsp.todo) /\ Once(Tail(lsp.todo))
      /\ \A x : x \in ToSet(Tail(lsp.todo)) <=> x \in ToSet(lsp.todo) /\ x # f
  BY <1>1, <1>2, OnceTail
<1>4. f \in lsp.window /\ f \in Windowed /\ LangOf(f) = Head(lsp.langs) /\ v \in Contents(f)
  <2>1. f \in lsp.window /\ f \in Windowed
    BY <1>2, <1>3
  <2> QED BY <1>1, <1>2, <1>3, <2>1 DEF SymbolInv, Visits
<1>5. Waiting(f)
  <2>1. Head(lsp.langs) \in ToSet(lsp.langs)
    BY <1>2, OnceTail
  <2> QED BY <1>3, <1>4, <2>1 DEF Waiting
<1>6. /\ DOMAIN lsp' = LspFields /\ lsp'.pc = "file" /\ lsp'.window = lsp.window /\ lsp'.content = lsp.content
      /\ lsp'.langs = lsp.langs /\ lsp'.astErrors = lsp.astErrors /\ lsp'.down = lsp.down
      /\ lsp'.empty = lsp.empty /\ lsp'.blind = lsp.blind /\ lsp'.todo = Tail(lsp.todo)
      /\ \/ lsp'.errors = Append(lsp.errors, f) /\ lsp'.failures = lsp.failures + 1 /\ lsp'.symbols = lsp.symbols
         \/ lsp'.errors = lsp.errors /\ lsp'.failures = lsp.failures /\ lsp'.symbols = lsp.symbols + Len(symbols)
  <2> HIDE DEF symbols, new
  <2>1. CASE lsp' = [lsp EXCEPT !.todo = Tail(@), !.failures = @ + 1, !.errors = Append(@, f)]
    BY <1>1, <1>2, <2>1 DEF LspFields
  <2>2. CASE lsp' = [lsp EXCEPT !.todo = Tail(@), !.symbols = @ + Len(symbols)]
    BY <1>1, <1>2, <2>2 DEF LspFields
  <2> QED BY <1>1, <2>1, <2>2
<1>7. /\ DOMAIN symUnits' = Windowed /\ \A g \in Windowed \ {f} : symUnits'[g] = symUnits[g]
      /\ \/ (\E k \in {0} \cup DOMAIN new : symUnits'[f] = symUnits[f] \o SubSeq(new, 1, k - 1))
               /\ lsp'.errors = Append(lsp.errors, f)
         \/ symUnits'[f] = symUnits[f] \o new
  <2>1. DOMAIN symUnits = Windowed
    BY DEF SymbolInv, FilesOK
  <2> HIDE DEF symbols, new
  <2>2. CASE \E k \in {0} \cup DOMAIN new : symUnits' = [symUnits EXCEPT ![f] = @ \o SubSeq(new, 1, k - 1)]
    BY <1>2, <1>1, <1>4, <1>6, <2>1, <2>2 DEF LspFields
  <2>3. CASE symUnits' = [symUnits EXCEPT ![f] = @ \o new]
    BY <1>4, <2>1, <2>3
  <2> QED BY <1>1, <2>2, <2>3
<1>8. /\ IsSeq(lsp'.errors) /\ lsp'.failures \in Nat /\ Len(lsp'.errors) <= lsp'.failures
      /\ \A x \in ToSet(lsp.errors) : x \in ToSet(lsp'.errors)
      /\ lsp'.errors = Append(lsp.errors, f) => f \in ToSet(lsp'.errors)
  <2> DEFINE e == Append(lsp.errors, f)
             old == lsp.errors
  <2>0. e = Append(old, f) /\ IsSeq(old)
    BY <1>2
  <2> HIDE DEF e, old, symbols, new
  <2>1. /\ IsSeq(e) /\ Len(e) = Len(old) + 1 /\ Len(old) \in Nat
        /\ \A y : y \in ToSet(e) <=> y \in ToSet(old) \/ y = f
    <3>1. IsSeq(e) /\ Len(e) = Len(old) + 1 /\ Len(old) \in Nat /\ Adds(e, old, f)
      BY <2>0, Appending
    <3> QED BY <3>1 DEF Adds
  <2>2. old = lsp.errors /\ (lsp'.errors = e \/ lsp'.errors = old)
    BY <1>6 DEF e, old
  <2>3. CASE lsp'.errors = e /\ lsp'.failures = lsp.failures + 1
    BY <1>2, <2>1, <2>2, <2>3
  <2>4. CASE lsp'.errors = lsp.errors /\ lsp'.failures = lsp.failures
    BY <1>2, <2>1, <2>4 DEF e
  <2> QED BY <1>6, <2>1, <2>3, <2>4 DEF e, old
<1>9. lsp.blind => lsp'.symbols = 0
  <2> SUFFICES ASSUME lsp.blind PROVE lsp'.symbols = 0
    OBVIOUS
  <2>1. Len(symbols) = 0
    OBVIOUS
  <2> HIDE DEF symbols
  <2> QED BY <1>2, <1>6, <2>1
<1>10. FilesOK'
  BY <1>1, <1>7 DEF SymbolInv, FilesOK
<1>11. RowsHold'
  <2> SUFFICES ASSUME NEW g \in Windowed, symRows[g] = symTree[g]
               PROVE  /\ g \notin lsp.window
                      /\ Partly(g, symTree[g], symUnits'[g])
                      /\ Wholly(g, symTree[g], symUnits'[g]) \/ g \in excused
    <3> HIDE DEF new, symbols
    <3> QED BY <1>1, <1>6 DEF RowsHold
  <2>1. g \notin lsp.window
    BY DEF SymbolInv, RowsHold
  <2>2. symUnits'[g] = symUnits[g]
    <3> HIDE DEF new, symbols
    <3> QED BY <1>4, <1>7, <2>1
  <2> QED BY <2>1, <2>2 DEF SymbolInv, RowsHold
<1>12. Visits'
  <2>1. RefinedLangs' = RefinedLangs
    BY <1>6 DEF RefinedLangs, Refined, LangOf
  <2> HIDE DEF symbols
  <2> QED BY <1>1, <1>2, <1>3, <1>6, <1>8, <1>9, <2>1 DEF SymbolInv, Visits
<1>13. Progress'
  <2> SUFFICES ASSUME NEW g \in lsp.window \ ToSet(lsp.astErrors)
               PROVE  /\ Partly(g, lsp.content[g], symUnits'[g])
                      /\ IF Waiting(g)' THEN symUnits'[g] = Parsed(g, lsp.content[g]) ELSE Accounted(g)'
    <3> HIDE DEF symbols
    <3> QED BY <1>6 DEF Progress
  <2>1. /\ Partly(g, lsp.content[g], symUnits[g])
        /\ IF Waiting(g) THEN symUnits[g] = Parsed(g, lsp.content[g]) ELSE Accounted(g)
    BY <1>1 DEF SymbolInv, Progress
  <2>2. CASE g # f
    <3>1. symUnits'[g] = symUnits[g]
      BY <1>2, <1>7, <2>2
    <3>2. Waiting(g)' <=> Waiting(g)
      <4> HIDE DEF symbols
      <4> QED BY <1>1, <1>3, <1>6, <2>2 DEF Waiting
    <3>3. Accounted(g) => Accounted(g)'
      <4> HIDE DEF symbols
      <4> QED BY <1>1, <1>6, <1>8, <3>1 DEF Accounted, Refined
    <3> QED BY <2>1, <3>1, <3>2, <3>3
  <2>3. CASE g = f
    <3>1. symUnits[f] = Parsed(f, v)
      BY <1>5, <2>1, <2>3
    <3>2. ~Waiting(f)'
      <4> HIDE DEF symbols
      <4> QED BY <1>3, <1>4, <1>6 DEF Waiting, LangOf
    <3>3. Partly(f, v, symUnits'[f]) /\ Accounted(f)'
      <4>1. CASE lsp.blind
        <5>1. new = <<>>
          <6>1. symbols = <<>> /\ IsSeq(<<>>) /\ ToSet(<<>>) = {}
            BY <4>1 DEF IsSeq, ToSet
          <6> DEFINE u == symUnits[f]
                     e == <<>>
          <6>2. new = missed(e, u) /\ IsSeq(e) /\ {UnitFor(x) : x \in ToSet(e)} = {}
            BY <6>1
          <6> HIDE DEF e, u, new
          <6>3. new \in Seq({UnitFor(x) : x \in ToSet(e)})
            BY <6>2, MissedIs
          <6>4. new \in Seq({})
            BY <6>2, <6>3
          <6> QED BY <6>4
        <5>2. symUnits'[f] = symUnits[f] \o <<>>
          <6> HIDE DEF new, symbols
          <6>1. \A k \in {0} \cup DOMAIN new : k = 0
            BY <5>1
          <6>2. SubSeq(new, 1, 0 - 1) = <<>>
            BY SubSeqEmpty
          <6> QED BY <1>7, <5>1, <6>1, <6>2
        <5>3. symUnits'[f] = Parsed(f, v)
          <6>1. Parsed(f, v) \in Seq({[name |-> x, qualified |-> <<>>, by |-> "ast"] : x \in ToSet(SymFiles[f].parsed[v])})
            BY <1>4, ParsedIs
          <6> QED BY <3>1, <5>2, <6>1
        <5>4. Partly(f, v, symUnits'[f])
          <6> QED BY <1>4, <5>3, WhollyIsPartly
        <5>5. Accounted(f)'
          <6> HIDE DEF symbols
          <6> QED BY <1>4, <1>6, <4>1 DEF Accounted, LangOf
        <5> QED BY <5>4, <5>5
      <4>2. CASE ~lsp.blind
        <5>1. new = Told(f, v)
          BY <3>1, <4>2 DEF Told
        <5> HIDE DEF new, symbols
        <5>2. Len(new) \in Nat /\ DOMAIN new = 1 .. Len(new)
          BY <1>4, <5>1, ToldIs
        <5>3. CASE symUnits'[f] = symUnits[f] \o new
          <6>1. Wholly(f, v, symUnits'[f])
            BY <3>1, <5>1, <5>3 DEF Wholly
          <6>2. Partly(f, v, symUnits'[f])
            BY <1>4, <6>1, WhollyIsPartly
          <6> QED BY <1>6, <6>1, <6>2 DEF Accounted
        <5>4. CASE /\ \E k \in {0} \cup DOMAIN new : symUnits'[f] = symUnits[f] \o SubSeq(new, 1, k - 1)
                   /\ lsp'.errors = Append(lsp.errors, f)
          <6>1. PICK k \in {0} \cup DOMAIN new : symUnits'[f] = symUnits[f] \o SubSeq(new, 1, k - 1)
            BY <5>4
          <6>2. \E j \in 0 .. Len(new) : SubSeq(new, 1, k - 1) = SubSeq(new, 1, j)
            <7>1. CASE k = 0
              <8>1. SubSeq(new, 1, k - 1) = <<>> /\ SubSeq(new, 1, 0) = <<>> /\ 0 \in 0 .. Len(new)
                BY <5>2, <7>1, SubSeqEmpty
              <8> QED BY <8>1
            <7>2. CASE k \in DOMAIN new
              <8>1. k - 1 \in 0 .. Len(new)
                BY <5>2, <7>2
              <8> QED BY <8>1
            <7> QED BY <7>1, <7>2
          <6>3. Partly(f, v, symUnits'[f])
            BY <3>1, <5>1, <6>1, <6>2 DEF Partly
          <6>4. Accounted(f)'
            BY <1>8, <5>4 DEF Accounted
          <6> QED BY <6>3, <6>4
        <5> QED BY <1>7, <5>3, <5>4
      <4> QED BY <4>1, <4>2
    <3> QED BY <2>3, <3>2, <3>3
  <2> QED BY <2>2, <2>3
<1> QED BY <1>10, <1>11, <1>12, <1>13 DEF SymbolInv

LEMMA CloseKeeps == SymbolInv /\ closeLanguage => SymbolInv'
<1> SUFFICES ASSUME SymbolInv, closeLanguage, NEW l, l = Head(lsp.langs) PROVE SymbolInv'
  OBVIOUS
<1> DEFINE of == {f \in lsp.window : LangOf(f) = l}
           closed == [lsp EXCEPT !.pc = "language", !.langs = Tail(@)]
           c == Cardinality(of)
<1>1. /\ lsp.pc = "file" /\ lsp.todo = <<>>
      /\ lsp' = IF lsp.symbols > 0 THEN closed
                ELSE [closed EXCEPT !.failures = @ + c, !.errors = Append(@, Unnamed), !.empty = @ \cup {l}]
      /\ symTree' = symTree /\ symUnits' = symUnits /\ symRows' = symRows /\ excused' = excused
  BY DEF closeLanguage
<1>2. /\ DOMAIN lsp = LspFields /\ lsp.langs # <<>> /\ Once(lsp.langs) /\ ToSet(lsp.langs) \subseteq RefinedLangs
      /\ lsp.window \subseteq Windowed /\ (lsp.blind => lsp.symbols = 0)
      /\ IsSeq(lsp.errors) /\ lsp.failures \in Nat /\ Len(lsp.errors) <= lsp.failures
  BY <1>1 DEF SymbolInv, Visits
<1>3. /\ l \in ToSet(lsp.langs) /\ Once(Tail(lsp.langs))
      /\ \A x : x \in ToSet(Tail(lsp.langs)) <=> x \in ToSet(lsp.langs) /\ x # l
  BY <1>2, OnceTail
<1>4. c \in Nat /\ c >= 1
  <2>1. IsFiniteSet(of)
    <3>1. of \subseteq Windowed
      BY <1>2
    <3> HIDE DEF of
    <3> QED BY <3>1, SymbolAssumption, FS_Subset DEF Windowed
  <2>2. of # {}
    BY <1>2, <1>3 DEF RefinedLangs
  <2> HIDE DEF of
  <2>3. Cardinality(of) \in Nat /\ Cardinality(of) # 0
    BY <2>1, <2>2, FS_CardinalityType, FS_EmptySet
  <2> QED BY <2>3
<1> HIDE DEF of, c
<1>5. /\ DOMAIN lsp' = LspFields /\ lsp'.pc = "language" /\ lsp'.langs = Tail(lsp.langs)
      /\ lsp'.window = lsp.window /\ lsp'.content = lsp.content
      /\ lsp'.astErrors = lsp.astErrors /\ lsp'.down = lsp.down
      /\ \/ /\ lsp.symbols > 0 /\ lsp'.errors = lsp.errors /\ lsp'.failures = lsp.failures /\ lsp'.empty = lsp.empty
         \/ /\ lsp'.errors = Append(lsp.errors, Unnamed) /\ lsp'.failures = lsp.failures + c
            /\ lsp'.empty = lsp.empty \cup {l}
  <2>1. /\ DOMAIN closed = LspFields /\ closed.pc = "language" /\ closed.langs = Tail(lsp.langs)
        /\ closed.window = lsp.window /\ closed.content = lsp.content
        /\ closed.astErrors = lsp.astErrors /\ closed.down = lsp.down
        /\ closed.errors = lsp.errors /\ closed.failures = lsp.failures /\ closed.empty = lsp.empty
    BY <1>2 DEF LspFields
  <2> HIDE DEF closed
  <2>2. CASE lsp.symbols > 0
    BY <1>1, <2>1, <2>2
  <2>3. CASE ~(lsp.symbols > 0)
    BY <1>1, <2>1, <2>3 DEF LspFields
  <2> QED BY <2>2, <2>3
<1> HIDE DEF closed
<1>6. /\ IsSeq(lsp'.errors) /\ lsp'.failures \in Nat /\ Len(lsp'.errors) <= lsp'.failures
      /\ \A x \in ToSet(lsp.errors) : x \in ToSet(lsp'.errors)
      /\ lsp'.empty # {} => Unnamed \in ToSet(lsp'.errors)
  <2> DEFINE e == Append(lsp.errors, Unnamed)
             old == lsp.errors
  <2>1. e = Append(old, Unnamed) /\ IsSeq(old)
    BY <1>2
  <2> HIDE DEF e, old
  <2>2. IsSeq(e) /\ Len(e) = Len(old) + 1 /\ Len(old) \in Nat /\ Adds(e, old, Unnamed)
    BY <2>1, Appending
  <2>3. CASE lsp'.errors = e /\ lsp'.failures = lsp.failures + c
    BY <1>2, <1>4, <2>2, <2>3 DEF Adds, old
  <2>4. CASE lsp'.errors = lsp.errors /\ lsp'.failures = lsp.failures /\ lsp'.empty = lsp.empty
    BY <1>1, <1>2, <2>4 DEF SymbolInv, Visits
  <2> QED BY <1>5, <2>3, <2>4 DEF e
<1>7. FilesOK' /\ RowsHold'
  BY <1>1, <1>5 DEF SymbolInv, FilesOK, RowsHold
<1>8. Visits'
  <2>1. RefinedLangs' = RefinedLangs
    BY <1>5 DEF RefinedLangs, Refined, LangOf
  <2>2. ToSet(Tail(lsp.langs)) \subseteq RefinedLangs
    BY <1>2, <1>3
  <2> QED BY <1>1, <1>3, <1>5, <1>6, <2>1, <2>2 DEF SymbolInv, Visits
<1>9. Progress'
  <2> SUFFICES ASSUME NEW f \in lsp.window \ ToSet(lsp.astErrors)
               PROVE  /\ Partly(f, lsp.content[f], symUnits[f])
                      /\ IF Waiting(f)' THEN symUnits[f] = Parsed(f, lsp.content[f]) ELSE Accounted(f)'
    BY <1>1, <1>5 DEF Progress
  <2>1. /\ Partly(f, lsp.content[f], symUnits[f])
        /\ IF Waiting(f) THEN symUnits[f] = Parsed(f, lsp.content[f]) ELSE Accounted(f)
    BY <1>1 DEF SymbolInv, Progress
  <2>2. ToSet(lsp.todo) = {}
    BY <1>1 DEF ToSet
  <2>3. CASE LangOf(f) = l
    <3>1. ~Waiting(f) /\ ~Waiting(f)'
      BY <1>1, <1>3, <1>5, <2>2, <2>3 DEF Waiting, LangOf
    <3>2. Accounted(f)
      BY <2>1, <3>1
    <3>3. lsp.blind => LangOf(f) \in lsp'.empty
      BY <1>2, <1>5, <2>3
    <3>4. Accounted(f)'
      BY <1>1, <1>5, <1>6, <3>2, <3>3 DEF Accounted, Refined, LangOf
    <3> QED BY <2>1, <3>1, <3>4
  <2>4. CASE LangOf(f) # l
    <3>1. Waiting(f)' <=> Waiting(f)
      BY <1>1, <1>3, <1>5, <2>4 DEF Waiting, LangOf
    <3>2. Accounted(f) => Accounted(f)'
      BY <1>1, <1>5, <1>6, <2>4 DEF Accounted, Refined, LangOf
    <3> QED BY <2>1, <3>1, <3>2
  <2> QED BY <2>3, <2>4
<1> QED BY <1>7, <1>8, <1>9 DEF SymbolInv

(* A sequence of anything is one of its own elements, and of any set with them.   *)
LEMMA OwnElements ==
    ASSUME NEW s, IsSeq(s), NEW X, ToSet(s) \subseteq X
    PROVE  s \in Seq(X) /\ s \o <<>> = s
<1> DEFINE Y == ToSet(s)
           n == Len(s)
<1>1. s \in Seq(Y)
  BY DEF IsSeq
<1>2. n \in Nat /\ s \in [1 .. n -> Y] /\ Y \subseteq X
  <2> HIDE DEF Y
  <2>1. n \in Nat /\ s \in [1 .. n -> Y]
    BY <1>1
  <2> QED BY <2>1 DEF Y
<1> HIDE DEF Y, n
<1>3. s \in [1 .. n -> X]
  BY <1>2
<1>4. \A j \in Nat : \A q \in [1 .. j -> X] : q \in Seq(X)
  OBVIOUS
<1>5. s \in Seq(X)
  BY <1>2, <1>3, <1>4
<1> QED BY <1>5

(* A failure without a name leaves fewer attributable entries than failures.     *)
LEMMA Unattributed ==
    ASSUME NEW a, IsSeq(a), NEW b, IsSeq(b), Unnamed \in ToSet(b), Unnamed \notin lsp.window,
           NEW errs, errs = a \o b, NEW n \in Nat, Len(b) <= n
    PROVE  attributeFailures(errs) < Len(a) + n
<1> DEFINE X == ToSet(a) \cup ToSet(b)
           k == Len(a)
           m == Len(b)
           S == {i \in DOMAIN errs : errs[i] \in lsp.window}
<1>1. k \in Nat /\ m \in Nat /\ DOMAIN a = 1 .. k /\ DOMAIN b = 1 .. m /\ DOMAIN errs = 1 .. k + m
      /\ ToSet(errs) = ToSet(a) \cup ToSet(b)
  <2>1. a \in Seq(ToSet(a)) /\ b \in Seq(ToSet(b))
    BY DEF IsSeq
  <2>2. k \in Nat /\ m \in Nat /\ DOMAIN a = 1 .. k /\ DOMAIN b = 1 .. m
        /\ a \in [1 .. k -> X] /\ b \in [1 .. m -> X]
    BY <2>1
  <2>3. a \in Seq(X) /\ b \in Seq(X)
    <3>1. ToSet(a) \subseteq X /\ ToSet(b) \subseteq X
      OBVIOUS
    <3> HIDE DEF X
    <3> QED BY <3>1, OwnElements
  <2> HIDE DEF X, k, m
  <2>4. errs \in Seq(X) /\ Len(errs) = k + m
    BY <2>3 DEF k, m
  <2>5. ToSet(errs) = ToSet(a) \cup ToSet(b)
    BY <2>3, JoinedSets
  <2> QED BY <2>2, <2>4, <2>5
<1>2. PICK j \in 1 .. k + m : errs[j] = Unnamed
  BY <1>1 DEF ToSet
<1> HIDE DEF k, m
<1>3. S \in SUBSET ((1 .. k + m) \ {j})
  BY <1>1, <1>2
<1>4. attributeFailures(errs) = Cardinality(S)
  BY DEF attributeFailures
<1> HIDE DEF S
<1>5. IsFiniteSet(1 .. k + m) /\ Cardinality(1 .. k + m) = k + m
  <2> DEFINE N == k + m
  <2>1. N \in Nat
    BY <1>1
  <2> HIDE DEF N
  <2>2. IsFiniteSet(1 .. N) /\ Cardinality(1 .. N) = N
    BY <2>1, FS_Interval
  <2> QED BY <2>2 DEF N
<1>6. Cardinality(S) <= (k + m) - 1 /\ Cardinality(S) \in Nat
  <2> DEFINE I == 1 .. k + m
             J == I \ {j}
  <2>1. j \in I /\ IsFiniteSet(I) /\ S \in SUBSET J /\ Cardinality(I) = k + m
    BY <1>2, <1>3, <1>5
  <2> HIDE DEF I
  <2>2. IsFiniteSet(J) /\ Cardinality(J) = Cardinality(I) - 1
    BY <2>1, FS_RemoveElement
  <2> HIDE DEF J
  <2>3. IsFiniteSet(S) /\ Cardinality(S) <= Cardinality(J)
    BY <2>1, <2>2, FS_Subset
  <2> QED BY <2>1, <2>2, <2>3, FS_CardinalityType
<1> QED BY <1>1, <1>4, <1>6 DEF k, m

LEMMA StoreKeeps == SymbolInv /\ storeWindowRows => SymbolInv'
<1> SUFFICES ASSUME SymbolInv, storeWindowRows,
                    NEW errs, errs = lsp.astErrors \o (IF Swallowed THEN <<>> ELSE lsp.errors),
                    NEW failures, failures = Len(lsp.astErrors) + (IF Swallowed THEN 0 ELSE lsp.failures),
                    NEW ok, ok = lsp.window \ failedFiles(errs, failures)
             PROVE  SymbolInv'
  OBVIOUS
<1>1. /\ lsp.pc = "language" /\ lsp.langs = <<>>
      /\ symRows' = [f \in Windowed |-> IF f \in ok THEN lsp.content[f] ELSE symRows[f]]
      /\ excused' = (excused \ lsp.window) \cup
                       {f \in lsp.window : Swallowed \/ ~Refined(f) \/ LangOf(f) \in lsp.down}
      /\ lsp' = NoRefinement /\ symTree' = symTree /\ symUnits' = symUnits
  BY DEF storeWindowRows
<1>2. lsp'.pc = "idle" /\ lsp'.window = {} /\ DOMAIN lsp' = LspFields
  BY <1>1 DEF NoRefinement, LspFields
<1>3. /\ lsp.window \subseteq Windowed
      /\ \A f \in Windowed : lsp.content[f] \in Contents(f) /\ lsp.content[f] <= symTree[f]
      /\ IsSeq(lsp.astErrors) /\ IsSeq(lsp.errors) /\ lsp.failures \in Nat /\ Len(lsp.errors) <= lsp.failures
      /\ lsp.empty # {} => Unnamed \in ToSet(lsp.errors)
  BY <1>1 DEF SymbolInv, Visits
<1>4. Unnamed \notin lsp.window
  BY <1>3, SymbolAssumption DEF Unnamed, Windowed
<1>5. FilesOK'
  <2>1. \A f \in Windowed : lsp.content[f] \in Nat
    BY <1>3 DEF Contents
  <2> QED BY <1>1, <1>3, <2>1 DEF SymbolInv, FilesOK
<1>6. ASSUME NEW f \in ok
      PROVE  /\ f \in lsp.window /\ f \notin ToSet(lsp.astErrors)
             /\ ~Swallowed => f \notin ToSet(lsp.errors) /\ lsp.empty = {}
  <2>1. f \in lsp.window /\ ~(attributeFailures(errs) < failures) /\ ~ \E i \in DOMAIN errs : errs[i] = f
    BY <1>6 DEF failedFiles
  <2>2. f \notin ToSet(errs)
    BY <2>1 DEF ToSet
  <2>3. CASE Swallowed
    <3>1. errs = lsp.astErrors
      <4> DEFINE a == lsp.astErrors
                 X == ToSet(a)
      <4>1. IsSeq(a) /\ errs = a \o <<>> /\ ToSet(a) \subseteq X
        BY <1>3, <2>3
      <4> HIDE DEF a, X
      <4>2. a \o <<>> = a
        BY <4>1, OwnElements
      <4> QED BY <4>1, <4>2 DEF a
    <3> QED BY <2>1, <2>2, <2>3, <3>1
  <2>4. CASE ~Swallowed
    <3> DEFINE a == lsp.astErrors
               b == lsp.errors
               X == ToSet(a) \cup ToSet(b)
               n == lsp.failures
    <3>1. errs = a \o b /\ failures = Len(a) + n /\ IsSeq(a) /\ IsSeq(b) /\ n \in Nat /\ Len(b) <= n
      BY <1>3, <2>4
    <3> HIDE DEF a, b, n
    <3>2. ToSet(errs) = ToSet(a) \cup ToSet(b)
      <4>1. a \in Seq(X) /\ b \in Seq(X)
        <5>1. ToSet(a) \subseteq X /\ ToSet(b) \subseteq X
          OBVIOUS
        <5> HIDE DEF X
        <5> QED BY <3>1, <5>1, OwnElements
      <4> HIDE DEF X
      <4>2. ToSet(a \o b) = ToSet(a) \cup ToSet(b)
        BY <4>1, JoinedSets
      <4> QED BY <3>1, <4>2
    <3>3. lsp.empty = {}
      <4> SUFFICES ASSUME lsp.empty # {} PROVE FALSE
        OBVIOUS
      <4>1. Unnamed \in ToSet(b)
        BY <1>3 DEF b
      <4>2. attributeFailures(errs) < Len(a) + n
        BY <1>4, <3>1, <4>1, Unattributed
      <4> QED BY <2>1, <3>1, <4>2
    <3> QED BY <2>1, <2>2, <2>4, <3>2, <3>3 DEF a, b
  <2> QED BY <2>3, <2>4
<1>7. RowsHold'
  <2> SUFFICES ASSUME NEW f \in Windowed, symRows'[f] = symTree[f]
               PROVE  /\ Partly(f, symTree[f], symUnits[f])
                      /\ Wholly(f, symTree[f], symUnits[f]) \/ f \in excused'
    BY <1>1, <1>2 DEF RowsHold
  <2>1. CASE f \in ok
    <3>1. lsp.content[f] = symTree[f]
      BY <1>1, <2>1
    <3>2. f \in lsp.window \ ToSet(lsp.astErrors)
      BY <1>6, <2>1
    <3>3. ToSet(lsp.langs) = {}
      BY <1>1 DEF ToSet
    <3>4. ~Waiting(f)
      BY <3>3 DEF Waiting
    <3>5. Partly(f, symTree[f], symUnits[f]) /\ Accounted(f)
      BY <1>1, <3>1, <3>2, <3>4 DEF SymbolInv, Progress
    <3>6. CASE Swallowed
      BY <1>1, <3>2, <3>5, <3>6
    <3>7. CASE ~Swallowed
      <4>1. f \notin ToSet(lsp.errors) /\ lsp.empty = {}
        BY <1>6, <2>1, <3>7
      <4>2. Wholly(f, symTree[f], symUnits[f]) \/ LangOf(f) \in lsp.down \/ ~Refined(f)
        BY <1>1, <3>1, <3>5, <4>1 DEF Accounted
      <4> QED BY <1>1, <3>2, <3>5, <4>2
    <3> QED BY <3>6, <3>7
  <2>2. CASE f \notin ok
    <3>1. symRows[f] = symTree[f]
      BY <1>1, <2>2
    <3>2. /\ f \notin lsp.window /\ Partly(f, symTree[f], symUnits[f])
          /\ Wholly(f, symTree[f], symUnits[f]) \/ f \in excused
      BY <3>1 DEF SymbolInv, RowsHold
    <3> QED BY <1>1, <3>2
  <2> QED BY <2>1, <2>2
<1>8. Visits' /\ Progress'
  BY <1>2 DEF Visits, Progress
<1> QED BY <1>5, <1>7, <1>8 DEF SymbolInv

LEMMA SymbolKeeps == SymbolInv /\ [SymbolNext]_symbolVars => SymbolInv'
<1> SUFFICES ASSUME SymbolInv, [SymbolNext]_symbolVars PROVE SymbolInv'
  OBVIOUS
<1>1. CASE \E f \in Windowed : EditSymbols(f)
  BY <1>1, EditKeeps
<1>2. CASE \E bad \in SUBSET Windowed : \E lost \in SUBSET bad : primaryIndex(bad, lost)
  BY <1>2, IndexKeeps
<1>3. CASE openLanguage(FALSE, FALSE) \/ openLanguage(TRUE, TRUE) \/ openLanguage(TRUE, FALSE)
  <2>1. FALSE \in BOOLEAN /\ TRUE \in BOOLEAN
    OBVIOUS
  <2> QED BY <1>3, <2>1, OpenKeeps, Zenon
<1>4. CASE refineFile \/ closeLanguage \/ storeWindowRows
  BY <1>4, RefineKeeps, CloseKeeps, StoreKeeps
<1>5. CASE UNCHANGED symbolVars
  <2>1. /\ symTree' = symTree /\ symUnits' = symUnits /\ symRows' = symRows
        /\ lsp' = lsp /\ excused' = excused
    BY <1>5 DEF symbolVars
  <2>2. FilesOK' /\ RowsHold'
    BY <2>1 DEF SymbolInv, FilesOK, RowsHold
  <2>3. Visits' /\ Progress'
    BY <2>1 DEF SymbolInv, Visits, Progress, RefinedLangs, Waiting, Accounted
  <2> QED BY <2>2, <2>3 DEF SymbolInv
<1> QED BY <1>1, <1>2, <1>3, <1>4, <1>5 DEF SymbolNext

(* RefineRepo takes a target back only if the references of no definition    *)
(* support it, and points an edge only at a definition with a reference near *)
(* it: for any lines, tolerance, budget and answers about the definitions of *)
(* the module.  chained.Index and the attribution of its failures leave,     *)
(* behind a row that says a file is current, every unit its parser and its   *)
(* server gave, unless the file is excused: for any files, languages,        *)
(* answers, edits, passes and failures.                                      *)
THEOREM RefinersAreSound == RefinersSpec => []RefinersSound
<1> DEFINE next == \/ RefinerNext /\ UNCHANGED symbolVars
                   \/ SymbolNext /\ UNCHANGED refinerVars
           inv == RefinerInv /\ SymbolInv
<1>1. RefinerInit /\ SymbolInit => inv
  BY RefinerStarts, SymbolStarts
<1>2. inv /\ [next]_<<refinerVars, symbolVars>> => inv'
  <2> SUFFICES ASSUME inv, [next]_<<refinerVars, symbolVars>> PROVE inv'
    OBVIOUS
  <2>1. [RefinerNext]_refinerVars /\ [SymbolNext]_symbolVars
    OBVIOUS
  <2> QED BY <2>1, RefinerKeeps, SymbolKeeps
<1>3. inv => RefinersSound
  BY RefinerEnough, SymbolEnough DEF RefinersSound
<1> QED BY <1>1, <1>2, <1>3, PTL DEF RefinersSpec
=============================================================================
