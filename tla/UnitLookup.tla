------------------------------ MODULE UnitLookup ------------------------------
(***************************************************************************)
(* The symbol lookup both SQL backends expose (internal/store/query.go     *)
(* QueryUnits): a first statement that matches names as written, and, when *)
(* the page came back short and the caller asked for it, a second one that *)
(* matches by containment and leaves out what the first returned.  The two *)
(* statements share no transaction: an index pass may commit in between.   *)
(*                                                                         *)
(* A unit is abstracted to how the term relates to its two name columns    *)
(* ("is" up to case, "has" as a part, "no"), whether its path is generated *)
(* or test code, the length of its name, and its place in UnitPool, which  *)
(* is its place in the corpus.                                             *)
(***************************************************************************)
EXTENDS Integers, Sequences, FiniteSets, Sorting

CONSTANTS
    UnitPool,       \* the units a corpus may hold: [repo, name, qualified, penalty, length]
    Lookups,        \* [terms, repos, fallback, limit]
    MaxCommits      \* bound: files committed by index passes

ASSUME UnitLookupAssumption ==
    /\ MaxCommits \in Nat /\ DOMAIN UnitPool \subseteq Nat
    /\ \A u \in DOMAIN UnitPool : {UnitPool[u].penalty, UnitPool[u].length} \subseteq Nat
    /\ \A opts \in Lookups : opts.limit \in Int /\ opts.fallback \in BOOLEAN

VARIABLES
    rows,       \* ast_units: the set of [id, at], at the unit's place in UnitPool
    commits,    \* rows written so far; the next row's id follows it
    query,      \* the lookup: its options and how far it has come
    page,       \* the rows returned, in order
    disturbed   \* history: an index pass committed under the lookup

lookupVars == <<rows, commits, query, page, disturbed>>

(* EqFold and ContainsFold: a term matches a group of columns when it matches    *)
(* any of them; the groups restrict together.                                    *)
Matches(u, terms, how) == \A cols \in terms : \E c \in cols : UnitPool[u][c] \in how
AsWritten == {"is"}
Containing == {"is", "has"}

(* UnitFilters: the repositories and the terms of the tier; the hand-written     *)
(* tier also leaves out what the ranking penalises.                              *)
UnitFilters(u, opts, tier) ==
    /\ opts.repos = {} \/ UnitPool[u].repo \in opts.repos
    /\ Matches(u, opts.terms, IF tier = "remainder" THEN Containing ELSE AsWritten)
    /\ tier = "handWritten" => UnitPool[u].penalty = 0

(* unitOrderBy: the penalty, for the remainder then exactness, the length of the *)
(* name, the place; the id only between rows nothing else tells apart.           *)
unitOrderBy(r, opts, tier) ==
    <<UnitPool[r.at].penalty,
      IF tier = "remainder" /\ ~Matches(r.at, opts.terms, AsWritten) THEN 1 ELSE 0,
      UnitPool[r.at].length, r.at, r.id>>

KeyLess(a, b) == \E i \in DOMAIN a : a[i] < b[i] /\ \A j \in 1 .. i - 1 : a[j] = b[j]

LimitedTo(s, limit) == IF limit > 0 /\ Len(s) > limit THEN SubSeq(s, 1, limit) ELSE s

(* UnitQuery: one statement.                                                     *)
UnitQuery(opts, tier, limit, exclude) ==
    LET found == {r \in rows : UnitFilters(r.at, opts, tier) /\ r.id \notin exclude}
        before == {p \in found \X found :
                      KeyLess(unitOrderBy(p[1], opts, tier), unitOrderBy(p[2], opts, tier))}
    IN LimitedTo(InOrder(found, before), limit)

hasUnitTerm(opts) == opts.terms # {}

Widens(opts) == opts.fallback /\ opts.limit > 0 /\ hasUnitTerm(opts)

-----------------------------------------------------------------------------
LookupInit ==
    /\ rows = {} /\ commits = 0
    /\ query = [opts |-> CHOOSE o \in Lookups : TRUE, step |-> "none"]
    /\ page = <<>> /\ disturbed = FALSE

(* An index pass stores a unit: its old row goes and a row with a fresh id comes. *)
CommitUnit(u) ==
    /\ commits < MaxCommits
    /\ commits' = commits + 1
    /\ rows' = {r \in rows : r.at # u} \cup {[id |-> commits + 1, at |-> u]}
    /\ disturbed' = (disturbed \/ query.step # "none")
    /\ UNCHANGED <<query, page>>

(* Mutant of FirstTier: the first page takes generated code too. *)
FirstTierExact(opts) == "exact"

FirstTier(opts) == IF Widens(opts) THEN "handWritten" ELSE "exact"

FirstPage(opts) ==
    LET units == UnitQuery(opts, FirstTier(opts), opts.limit, {})
    IN /\ query.step = "none"
       /\ page' = units
       /\ query' = [opts |-> opts,
                    step |-> IF Widens(opts) /\ Len(units) < opts.limit THEN "second" ELSE "done"]
       /\ UNCHANGED <<rows, commits, disturbed>>

SecondPage ==
    LET opts == query.opts
    IN /\ query.step = "second"
       /\ page' = page \o UnitQuery(opts, "remainder", opts.limit - Len(page),
                                    {page[i].id : i \in DOMAIN page})
       /\ query' = [query EXCEPT !.step = "done"]
       /\ UNCHANGED <<rows, commits, disturbed>>

LookupNext ==
    \/ \E u \in DOMAIN UnitPool : CommitUnit(u)
    \/ \E opts \in Lookups : FirstPage(opts)
    \/ SecondPage

-----------------------------------------------------------------------------
(* Properties *)

(* What the two plans promise, over all rows at once and by content alone.       *)
Wanted(opts) ==
    {r.at : r \in {x \in rows :
        /\ opts.repos = {} \/ UnitPool[x.at].repo \in opts.repos
        /\ Matches(x.at, opts.terms, IF Widens(opts) THEN Containing ELSE AsWritten)}}

Better(u, v, opts) ==
    LET Class(x) == <<UnitPool[x].penalty, IF Matches(x, opts.terms, AsWritten) THEN 0 ELSE 1,
                      UnitPool[x].length, x>>
    IN KeyLess(Class(u), Class(v))

BestFirst(opts) ==
    InOrder(Wanted(opts), {p \in Wanted(opts) \X Wanted(opts) : Better(p[1], p[2], opts)})

(* "A short first page is the complete set of hand-written rows matching as      *)
(* written, so the second statement can rank everything else against itself      *)
(* alone" (QueryUnits): the page is the best prefix of everything that matches,  *)
(* hand-written code that merely contains the term before generated code that    *)
(* is it, and the same whatever ids the indexing workers drew.  Under an index   *)
(* pass it may be out of date, but no row comes twice and the limit holds.       *)
PageIsBestPrefix ==
    query.step = "done" =>
        /\ \A i, j \in DOMAIN page : i # j => page[i].id # page[j].id
        /\ query.opts.limit > 0 => Len(page) <= query.opts.limit
        /\ ~disturbed =>
              [i \in DOMAIN page |-> page[i].at]
                  = LimitedTo(BestFirst(query.opts), query.opts.limit)

LookupSpec == LookupInit /\ [][LookupNext]_lookupVars
=============================================================================
