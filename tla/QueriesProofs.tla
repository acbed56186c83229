--------------------------- MODULE QueriesProofs ---------------------------
(***************************************************************************)
(* The safety properties of Queries, for every table, every limit and      *)
(* every request.                                                          *)
(*                                                                         *)
(* CInv says that only an accepted request is answered and that what is    *)
(* shown are rows.  ShownInv says what the pages shown so far amount to:   *)
(* they are full, they are followed by rows that were not shown, and they  *)
(* begin the one order of the list, if it has one.  The page asked for     *)
(* next then begins where they end (OffsetNow), the number of pages the    *)
(* handler counts stops the caller where no row is left (LastPage), and    *)
(* the last page has the rest.                                             *)
(***************************************************************************)
EXTENDS Queries, FiniteSetTheorems, SequenceTheorems, TLAPS

\* Of numbers one is the least: the initial segments below them are finite sets,
\* which strict inclusion orders well.
LEMMA LeastNumber == ASSUME NEW T \in SUBSET Nat, T # {} PROVE \E m \in T : \A k \in T : m <= k
<1> DEFINE Below == {0..n : n \in T}
<1>1. Below \subseteq FiniteSubsetsOf(Nat)
  <2>1. \A n \in T : 0..n \subseteq Nat /\ IsFiniteSet(0..n)
    <3>1. \A n \in T : 0 \in Int /\ n \in Int
      OBVIOUS
    <3> QED
      BY <3>1, FS_Interval
  <2> QED
    BY <2>1 DEF FiniteSubsetsOf
<1>2. PICK B \in Below : \A C \in Below : <<C, B>> \notin StrictSubsetOrdering(Nat)
  <2>1. Below # {}
    OBVIOUS
  <2> HIDE DEF Below
  <2> QED
    BY <1>1, <2>1, FS_StrictSubsetOrderingWellFounded, WFMin
<1>3. PICK m \in T : B = 0..m
  OBVIOUS
<1>4. ASSUME NEW k \in T, k < m PROVE FALSE
  <2>1. 0..k \in Below /\ 0..k \subseteq B /\ m \in B /\ m \notin 0..k
    BY <1>3, <1>4
  <2>2. 0..k # B
    BY <2>1
  <2>3. <<0..k, B>> \in StrictSubsetOrdering(Nat)
    BY <1>3, <2>1, <2>2 DEF StrictSubsetOrdering
  <2> QED
    BY <1>2, <2>1, <2>3
<1> QED
  BY <1>3, <1>4

\* Hence a set with 0 and the successor of each of its numbers has them all.
LEMMA InductionOnNat == ASSUME NEW A, 0 \in A, \A n \in Nat : n \in A => n + 1 \in A PROVE Nat \subseteq A
<1> SUFFICES ASSUME Nat \ A # {} PROVE FALSE
  OBVIOUS
<1>1. PICK m \in Nat \ A : \A k \in Nat \ A : m <= k
  <2>1. Nat \ A \in SUBSET Nat
    OBVIOUS
  <2> QED
    BY <2>1, LeastNumber
<1> QED
  BY <1>1

\* f is the recursive function of FlattenSeq on the first n sequences.
Flattens(f, s, n) == f = [i \in 1..n |-> IF i = 1 THEN s[i] ELSE f[i - 1] \o s[i]]

\* Its equation, at one argument.
LEMMA FlattensAt ==
  ASSUME NEW s, NEW n, NEW f, Flattens(f, s, n), NEW i \in 1..n
  PROVE  f[i] = IF i = 1 THEN s[i] ELSE f[i - 1] \o s[i]
<1> DEFINE body == [j \in 1..n |-> IF j = 1 THEN s[j] ELSE f[j - 1] \o s[j]]
<1>1. f = body
  BY DEF Flattens
<1>2. body[i] = IF i = 1 THEN s[i] ELSE f[i - 1] \o s[i]
  OBVIOUS
<1> HIDE DEF body
<1>3. f[i] = body[i]
  BY <1>1
<1> QED
  BY <1>2, <1>3

\* There is such a function, and longer ones agree with it.
LEMMA FlattenExists == ASSUME NEW s, NEW n \in Nat PROVE \E f : Flattens(f, s, n)
<1> DEFINE A == {m \in Nat : \E f : Flattens(f, s, m)}
<1>1. 0 \in A
  <2>1. Flattens([i \in 1..0 |-> s], s, 0)
    BY DEF Flattens
  <2> QED
    BY <2>1
<1>2. ASSUME NEW m \in Nat, m \in A PROVE m + 1 \in A
  <2>1. PICK f : Flattens(f, s, m)
    BY <1>2
  <2> DEFINE last == IF m = 0 THEN s[1] ELSE f[m] \o s[m + 1]
             g == [i \in 1..(m + 1) |-> IF i <= m THEN f[i] ELSE last]
  <2>2. \A i \in 1..(m + 1) : g[i] = IF i = 1 THEN s[i] ELSE g[i - 1] \o s[i]
    <3> TAKE i \in 1..(m + 1)
    <3>1. CASE i <= m
      <4>1. f[i] = IF i = 1 THEN s[i] ELSE f[i - 1] \o s[i]
        BY <2>1, <3>1, FlattensAt
      <4>2. g[i] = f[i] /\ (i # 1 => g[i - 1] = f[i - 1])
        BY <3>1
      <4> QED
        BY <4>1, <4>2
    <3>2. CASE i = m + 1
      <4>1. g[i] = last /\ (i # 1 => g[i - 1] = f[m] /\ m # 0)
        BY <3>2
      <4> QED
        BY <3>2, <4>1
    <3> QED
      BY <3>1, <3>2
  <2>3. Flattens(g, s, m + 1)
    BY <2>2 DEF Flattens
  <2> QED
    BY <2>3
<1> QED
  BY <1>1, <1>2, InductionOnNat

LEMMA FlattenUnique ==
  ASSUME NEW s, NEW t, NEW f, NEW g, NEW n \in Nat, NEW m \in Nat, n <= m,
         Flattens(f, s, n), Flattens(g, t, m), \A i \in 1..n : s[i] = t[i]
  PROVE  \A i \in 1..n : f[i] = g[i]
<1> DEFINE A == {i \in Nat : i \in 1..n => f[i] = g[i]}
<1>1. 0 \in A
  OBVIOUS
<1>2. ASSUME NEW i \in Nat, i \in A PROVE i + 1 \in A
  <2> SUFFICES ASSUME i + 1 \in 1..n PROVE f[i + 1] = g[i + 1]
    OBVIOUS
  <2>1. f[i + 1] = IF i + 1 = 1 THEN s[i + 1] ELSE f[i + 1 - 1] \o s[i + 1]
    BY FlattensAt
  <2>2. g[i + 1] = IF i + 1 = 1 THEN t[i + 1] ELSE g[i + 1 - 1] \o t[i + 1]
    <3>1. i + 1 \in 1..m
      OBVIOUS
    <3> QED
      BY <3>1, FlattensAt
  <2>3. i # 0 => f[i] = g[i]
    BY <1>2
  <2> QED
    BY <2>1, <2>2, <2>3
<1> HIDE DEF A
<1>3. Nat \subseteq A
  BY <1>1, <1>2, InductionOnNat
<1> QED
  BY <1>3 DEF A

\* FlattenSeq has chosen one.
LEMMA FlattenDef ==
  ASSUME NEW S, NEW s \in Seq(S), s # <<>>
  PROVE  \E f : Flattens(f, s, Len(s)) /\ FlattenSeq(s) = f[Len(s)]
<1>1. Len(s) \in Nat /\ Len(s) # 0
  BY EmptySeq
<1>2. FlattenSeq(s) = (CHOOSE f : Flattens(f, s, Len(s)))[Len(s)]
  BY <1>1 DEF FlattenSeq, Flattens
<1>3. Flattens(CHOOSE f : Flattens(f, s, Len(s)), s, Len(s))
  BY <1>1, FlattenExists
<1> QED
  BY <1>2, <1>3

\* FlattenSeq of one sequence more.
LEMMA FlattenAppend ==
  ASSUME NEW S, NEW s \in Seq(Seq(S)), NEW e \in Seq(S)
  PROVE  FlattenSeq(Append(s, e)) = FlattenSeq(s) \o e
<1> DEFINE t == Append(s, e)
           n == Len(s)
<1>1. /\ t \in Seq(Seq(S)) /\ t # <<>> /\ Len(t) = n + 1 /\ n \in Nat
      /\ \A i \in 1..n : s[i] = t[i]
      /\ t[n + 1] = e
  BY AppendProperties
<1> HIDE DEF t
<1>2. PICK g : Flattens(g, t, n + 1) /\ FlattenSeq(t) = g[n + 1]
  BY <1>1, FlattenDef
<1>3. g[n + 1] = IF n + 1 = 1 THEN t[n + 1] ELSE g[n + 1 - 1] \o t[n + 1]
  BY <1>1, <1>2, FlattensAt
<1>4. CASE s = <<>>
  <2>1. n = 0 /\ FlattenSeq(s) = <<>>
    BY <1>4 DEF FlattenSeq
  <2> QED
    BY <1>1, <1>2, <1>3, <2>1, ConcatEmptySeq DEF t
<1>5. CASE s # <<>>
  <2>1. n # 0
    BY <1>5, EmptySeq
  <2>2. PICK f : Flattens(f, s, n) /\ FlattenSeq(s) = f[n]
    BY <1>5, FlattenDef
  <2>3. f[n] = g[n]
    <3>1. n \in Nat /\ n + 1 \in Nat /\ n <= n + 1 /\ n \in 1..n
      BY <1>1, <2>1
    <3>2. Flattens(g, t, n + 1) /\ Flattens(f, s, n) /\ \A i \in 1..n : s[i] = t[i]
      BY <1>1, <1>2, <2>2
    <3> HIDE DEF n, t
    <3>3. \A i \in 1..n : f[i] = g[i]
      BY <3>1, <3>2, FlattenUnique
    <3> QED
      BY <3>1, <3>3
  <2> QED
    BY <1>1, <1>2, <1>3, <2>1, <2>2, <2>3 DEF t
<1> QED
  BY <1>4, <1>5

-----------------------------------------------------------------------------
(* Filters.                                                                *)

\* The fields of a filter.
Fields == {"gender", "age_group", "country_id", "min_age", "max_age", "min_gender_probability",
           "min_country_probability", "sort_by", "order", "page", "limit"}

\* What an accepted request asks for.
Valid(a) == /\ a \in Params \cup Searches
            /\ ValidPage(a)
            /\ ~ a.search => ValidParams(a)

\* The handlers' limit is between 1 and MaxLimit.
LEMMA LimitInRange == ASSUME NEW a, Valid(a) PROVE ClampLimit(a) \in 1..MaxLimit
<1>1. a.limit \in Int \cup {None} /\ MaxLimit \in Nat \ {0} /\ DefaultLimit \in 1..MaxLimit
  BY QueriesAssumption, RequestAssumption DEF Valid, ValidPage
<1>2. Given(a.limit, 1) > 0
  BY DEF Valid, ValidPage
<1> QED
  BY <1>1, <1>2, RequestAssumption DEF ClampLimit, Given, Least

\* Every filter a request is read as, and its normal form, has the page it was
\* read for and the handler's limit.
LEMMA FilterFields ==
  ASSUME NEW a, Valid(a), NEW n, NEW f \in Filters(a, n)
  PROVE  /\ DOMAIN f = Fields
         /\ f.page = n /\ f.limit = ClampLimit(a)
         /\ NormalizeFilter(f).page = n /\ NormalizeFilter(f).limit = ClampLimit(a)
<1>1. DOMAIN f = Fields /\ f.page = n /\ f.limit = ClampLimit(a)
  BY DEF Filters, Readings, ParseFilterParams, Fields
<1>2. NormalizeFilter(f).page = n /\ NormalizeFilter(f).limit = Least(f.limit, MaxLimit)
  BY <1>1 DEF NormalizeFilter, Fields
<1>3. Least(f.limit, MaxLimit) = f.limit
  BY <1>1, LimitInRange, QueriesAssumption DEF Least
<1> QED
  BY <1>1, <1>2, <1>3

\* The chain's first word that the text has is the only one FirstOf leaves.
LEMMA FirstOfChain ==
  ASSUME NEW chain, NEW words, NEW n \in Nat, words # {}, DOMAIN chain = 1..n,
         \A w \in words : \E i \in 1..n : chain[i] = w,
         \A i, j \in 1..n : chain[i] = chain[j] => i = j
  PROVE  \E w : FirstOf(chain, words) = {w}
<1>1. PICK m \in 1..n : chain[m] \in words /\ \A i \in 1..n : chain[i] \in words => m <= i
  <2> DEFINE T == {i \in 1..n : chain[i] \in words}
  <2>1. T \in SUBSET Nat /\ T # {}
    OBVIOUS
  <2>2. \E m \in T : \A i \in T : m <= i
    BY <2>1, LeastNumber
  <2> QED
    BY <2>2
<1>2. ASSUME NEW w \in words, w # chain[m]
      PROVE  ~ \A i, j \in DOMAIN chain : chain[i] = w /\ chain[j] \in words => i <= j
  <2>1. PICK i \in 1..n : chain[i] = w
    OBVIOUS
  <2>2. m < i
    BY <1>1, <1>2, <2>1
  <2> QED
    BY <1>1, <2>1, <2>2
<1>3. \A i, j \in DOMAIN chain : chain[i] = chain[m] /\ chain[j] \in words => i <= j
  BY <1>1
<1>4. FirstOf(chain, words) = {chain[m]}
  BY <1>1, <1>2, <1>3 DEF FirstOf
<1> QED
  BY <1>4

\* Of the genders (parser.go) one is left.
LEMMA FirstOfTwo ==
  ASSUME NEW words, words \subseteq {"female", "male"}, words # {}
  PROVE  \E w : FirstOf(<<"female", "male">>, words) = {w}
<1> DEFINE chain == <<"female", "male">>
<1>1. DOMAIN chain = 1..2 /\ chain[1] = "female" /\ chain[2] = "male"
  OBVIOUS
<1> HIDE DEF chain
<1>2. /\ 2 \in Nat /\ words # {} /\ DOMAIN chain = 1..2
      /\ \A w \in words : \E i \in 1..2 : chain[i] = w
      /\ \A i, j \in 1..2 : chain[i] = chain[j] => i = j
  BY <1>1
<1>3. \E w : FirstOf(chain, words) = {w}
  BY <1>2, FirstOfChain, Zenon
<1> QED
  BY <1>3 DEF chain

\* Of the age groups one is left.
LEMMA FirstOfFour ==
  ASSUME NEW words, words \subseteq {"child", "teenager", "adult", "senior"}, words # {}
  PROVE  \E w : FirstOf(<<"child", "teenager", "adult", "senior">>, words) = {w}
<1> DEFINE chain == <<"child", "teenager", "adult", "senior">>
<1>1. DOMAIN chain = 1..4 /\ chain[1] = "child" /\ chain[2] = "teenager" /\ chain[3] = "adult" /\ chain[4] = "senior"
  OBVIOUS
<1> HIDE DEF chain
<1>2. /\ 4 \in Nat /\ words # {} /\ DOMAIN chain = 1..4
      /\ \A w \in words : \E i \in 1..4 : chain[i] = w
      /\ \A i, j \in 1..4 : chain[i] = chain[j] => i = j
  BY <1>1
<1>3. \E w : FirstOf(chain, words) = {w}
  BY <1>2, FirstOfChain, Zenon
<1> QED
  BY <1>3 DEF chain

\* In whatever order the tables are gone over, one country is found.
LEMMA OneCountryOnly ==
  ASSUME NEW q \in Searches, OneCountry(q)
  PROVE  \E c : Countries(q) = {c}
<1> DEFINE all == ({q.code} \ {None}) \cup q.names \cup q.aliases
<1>1. IsFiniteSet(all) /\ None \notin q.names \cup q.aliases
  <2>1. IsFiniteSet({q.code} \ {None})
    BY FS_Singleton, FS_Subset
  <2>2. IsFiniteSet(({q.code} \ {None}) \cup (q.names \cup q.aliases))
    BY <2>1, RequestAssumption, FS_Union
  <2>3. all = ({q.code} \ {None}) \cup (q.names \cup q.aliases)
    OBVIOUS
  <2> QED
    BY <2>2, <2>3, RequestAssumption, QueriesAssumption
<1>2. Cardinality(all) <= 1
  BY RequestAssumption DEF OneCountry
<1>3. all = {} \/ \E c : all = {c}
  <2> HIDE DEF all
  <2>1. Cardinality(all) \in Nat
    BY <1>1, FS_CardinalityType
  <2> QED
    BY <1>1, <1>2, <2>1, FS_EmptySet, FS_Singleton
<1>4. CASE q.aliases # {}
  BY <1>3, <1>4 DEF Countries
<1>5. CASE q.aliases = {} /\ q.code # None
  <2>1. {q.code} \cup q.names = {q.code}
    BY <1>3, <1>5
  <2> QED
    BY <1>5, <2>1 DEF Countries
<1>6. CASE q.aliases = {} /\ q.code = None
  BY <1>3, <1>6 DEF Countries
<1> QED
  BY <1>4, <1>5, <1>6

\* For every page the request is read as the same, but for the page's number.
LEMMA OneFilter ==
  ASSUME NEW a, Valid(a), OneCountry(a)
  PROVE  \E h : \A n : Filters(a, n) = {[h EXCEPT !.page = n]}
<1>1. CASE a \in Params
  <2>1. \A n : Filters(a, n) = {ParseFilterParams(a, n)}
    BY <1>1, RequestAssumption DEF Filters
  <2>2. \A n : ParseFilterParams(a, n) = [ParseFilterParams(a, 1) EXCEPT !.page = n]
    BY DEF ParseFilterParams
  <2> QED
    BY <2>1, <2>2
<1>2. CASE a \in Searches
  <2>1. PICK g : Genders(a) = {g}
    <3>1. CASE "both" \in a.genders \/ a.genders = {}
      BY <3>1 DEF Genders
    <3>2. CASE ~ ("both" \in a.genders \/ a.genders = {})
      BY <1>2, <3>2, RequestAssumption, FirstOfTwo DEF Genders
    <3> QED
      BY <3>1, <3>2
  <2>2. PICK b : AgeGroups(a) = {b}
    <3>1. CASE a.young \/ a.groups = {}
      BY <3>1 DEF AgeGroups
    <3>2. CASE ~ (a.young \/ a.groups = {})
      BY <1>2, <3>2, RequestAssumption, FirstOfFour DEF AgeGroups
    <3> QED
      BY <3>1, <3>2
  <2>3. PICK c : Countries(a) = {c}
    BY <1>2, OneCountryOnly
  <2> DEFINE h(n) == [gender |-> g, age_group |-> b, country_id |-> c,
                      min_age |-> MinAge(a), max_age |-> MaxAge(a),
                      min_gender_probability |-> None, min_country_probability |-> None,
                      sort_by |-> "created_at", order |-> "asc",
                      page |-> n, limit |-> ClampLimit(a)]
  <2>4. \A n : Filters(a, n) = {h(n)}
    <3> TAKE n
    <3>1. Filters(a, n) = Readings(a, n)
      BY <1>2, RequestAssumption DEF Filters
    <3>2. Readings(a, n) = {h(n)}
      BY <2>1, <2>2, <2>3 DEF Readings
    <3> QED
      BY <3>1, <3>2
  <2>5. \A n : h(n) = [h(1) EXCEPT !.page = n]
    OBVIOUS
  <2> QED
    BY <2>4, <2>5
<1> QED
  BY <1>1, <1>2 DEF Valid

\* Whatever its page, the list it is a page of is the same.
LEMMA SameList ==
  ASSUME NEW a, Valid(a), OneCountry(a),
         NEW n, NEW m, NEW f \in Filters(a, n), NEW g \in Filters(a, m)
  PROVE  /\ Where(NormalizeFilter(f)) = Where(NormalizeFilter(g))
         /\ Sorted(NormalizeFilter(f)) = Sorted(NormalizeFilter(g))
<1>1. PICK h : \A k : Filters(a, k) = {[h EXCEPT !.page = k]}
  BY OneFilter
<1>2. f = [h EXCEPT !.page = n] /\ g = [h EXCEPT !.page = m]
  BY <1>1
<1>3. DOMAIN f = Fields /\ DOMAIN g = Fields
  BY FilterFields
<1>4. \A k \in Fields \ {"page"} : f[k] = g[k]
  BY <1>2, <1>3
<1>5. \A k \in Fields \ {"page"} : NormalizeFilter(f)[k] = NormalizeFilter(g)[k]
  BY <1>3, <1>4 DEF NormalizeFilter, Fields, Swapped
<1> DEFINE x == NormalizeFilter(f)
           y == NormalizeFilter(g)
<1> HIDE DEF x, y
<1>6. /\ \A k \in {"gender", "age_group", "country_id"} : x[k] = y[k]
      /\ x.min_age = y.min_age /\ x.max_age = y.max_age
      /\ x.min_gender_probability = y.min_gender_probability
      /\ x.min_country_probability = y.min_country_probability
      /\ x.sort_by = y.sort_by /\ x.order = y.order
  BY <1>5 DEF Fields, x, y
<1>7. Where(x) = Where(y)
  BY <1>6 DEF Where
<1>8. Sorted(x) = Sorted(y)
  BY <1>6, <1>7 DEF Sorted
<1> QED
  BY <1>7, <1>8 DEF x, y

\* The rows that match can be counted, and every order of them has them all.
LEMMA WhereFinite ==
  ASSUME NEW f
  PROVE  /\ IsFiniteSet(Where(f)) /\ Cardinality(Where(f)) \in 0..MaxInt
         /\ \A s \in Sorted(f) : s \in Seq(Rows) /\ Len(s) = Cardinality(Where(f))
<1>1. Where(f) \subseteq Rows
  BY DEF Where
<1>2. IsFiniteSet(Where(f)) /\ Cardinality(Where(f)) <= Cardinality(Rows)
  BY <1>1, TableAssumption, FS_Subset
<1>3. Cardinality(Where(f)) \in Nat /\ Cardinality(Rows) \in Nat
  BY <1>2, TableAssumption, FS_CardinalityType
<1>4. ASSUME NEW s \in Sorted(f) PROVE s \in Seq(Rows) /\ Len(s) = Cardinality(Where(f))
  <2>1. s \in [1..Cardinality(Where(f)) -> Where(f)]
    BY DEF Sorted, SetToSeqs
  <2> QED
    BY <1>1, <1>3, <2>1
<1> QED
  BY <1>2, <1>3, <1>4, TableAssumption, QueriesAssumption

\* Functions with one domain are the same if their values are.
LEMMA SameFunction ==
  ASSUME NEW S, NEW T, NEW u \in [S -> T], NEW v \in [S -> T], \A i \in S : u[i] = v[i]
  PROVE  u = v
  OBVIOUS

\* A function is known by the pairs of its graph.
LEMMA FunctionsFinite == ASSUME NEW D, IsFiniteSet(D), NEW W, IsFiniteSet(W) PROVE IsFiniteSet([D -> W])
<1> DEFINE graph == [s \in [D -> W] |-> {p \in D \X W : s[p[1]] = p[2]}]
<1>1. graph \in [[D -> W] -> SUBSET (D \X W)]
  OBVIOUS
<1>2. ASSUME NEW s \in [D -> W], NEW t \in [D -> W], graph[s] = graph[t] PROVE s = t
  <2>1. ASSUME NEW i \in D PROVE s[i] = t[i]
    <3>1. <<i, s[i]>> \in graph[s]
      OBVIOUS
    <3>2. <<i, s[i]>> \in graph[t]
      BY <1>2, <3>1
    <3> QED
      BY <3>2
  <2> QED
    BY <2>1, SameFunction
<1>3. graph \in Injection([D -> W], SUBSET (D \X W))
  BY <1>1, <1>2 DEF Injection, IsInjective
<1>4. IsFiniteSet(SUBSET (D \X W))
  BY FS_Product, FS_SUBSET
<1> HIDE DEF graph
<1> QED
  BY <1>3, <1>4, FS_Injection

\* A list has finitely many orders.
LEMMA OrdersFinite == ASSUME NEW f PROVE IsFiniteSet(Sorted(f))
<1>1. Sorted(f) \subseteq [1..Cardinality(Where(f)) -> Where(f)]
  BY DEF Sorted, SetToSeqs
<1>2. IsFiniteSet(1..Cardinality(Where(f))) /\ IsFiniteSet(Where(f))
  BY WhereFinite, FS_Interval
<1> QED
  BY <1>1, <1>2, FunctionsFinite, FS_Subset

-----------------------------------------------------------------------------
(* Cache keys.                                                             *)

\* The fields of KeyParts are the fields of a filter, each once.
LEMMA PartsAreFields ==
  /\ DOMAIN KeyParts = 1..11 /\ Range(KeyParts) = Fields
  /\ \A i, j \in 1..11 : KeyParts[i] = KeyParts[j] => i = j
  /\ KeyParts[3] = "country_id"
<1>1. DOMAIN KeyParts = 1..11
  BY DEF KeyParts
<1>2. /\ KeyParts[1] = "gender" /\ KeyParts[2] = "age_group" /\ KeyParts[3] = "country_id"
      /\ KeyParts[4] = "min_age" /\ KeyParts[5] = "max_age"
      /\ KeyParts[6] = "min_gender_probability" /\ KeyParts[7] = "min_country_probability"
      /\ KeyParts[8] = "sort_by" /\ KeyParts[9] = "order" /\ KeyParts[10] = "page"
      /\ KeyParts[11] = "limit"
  BY DEF KeyParts
<1>3. \A i \in 1..11 : i \in {1, 2, 3, 4, 5, 6, 7, 8, 9, 10, 11}
  OBVIOUS
<1>4. Range(KeyParts) = {KeyParts[i] : i \in 1..11}
  BY <1>1 DEF Range
<1>5. Range(KeyParts) = Fields
  BY <1>2, <1>3, <1>4 DEF Fields
<1>6. \A i, j \in 1..11 : KeyParts[i] = KeyParts[j] => i = j
  BY <1>2, <1>3
<1> QED
  BY <1>1, <1>2, <1>5, <1>6

\* An equal prefix may be cut off.
LEMMA CutPrefix ==
  ASSUME NEW S, NEW a \in Seq(S), NEW b \in Seq(S), NEW c \in Seq(S), c \o a = c \o b
  PROVE  a = b
  BY ConcatSimplifications

\* The first i sequences of s joined, e, have their elements.
Joined(e, s, S, i) == /\ e \in Seq(S)
                      /\ \A x \in Range(e) : \E j \in 1..i : x \in Range(s[j])
                      /\ \A j \in 1..i : Range(s[j]) \subseteq Range(e)

LEMMA JoinedElements ==
  ASSUME NEW S, NEW n \in Nat, NEW s \in [1..n -> Seq(S)], NEW f, Flattens(f, s, n)
  PROVE  \A i \in 1..n : Joined(f[i], s, S, i)
<1> DEFINE A == {i \in Nat : i \in 1..n => Joined(f[i], s, S, i)}
<1>1. 0 \in A
  OBVIOUS
<1>2. ASSUME NEW i \in Nat, i \in A PROVE i + 1 \in A
  <2> SUFFICES ASSUME i + 1 \in 1..n PROVE Joined(f[i + 1], s, S, i + 1)
    OBVIOUS
  <2>1. f[i + 1] = IF i + 1 = 1 THEN s[i + 1] ELSE f[i + 1 - 1] \o s[i + 1]
    BY FlattensAt
  <2>2. CASE i = 0
    <3>1. f[1] = s[1] /\ i + 1 = 1 /\ s[1] \in Seq(S)
      BY <2>1, <2>2
    <3>2. \A j : j \in 1..1 <=> j = 1
      OBVIOUS
    <3>3. Joined(f[1], s, S, 1)
      BY <3>1, <3>2 DEF Joined
    <3> QED
      BY <3>1, <3>3
  <2>3. CASE i # 0
    <3>1. i \in 1..n /\ i + 1 # 1 /\ i + 1 - 1 = i
      BY <2>3
    <3>2. Joined(f[i], s, S, i)
      BY <1>2, <3>1
    <3>3. f[i + 1] = f[i] \o s[i + 1]
      BY <2>1, <3>1
    <3>4. s[i + 1] \in Seq(S)
      OBVIOUS
    <3>5. f[i + 1] \in Seq(S)
      BY <3>2, <3>3, <3>4, ConcatProperties DEF Joined
    <3>6. Range(f[i + 1]) = Range(f[i]) \cup Range(s[i + 1])
      BY <3>2, <3>3, <3>4, RangeConcatenation DEF Joined
    <3>7. \A j : j \in 1..(i + 1) <=> j \in 1..i \/ j = i + 1
      OBVIOUS
    <3>8. ASSUME NEW x \in Range(f[i + 1]) PROVE \E j \in 1..(i + 1) : x \in Range(s[j])
      BY <3>2, <3>6, <3>7 DEF Joined
    <3>9. ASSUME NEW j \in 1..(i + 1) PROVE Range(s[j]) \subseteq Range(f[i + 1])
      BY <3>2, <3>6, <3>7 DEF Joined
    <3> QED
      BY <3>5, <3>8, <3>9 DEF Joined
  <2> QED
    BY <2>2, <2>3
<1> HIDE DEF A
<1>3. Nat \subseteq A
  BY <1>1, <1>2, InductionOnNat
<1>4. ASSUME NEW i \in 1..n PROVE Joined(f[i], s, S, i)
  <2>1. i \in A
    BY <1>3
  <2> QED
    BY <2>1 DEF A
<1> QED
  BY <1>4

\* A normalized filter in which no gender and no age group spells a part, and no
\* country one with a tag.
Clean(n) ==
  /\ \A k \in {"gender", "age_group"} : n[k] # None => n[k] \in Texts /\ Spelled[n[k]] = <<>>
  /\ n.country_id # None =>
       /\ n.country_id \in Texts
       /\ \A i \in DOMAIN Spelled[n.country_id] : Spelled[n.country_id][i][1] \notin Fields

Value(n, k) == IF k \in {"gender", "age_group", "country_id"} THEN Before[n[k]]
               ELSE IF k \in Probabilities THEN Hundredths(n[k]) ELSE n[k]

\* What a country's part is followed by.
Rest(n, k) == IF k = "country_id" THEN Spelled[n[k]] ELSE <<>>

\* A part's tag and value, and what follows it.
LEMMA PartIs ==
  ASSUME NEW n, Clean(n), NEW k \in Fields
  PROVE  /\ n[k] = None => PartOf(n, k) = <<>>
         /\ n[k] # None => PartOf(n, k) = << <<k, Value(n, k)>> >> \o Rest(n, k)
         /\ n[k] # None => Rest(n, k) \in Seq(Range(Rest(n, k)))
         /\ n[k] # None => \A i \in DOMAIN Rest(n, k) : Rest(n, k)[i][1] \notin Fields
<1>1. CASE n[k] = None
  BY <1>1 DEF PartOf
<1>2. CASE n[k] # None /\ k = "country_id"
  BY <1>2, TextsAssumption DEF PartOf, Rest, Value, Clean
<1>3. CASE n[k] # None /\ k \in {"gender", "age_group"}
  <2>1. Spelled[n[k]] = <<>> /\ Rest(n, k) = <<>>
    BY <1>3 DEF Clean, Rest
  <2>2. PartOf(n, k) = << <<k, Value(n, k)>> >> \o <<>>
    BY <1>3, <2>1 DEF PartOf, Value
  <2> QED
    BY <1>3, <2>1, <2>2
<1>4. CASE n[k] # None /\ k \notin {"gender", "age_group", "country_id"}
  <2>1. Rest(n, k) = <<>> /\ PartOf(n, k) = << <<k, Value(n, k)>> >>
    BY <1>4 DEF PartOf, Value, Rest
  <2> QED
    BY <1>4, <2>1
<1> QED
  BY <1>1, <1>2, <1>3, <1>4

\* So a part is a sequence, of which only the first element has a tag.
LEMMA PartElements ==
  ASSUME NEW n, Clean(n), NEW k \in Fields
  PROVE  /\ PartOf(n, k) \in Seq(Range(PartOf(n, k)))
         /\ n[k] # None => <<k, Value(n, k)>> \in Range(PartOf(n, k))
         /\ \A x \in Range(PartOf(n, k)) : x[1] \in Fields => n[k] # None /\ x = <<k, Value(n, k)>>
<1>1. CASE n[k] = None
  <2>1. PartOf(n, k) = <<>>
    BY <1>1, PartIs
  <2>2. Range(<<>>) = {} /\ <<>> \in Seq({})
    BY DEF Range
  <2> QED
    BY <1>1, <2>1, <2>2
<1>2. CASE n[k] # None
  <2> DEFINE h == <<k, Value(n, k)>>
             r == Rest(n, k)
             S == {h} \cup Range(r)
  <2>1. PartOf(n, k) = <<h>> \o r /\ r \in Seq(Range(r)) /\ \A i \in DOMAIN r : r[i][1] \notin Fields
    BY <1>2, PartIs
  <2>2. <<h>> \in Seq(S) /\ r \in Seq(S) /\ Range(<<h>>) = {h}
    BY <2>1 DEF Range
  <2> HIDE DEF h, r, S
  <2>a. <<h>> \o r \in Seq(S)
    BY <2>2, ConcatProperties
  <2>b. Range(<<h>> \o r) = Range(<<h>>) \cup Range(r)
    <3> DEFINE q == <<h>>
    <3>1. q \in Seq(S) /\ r \in Seq(S)
      BY <2>2
    <3> HIDE DEF q
    <3>2. Range(q \o r) = Range(q) \cup Range(r)
      BY <3>1, RangeConcatenation
    <3> QED
      BY <3>2 DEF q
  <2>3. PartOf(n, k) \in Seq(S) /\ Range(PartOf(n, k)) = {h} \cup Range(r)
    BY <2>1, <2>2, <2>a, <2>b
  <2>4. PartOf(n, k) \in Seq(Range(PartOf(n, k)))
    BY <2>3 DEF S
  <2>5. \A x \in Range(r) : x[1] \notin Fields
    BY <2>1 DEF Range
  <2> QED
    BY <1>2, <2>3, <2>4, <2>5 DEF h
<1> QED
  BY <1>1, <1>2

\* The parts of a key, and the elements they may have.
PartsOf(n) == [i \in 1..11 |-> PartOf(n, KeyParts[i])]
Elements(n) == UNION {Range(PartOf(n, k)) : k \in Fields}

\* A key as they are joined.
LEMMA KeyJoins ==
  ASSUME NEW n, Clean(n), NEW S, Elements(n) \subseteq S
  PROVE  /\ PartsOf(n) \in [1..11 -> Seq(S)]
         /\ \E f : Flattens(f, PartsOf(n), 11) /\ FlattenSeq(PartsOf(n)) = f[11]
<1>1. ASSUME NEW i \in 1..11 PROVE PartOf(n, KeyParts[i]) \in Seq(S)
  <2>1. KeyParts[i] \in Fields
    BY PartsAreFields DEF Range
  <2> DEFINE p == PartOf(n, KeyParts[i])
  <2>2. p \in Seq(Range(p))
    BY <2>1, PartElements
  <2>3. Range(p) \subseteq S
    BY <2>1 DEF Elements
  <2> HIDE DEF p
  <2>4. p \in Seq(S)
    BY <2>2, <2>3
  <2> QED
    BY <2>4 DEF p
<1>2. PartsOf(n) \in [1..11 -> Seq(S)]
  BY <1>1 DEF PartsOf
<1>3. PartsOf(n) \in Seq(Seq(S)) /\ PartsOf(n) # <<>> /\ Len(PartsOf(n)) = 11
  <2>1. ASSUME NEW T, NEW p \in [1..11 -> T] PROVE p \in Seq(T) /\ Len(p) = 11 /\ p # <<>>
    <3>1. ASSUME NEW l \in Nat, NEW q \in [1..l -> T] PROVE q \in Seq(T) /\ Len(q) = l
      OBVIOUS
    <3>2. p \in Seq(T) /\ Len(p) = 11
      BY <3>1
    <3>3. Len(<<>>) = 0 /\ 11 # 0
      OBVIOUS
    <3>4. p # <<>>
      BY <3>2, <3>3
    <3> QED
      BY <3>2, <3>4
  <2> QED
    BY <1>2, <2>1
<1> QED
  BY <1>2, <1>3, FlattenDef

\* The key has the tag and the value of every field that is there, and what else
\* it has has no tag.
LEMMA KeyElements ==
  ASSUME NEW n, Clean(n), NEW k \in Fields, NEW v
  PROVE  <<k, v>> \in Range(FlattenSeq(PartsOf(n))) <=> n[k] # None /\ v = Value(n, k)
<1> DEFINE S == Elements(n)
<1>1. PICK f : Flattens(f, PartsOf(n), 11) /\ FlattenSeq(PartsOf(n)) = f[11]
  BY KeyJoins
<1>2. \A x : x \in Range(f[11]) <=> \E j \in 1..11 : x \in Range(PartsOf(n)[j])
  <2> DEFINE p == PartsOf(n)
  <2>1. 11 \in Nat /\ p \in [1..11 -> Seq(S)] /\ Flattens(f, p, 11) /\ 11 \in 1..11
    BY <1>1, KeyJoins
  <2> HIDE DEF p, S
  <2>2. Joined(f[11], p, S, 11)
    BY <2>1, JoinedElements
  <2> QED
    BY <2>2 DEF p, Joined
<1>3. \A j \in 1..11 : PartsOf(n)[j] = PartOf(n, KeyParts[j]) /\ KeyParts[j] \in Fields
  BY PartsAreFields DEF PartsOf, Range
<1>4. \E j \in 1..11 : KeyParts[j] = k
  BY PartsAreFields DEF Range
<1>5. ASSUME NEW j \in 1..11, <<k, v>> \in Range(PartOf(n, KeyParts[j]))
      PROVE  n[k] # None /\ v = Value(n, k)
  <2> DEFINE l == KeyParts[j]
             x == <<k, v>>
  <2>1. l \in Fields /\ x[1] = k
    BY <1>3
  <2>2. n[l] # None /\ x = <<l, Value(n, l)>>
    BY <1>5, <2>1, PartElements
  <2> QED
    BY <2>2
<1>6. ASSUME n[k] # None PROVE <<k, Value(n, k)>> \in Range(PartOf(n, k))
  BY <1>6, PartElements
<1> QED
  BY <1>1, <1>2, <1>3, <1>4, <1>5, <1>6

\* Filters of one key have the same fields, and these the same values.
LEMMA SameValues ==
  ASSUME NEW m, NEW n, Clean(m), Clean(n), FlattenSeq(PartsOf(m)) = FlattenSeq(PartsOf(n)),
         NEW k \in Fields
  PROVE  (m[k] = None <=> n[k] = None) /\ (m[k] # None => Value(m, k) = Value(n, k))
<1>1. \A v : (m[k] # None /\ v = Value(m, k)) <=> (n[k] # None /\ v = Value(n, k))
  BY KeyElements
<1> QED
  BY <1>1

\* So they differ in the country's part only, and that is what is left of the
\* key when the parts before it and after it are cut off.
LEMMA SameCountryPart ==
  ASSUME NEW m, NEW n, Clean(m), Clean(n), FlattenSeq(PartsOf(m)) = FlattenSeq(PartsOf(n))
  PROVE  PartOf(m, "country_id") = PartOf(n, "country_id")
<1> DEFINE s == PartsOf(m)
           t == PartsOf(n)
           S == Elements(m) \cup Elements(n)
<1>1. PICK f : Flattens(f, s, 11) /\ FlattenSeq(s) = f[11]
  BY KeyJoins
<1>2. PICK g : Flattens(g, t, 11) /\ FlattenSeq(t) = g[11]
  BY KeyJoins
<1>3. s \in [1..11 -> Seq(S)] /\ t \in [1..11 -> Seq(S)]
  BY KeyJoins
<1>4. ASSUME NEW i \in 1..11, i # 3 PROVE s[i] = t[i]
  <2> DEFINE k == KeyParts[i]
  <2>1. k \in Fields /\ k # "country_id" /\ s[i] = PartOf(m, k) /\ t[i] = PartOf(n, k)
    BY <1>4, PartsAreFields DEF PartsOf, Range
  <2> HIDE DEF k
  <2>2. (m[k] = None <=> n[k] = None) /\ (m[k] # None => Value(m, k) = Value(n, k))
    BY <2>1, SameValues
  <2>3. Rest(m, k) = <<>> /\ Rest(n, k) = <<>>
    BY <2>1 DEF Rest
  <2>4. PartOf(m, k) = PartOf(n, k)
    BY <2>1, <2>2, <2>3, PartIs
  <2> QED
    BY <2>1, <2>4
<1>5. s[3] = PartOf(m, "country_id") /\ t[3] = PartOf(n, "country_id")
  BY PartsAreFields DEF PartsOf
<1>6. f[11] = g[11]
  BY <1>1, <1>2
<1>7. \A i \in 1..11 : f[i] \in Seq(S) /\ g[i] \in Seq(S)
  <2>1. 11 \in Nat
    OBVIOUS
  <2> HIDE DEF s, t, S
  <2>2. \A i \in 1..11 : f[i] \in Seq(S)
    BY <1>1, <1>3, <2>1, JoinedElements DEF Joined
  <2>3. \A i \in 1..11 : g[i] \in Seq(S)
    BY <1>2, <1>3, <2>1, JoinedElements DEF Joined
  <2> QED
    BY <2>2, <2>3
<1> HIDE DEF s, t, S
<1>8. ASSUME NEW i \in 1..10, NEW j \in 1..11, j = i + 1
      PROVE  f[j] = f[i] \o s[j] /\ g[j] = g[i] \o t[j]
  <2>1. j # 1 /\ j - 1 = i
    BY <1>8
  <2>2. f[j] = IF j = 1 THEN s[j] ELSE f[j - 1] \o s[j]
    BY <1>1, FlattensAt
  <2>3. g[j] = IF j = 1 THEN t[j] ELSE g[j - 1] \o t[j]
    BY <1>2, FlattensAt
  <2> QED
    BY <2>1, <2>2, <2>3
<1>9. f[2] = g[2]
  <2>0. 1 \in 1..11 /\ 2 \in 1..11 /\ 1 # 3 /\ 2 # 3 /\ 1 \in 1..10 /\ 2 = 1 + 1
    OBVIOUS
  <2>1. f[1] = s[1] /\ g[1] = t[1]
    <3>1. f[1] = IF 1 = 1 THEN s[1] ELSE f[1 - 1] \o s[1]
      BY <1>1, <2>0, FlattensAt
    <3>2. g[1] = IF 1 = 1 THEN t[1] ELSE g[1 - 1] \o t[1]
      BY <1>2, <2>0, FlattensAt
    <3> QED
      BY <3>1, <3>2
  <2>2. s[1] = t[1] /\ s[2] = t[2]
    BY <1>4, <2>0
  <2>3. f[2] = f[1] \o s[2] /\ g[2] = g[1] \o t[2]
    BY <1>8, <2>0
  <2> QED
    BY <2>1, <2>2, <2>3
<1>10. ASSUME NEW i \in 3..10, NEW j \in 1..11, j = i + 1, f[j] = g[j] PROVE f[i] = g[i]
  <2>0. i \in 1..10 /\ i \in 1..11 /\ j # 3
    BY <1>10
  <2>1. s[j] = t[j] /\ s[j] \in Seq(S) /\ f[i] \in Seq(S) /\ g[i] \in Seq(S)
    BY <1>3, <1>4, <1>7, <2>0
  <2>2. f[j] = f[i] \o s[j] /\ g[j] = g[i] \o t[j]
    BY <1>8, <1>10, <2>0
  <2>3. f[i] \o s[j] = g[i] \o s[j]
    BY <1>10, <2>1, <2>2
  <2> QED
    BY <2>1, <2>3, ConcatSimplifications, Zenon
<1>11. f[3] = g[3]
  <2>0. \A i \in 3..10 : i + 1 \in 1..11 /\ (f[i + 1] = g[i + 1] => f[i] = g[i])
    BY <1>10
  <2>1. f[10] = g[10]
    <3>1. 10 \in 3..10 /\ 10 + 1 = 11
      OBVIOUS
    <3> QED
      BY <1>6, <2>0, <3>1
  <2>2. f[9] = g[9]
    BY <1>10, <2>1
  <2>3. f[8] = g[8]
    BY <1>10, <2>2
  <2>4. f[7] = g[7]
    BY <1>10, <2>3
  <2>5. f[6] = g[6]
    BY <1>10, <2>4
  <2>6. f[5] = g[5]
    BY <1>10, <2>5
  <2>7. f[4] = g[4]
    BY <1>10, <2>6
  <2> QED
    BY <1>10, <2>7
<1>12. s[3] = t[3]
  <2>0. 2 \in 1..10 /\ 2 \in 1..11 /\ 3 \in 1..11 /\ 3 = 2 + 1
    OBVIOUS
  <2>1. f[3] = f[2] \o s[3] /\ g[3] = g[2] \o t[3]
    BY <1>8, <2>0
  <2>2. f[2] \in Seq(S) /\ s[3] \in Seq(S) /\ t[3] \in Seq(S)
    BY <1>3, <1>7, <2>0
  <2>3. f[2] \o s[3] = f[2] \o t[3]
    BY <1>9, <1>11, <2>1
  <2> QED
    BY <2>2, <2>3, CutPrefix
<1> QED
  BY <1>5, <1>12

\* One country's part is spelled by one country.
LEMMA SameCountry ==
  ASSUME NEW m, NEW n, Clean(m), Clean(n), FlattenSeq(PartsOf(m)) = FlattenSeq(PartsOf(n))
  PROVE  m.country_id = n.country_id
<1>1. m.country_id = None <=> n.country_id = None
  <2>1. "country_id" \in Fields
    BY DEF Fields
  <2> QED
    BY <2>1, SameValues
<1>2. CASE m.country_id # None
  <2> DEFINE k == "country_id"
             a == Rest(m, k)
             b == Rest(n, k)
             h == <<k, Value(m, k)>>
             S == {h} \cup Range(a) \cup Range(b)
  <2>1. k \in Fields /\ m[k] # None /\ n[k] # None
    BY <1>1, <1>2 DEF Fields
  <2>2. Value(m, k) = Value(n, k)
    BY <2>1, SameValues
  <2>3. PartOf(m, k) = <<h>> \o a /\ PartOf(n, k) = <<h>> \o b /\ a \in Seq(Range(a)) /\ b \in Seq(Range(b))
    BY <2>1, <2>2, PartIs
  <2>4. PartOf(m, k) = PartOf(n, k)
    BY SameCountryPart
  <2>5. a = b
    <3> HIDE DEF a, b, h
    <3>1. <<h>> \in Seq(S) /\ a \in Seq(S) /\ b \in Seq(S)
      BY <2>3
    <3>2. <<h>> \o a = <<h>> \o b
      BY <2>3, <2>4
    <3> HIDE DEF S
    <3> QED
      BY <3>1, <3>2, ConcatSimplifications
  <2>6. /\ Spelled[m.country_id] = Spelled[n.country_id]
        /\ Before[m.country_id] = Before[n.country_id]
    BY <2>2, <2>5 DEF Rest, Value
  <2>7. m.country_id \in Texts /\ n.country_id \in Texts
    BY <1>1, <1>2 DEF Clean
  <2> QED
    BY <2>6, <2>7, TextsAssumption
<1> QED
  BY <1>1, <1>2

\* So filters of one key are equal, but for the digits that are rounded off.
LEMMA SameFields ==
  ASSUME NEW m, NEW n, Clean(m), Clean(n), FlattenSeq(PartsOf(m)) = FlattenSeq(PartsOf(n)),
         NEW k \in Fields
  PROVE  IF k \in Probabilities
           THEN (m[k] = None <=> n[k] = None) /\ (m[k] # None => Hundredths(m[k]) = Hundredths(n[k]))
           ELSE m[k] = n[k]
<1>1. (m[k] = None <=> n[k] = None) /\ (m[k] # None => Value(m, k) = Value(n, k))
  BY SameValues
<1>2. CASE k = "country_id"
  BY <1>2, SameCountry DEF Probabilities
<1>3. CASE k \in {"gender", "age_group"}
  <2>1. m[k] # None => /\ m[k] \in Texts /\ Spelled[m[k]] = <<>>
                       /\ n[k] \in Texts /\ Spelled[n[k]] = <<>>
                       /\ Before[m[k]] = Before[n[k]]
    BY <1>1, <1>3 DEF Clean, Value
  <2>2. m[k] # None => m[k] = n[k]
    BY <2>1, TextsAssumption
  <2> QED
    BY <1>1, <1>3, <2>2 DEF Probabilities
<1>4. CASE k \notin {"gender", "age_group", "country_id"}
  BY <1>1, <1>4 DEF Value
<1> QED
  BY <1>2, <1>3, <1>4

\* The key of a filter is that of its parts.
LEMMA KeyIs == ASSUME NEW f PROVE CacheKey(f) = FlattenSeq(PartsOf(NormalizeFilter(f)))
  BY PartsAreFields DEF CacheKey, PartsOf

\* The texts of an accepted request's normalized filter.
LEMMA TextFields ==
  ASSUME NEW a, Valid(a), NEW n, NEW f \in Filters(a, n)
  PROVE  /\ NormalizeFilter(f).gender \in Texts \cup {None}
         /\ NormalizeFilter(f).age_group \in Texts \cup {None}
         /\ NormalizeFilter(f).country_id = None
            \/ \E t \in Texts : NormalizeFilter(f).country_id = Upper[t]
<1>1. {f.gender, f.age_group, f.country_id} \subseteq Texts \cup {None}
  <2>1. CASE a \in Params
    <3>1. f = ParseFilterParams(a, n)
      BY <2>1, RequestAssumption DEF Filters
    <3> QED
      BY <2>1, <3>1, RequestAssumption DEF ParseFilterParams
  <2>2. CASE a \in Searches
    <3>1. f \in Readings(a, n)
      BY <2>2, RequestAssumption DEF Filters
    <3>2. f.gender \in Genders(a) /\ f.age_group \in AgeGroups(a) /\ f.country_id \in Countries(a)
      BY <3>1 DEF Readings
    <3>3. \A chain, words : FirstOf(chain, words) \subseteq words
      BY DEF FirstOf
    <3>4. Genders(a) \subseteq Texts \cup {None}
      <4>1. a.genders \subseteq {"both"} \cup Texts
        BY <2>2, RequestAssumption
      <4> QED
        BY <3>3, <4>1 DEF Genders
    <3>5. AgeGroups(a) \subseteq Texts \cup {None}
      <4>1. a.groups \subseteq Texts
        BY <2>2, RequestAssumption
      <4> QED
        BY <3>3, <4>1 DEF AgeGroups
    <3>6. Countries(a) \subseteq Texts \cup {None}
      <4>1. a.code \in Texts \cup {None} /\ a.names \cup a.aliases \subseteq Texts
        BY <2>2, RequestAssumption
      <4> QED
        BY <4>1 DEF Countries
    <3> QED
      BY <3>2, <3>4, <3>5, <3>6
  <2> QED
    BY <2>1, <2>2 DEF Valid
<1>2. /\ NormalizeFilter(f).gender = Folded(Lower, f.gender)
      /\ NormalizeFilter(f).age_group = Folded(Lower, f.age_group)
      /\ NormalizeFilter(f).country_id = Folded(Upper, f.country_id)
  <2>1. DOMAIN f = Fields
    BY FilterFields
  <2> QED
    BY <2>1 DEF NormalizeFilter, Fields
<1>3. \A t \in Texts : Lower[t] \in Texts
  BY TextsAssumption
<1> QED
  BY <1>1, <1>2, <1>3, QueriesAssumption DEF Folded

\* It is clean unless a '|' is in its gender or its age group.
LEMMA CleanFilter ==
  ASSUME NEW a, Valid(a), NEW n, NEW f \in Filters(a, n), NoBars(NormalizeFilter(f))
  PROVE  Clean(NormalizeFilter(f))
<1> DEFINE m == NormalizeFilter(f)
<1>1. /\ m.gender \in Texts \cup {None} /\ m.age_group \in Texts \cup {None}
      /\ m.country_id = None \/ \E t \in Texts : m.country_id = Upper[t]
  BY TextFields
<1>2. NoBars(m)
  OBVIOUS
<1> HIDE DEF m
<1>3. ASSUME NEW t \in Texts, m.country_id = Upper[t]
      PROVE  /\ m.country_id \in Texts
             /\ \A i \in DOMAIN Spelled[m.country_id] : Spelled[m.country_id][i][1] \notin Fields
  <2>1. Upper[t] \in Texts
    BY TextsAssumption
  <2>2. \A i \in DOMAIN Spelled[Upper[t]] : Spelled[Upper[t]][i][1] \notin Fields
    BY TextsAssumption, PartsAreFields
  <2> QED
    BY <1>3, <2>1, <2>2
<1>4. \A k \in {"gender", "age_group"} : m[k] # None => m[k] \in Texts /\ Spelled[m[k]] = <<>>
  BY <1>1, <1>2 DEF NoBars
<1>5. Clean(m)
  BY <1>1, <1>3, <1>4 DEF Clean
<1> QED
  BY <1>5 DEF m
\* Numbers of thousandths with the same hundredths are less than a hundredth apart.
LEMMA SameHundredths ==
  ASSUME NEW p \in Int \cup {None}, NEW q \in Int \cup {None}, Hundredths(p) = Hundredths(q)
  PROVE  p = q \/ (None \notin {p, q} /\ p - q \in -9..9)
<1>1. \A x, y \in Int : (x + 5) \div 10 = (y + 5) \div 10 => x - y \in -9..9
  OBVIOUS
<1>2. \A x \in Int : (x + 5) \div 10 \in Int
  OBVIOUS
<1>3. None \notin Int
  BY RequestAssumption
<1> QED
  BY <1>1, <1>2, <1>3 DEF Hundredths

\* The probabilities of an accepted request's filter.
LEMMA ProbabilitiesParse ==
  ASSUME NEW a, Valid(a), NEW n, NEW f \in Filters(a, n), NEW k \in Probabilities
  PROVE  NormalizeFilter(f)[k] \in Int \cup {None}
<1>1. NormalizeFilter(f)[k] = f[k]
  <2>1. DOMAIN f = Fields
    BY FilterFields
  <2> QED
    BY <2>1 DEF NormalizeFilter, Probabilities, Fields
<1>2. CASE a \in Params
  <2>1. f = ParseFilterParams(a, n) /\ ValidParams(a)
    BY <1>2, RequestAssumption DEF Filters, Valid
  <2>2. f[k] = a.min_gender_probability \/ f[k] = a.min_country_probability
    BY <2>1 DEF ParseFilterParams, Probabilities
  <2>3. Bad # a.min_gender_probability /\ Bad # a.min_country_probability
    BY <2>1 DEF ValidParams
  <2> QED
    BY <1>1, <1>2, <2>2, <2>3, RequestAssumption
<1>3. CASE a \in Searches
  <2>1. f \in Readings(a, n)
    BY <1>3, RequestAssumption DEF Filters
  <2>2. f[k] = None
    BY <2>1 DEF Readings, Probabilities
  <2> QED
    BY <1>1, <2>2
<1> QED
  BY <1>2, <1>3 DEF Valid

-----------------------------------------------------------------------------
(* Page arithmetic.                                                        *)

\* Products grow with their first factor.
LEMMA TimesMonotonic ==
  ASSUME NEW a \in Int, NEW b \in Int, NEW c \in Nat, a <= b PROVE a * c <= b * c
<1>1. PICK d \in Nat : b = a + d
  <2>1. b = a + (b - a) /\ b - a \in Nat
    OBVIOUS
  <2> QED
    BY <2>1
<1>2. b * c = a * c + d * c
  BY <1>1
<1>3. d * c \in Nat
  OBVIOUS
<1> QED
  BY <1>2, <1>3

\* An offset that is an int is not wrapped.
LEMMA WrapSmall == ASSUME NEW n \in 0..MaxInt PROVE Wrap(n) = n
<1> DEFINE a == n + MaxInt + 1
           b == 2 * (MaxInt + 1)
<1>1. a \in Nat /\ b \in Nat /\ a < b
  BY QueriesAssumption
<1>2. \A x, y \in Nat : x < y => x % y = x
  OBVIOUS
<1>3. a % b = a
  <2> HIDE DEF a, b
  <2> QED
    BY <1>1, <1>2
<1> QED
  BY <1>3, QueriesAssumption DEF Wrap

\* The pages before the last are those that leave rows to show.
LEMMA LastPage ==
  ASSUME NEW total \in Nat, NEW limit \in Nat \ {0}, NEW p \in Nat \ {0}
  PROVE  IF p < TotalPages(total, limit) THEN p * limit < total ELSE p * limit >= total
<1> DEFINE q == (total + limit - 1) \div limit
<1>0. CASE total = 0
  <2>1. p * limit \in Nat
    OBVIOUS
  <2> QED
    BY <1>0, <2>1 DEF TotalPages
<1>1. CASE total # 0
  <2>1. q \in Nat /\ limit * q <= total + limit - 1 /\ total + limit - 1 < limit * q + limit
    OBVIOUS
  <2>2. TotalPages(total, limit) = q
    BY <1>1 DEF TotalPages
  <2> HIDE DEF q
  <2>3. q * limit <= total + limit - 1 /\ total <= q * limit
    BY <2>1
  <2>4. CASE p < q
    <3>1. (p + 1) * limit <= q * limit
      BY <2>1, <2>4, TimesMonotonic
    <3>2. (p + 1) * limit = p * limit + limit
      OBVIOUS
    <3> QED
      BY <2>1, <2>2, <2>3, <2>4, <3>1, <3>2
  <2>5. CASE p >= q
    <3>1. q * limit <= p * limit
      BY <2>1, <2>5, TimesMonotonic
    <3> QED
      BY <2>1, <2>2, <2>3, <2>5, <3>1
  <2> QED
    BY <2>1, <2>4, <2>5
<1> QED
  BY <1>0, <1>1

\* An offset is an int, wrapped or not.
LEMMA OffsetInt == ASSUME NEW f, f.page \in Int, f.limit \in Int PROVE Offset(f) \in Int
<1>1. (f.page - 1) * f.limit \in Int
  OBVIOUS
<1>2. \A n \in Int : Wrap(n) \in Int
  BY QueriesAssumption DEF Wrap
<1> QED
  BY <1>1, <1>2 DEF Offset

\* A page has what is left of the list, up to its limit.
LEMMA PageLength ==
  ASSUME NEW s \in Seq(Rows), NEW f, Offset(f) \in Nat, f.limit \in Nat \ {0}
  PROVE  /\ PageOf(s, f) \in Seq(Rows)
         /\ Len(PageOf(s, f)) = IF Offset(f) >= Len(s) THEN 0
                                ELSE Least(Len(s) - Offset(f), f.limit)
<1> DEFINE o == Offset(f)
           e == Least(Len(s), o + f.limit)
<1>1. o + 1 \in Int /\ e \in Int /\ e <= Len(s) /\ Len(s) \in Nat
  BY LenProperties DEF Least
<1>2. \A i \in (o + 1)..e : s[i] \in Rows
  BY <1>1, ElementOfSeq
<1>3. /\ SubSeq(s, o + 1, e) \in Seq(Rows)
      /\ Len(SubSeq(s, o + 1, e)) = IF o + 1 <= e THEN e - (o + 1) + 1 ELSE 0
  <2> HIDE DEF o, e
  <2> QED
    BY <1>1, <1>2, SubSeqProperties
<1>4. PageOf(s, f) = SubSeq(s, o + 1, e)
  BY DEF PageOf
<1>5. (IF o + 1 <= e THEN e - (o + 1) + 1 ELSE 0)
      = IF o >= Len(s) THEN 0 ELSE Least(Len(s) - o, f.limit)
  BY <1>1 DEF Least
<1> HIDE DEF o, e
<1>6. PageOf(s, f) \in Seq(Rows) /\ Len(PageOf(s, f)) = IF o >= Len(s) THEN 0 ELSE Least(Len(s) - o, f.limit)
  BY <1>3, <1>4, <1>5
<1> QED
  BY <1>6 DEF o

-----------------------------------------------------------------------------
(* The caller.                                                             *)

\* Only an accepted request is answered.
Accepted == /\ pc = "idle" => got = <<>>
            /\ pc \in {"asks", "done"} => Valid(ask)

\* The caller's invariant.
CInv == TypeOK /\ Accepted /\ FlattenSeq(got) \in Seq(Rows)

\* Nothing was asked or shown.
LEMMA InitCInv == Init => CInv
<1> SUFFICES ASSUME Init PROVE CInv
  OBVIOUS
<1>1. got = <<>> /\ got \in Seq(Seq(Rows)) /\ FlattenSeq(got) = <<>> /\ <<>> \in Seq(Rows)
  BY EmptySeq DEF Init, FlattenSeq
<1>2. TypeOK /\ Accepted
  BY <1>1 DEF Init, TypeOK, Accepted
<1> QED
  BY <1>1, <1>2 DEF CInv

\* A request that is answered is accepted, and asks for its own page first.
LEMMA AskStep ==
  ASSUME NEW a \in Params \cup Searches, Ask(a)
  PROVE  /\ got' = got /\ ask' = a /\ page' \in Nat \ {0}
         /\ pc' \in {"asks", "rejected"}
         /\ pc' = "asks" => Valid(a) /\ page' = Given(a.page, 1)
<1>1. ValidPage(a) => Given(a.page, 1) \in Nat \ {0}
  BY RequestAssumption DEF ValidPage, Given
<1>2. ValidParams(a) => ValidPage(a)
  BY DEF ValidParams
<1> QED
  BY <1>1, <1>2 DEF Ask, Accepts, Valid

\* The page that is shown is one of the rows.
LEMMA ShowStep ==
  ASSUME CInv, pc = "asks", NEW g \in Filters(ask, page), Show(g)
  PROVE  /\ ask' = ask
         /\ \/ Offset(NormalizeFilter(g)) < 0 /\ pc' = "failed" /\ UNCHANGED <<page, got>>
            \/ /\ Offset(NormalizeFilter(g)) \in Nat
               /\ \E s \in Sorted(NormalizeFilter(g)) :
                    /\ PageOf(s, NormalizeFilter(g)) \in Seq(Rows)
                    /\ got' = Append(got, PageOf(s, NormalizeFilter(g)))
               /\ IF page < TotalPages(Cardinality(Where(NormalizeFilter(g))), g.limit)
                    THEN page' = page + 1 /\ pc' = "asks" ELSE pc' = "done" /\ page' = page
<1> DEFINE f == NormalizeFilter(g)
<1>1. f.page = page /\ f.limit \in Nat \ {0} /\ f.limit = g.limit
  BY FilterFields, LimitInRange, QueriesAssumption DEF CInv, Accepted
<1>2. Offset(f) \in Int
  BY <1>1, OffsetInt DEF CInv, TypeOK
<1>3. ASSUME Offset(f) >= 0, NEW s \in Sorted(f) PROVE PageOf(s, f) \in Seq(Rows)
  <2> HIDE DEF f
  <2> QED
    BY <1>1, <1>2, <1>3, WhereFinite, PageLength
<1> QED
  BY <1>2, <1>3 DEF Show

\* No request, and no page, leaves the invariant.
LEMMA NextCInv == CInv /\ [Next]_vars => CInv'
<1> SUFFICES ASSUME CInv, [Next]_vars PROVE CInv'
  OBVIOUS
<1>1. ASSUME NEW a \in Params \cup Searches, Ask(a) PROVE CInv'
  BY <1>1, AskStep DEF CInv, TypeOK, Accepted, Valid
<1>2. ASSUME pc = "asks", NEW g \in Filters(ask, page), Show(g) PROVE CInv'
  <2>1. CASE got' = got
    BY <1>2, <2>1, ShowStep DEF CInv, TypeOK, Accepted, Valid
  <2>2. ASSUME NEW p \in Seq(Rows), got' = Append(got, p) PROVE CInv'
    <3>1. got' \in Seq(Seq(Rows)) /\ FlattenSeq(got') = FlattenSeq(got) \o p
      BY <2>2, FlattenAppend, AppendProperties DEF CInv, TypeOK
    <3>2. FlattenSeq(got') \in Seq(Rows)
      BY <3>1, ConcatProperties DEF CInv
    <3> QED
      BY <1>2, <3>1, <3>2, ShowStep DEF CInv, TypeOK, Accepted, Valid
  <2> QED
    BY <1>2, <2>1, <2>2, ShowStep
<1>3. CASE UNCHANGED vars
  BY <1>3 DEF vars, CInv, TypeOK, Accepted, Valid
<1> QED
  BY <1>1, <1>2, <1>3 DEF Next

\* So it always holds.
LEMMA SpecCInv == Spec => []CInv
  BY InitCInv, NextCInv, PTL DEF Spec

\* The types of the caller's variables; whatever is shown are rows of the table.
THEOREM CallerTypes == Spec => []TypeOK
<1>1. CInv => TypeOK
  BY DEF CInv
<1> QED
  BY <1>1, SpecCInv, PTL

\* Two accepted requests share a key, and with it a cached list, only if their
\* normalized filters agree in every field, the page among them, but for
\* probabilities less than a hundredth apart; a '|' in a gender or an age group
\* is the one thing that can spoil it (normalize.go CacheKey).
THEOREM KeysDoNotCollide == Spec => []KeysTellApart
<1>1. CInv => KeysTellApart
  <2> SUFFICES ASSUME CInv, pc = "asks", NEW f \in Filters(ask, page),
                      NEW b \in Params \cup Searches, Accepts(b),
                      NEW g \in Filters(b, Given(b.page, 1)),
                      CacheKey(f) = CacheKey(g),
                      NoBars(NormalizeFilter(f)), NoBars(NormalizeFilter(g)),
                      NEW k \in DOMAIN NormalizeFilter(f)
               PROVE  \/ NormalizeFilter(f)[k] = NormalizeFilter(g)[k]
                      \/ /\ k \in Probabilities
                         /\ None \notin {NormalizeFilter(f)[k], NormalizeFilter(g)[k]}
                         /\ NormalizeFilter(f)[k] - NormalizeFilter(g)[k] \in -9..9
    BY DEF KeysTellApart
  <2>1. Valid(ask) /\ Valid(b)
    <3>1. b.search = FALSE \/ b.search = TRUE
      BY RequestAssumption
    <3> QED
      BY <3>1 DEF CInv, Accepted, Valid, Accepts, ValidParams
  <2>2. Clean(NormalizeFilter(f)) /\ Clean(NormalizeFilter(g))
    BY <2>1, CleanFilter
  <2>3. FlattenSeq(PartsOf(NormalizeFilter(f))) = FlattenSeq(PartsOf(NormalizeFilter(g)))
    BY KeyIs
  <2>4. k \in Fields
    <3>1. DOMAIN f = Fields
      BY <2>1, FilterFields
    <3> QED
      BY <3>1 DEF NormalizeFilter
  <2>5. CASE k \in Probabilities
    <3>1. NormalizeFilter(f)[k] \in Int \cup {None} /\ NormalizeFilter(g)[k] \in Int \cup {None}
      BY <2>1, <2>5, ProbabilitiesParse
    <3> DEFINE x == NormalizeFilter(f)[k]
               y == NormalizeFilter(g)[k]
    <3>2. (x = None <=> y = None) /\ (x # None => Hundredths(x) = Hundredths(y))
      BY <2>2, <2>3, <2>4, <2>5, SameFields
    <3> HIDE DEF x, y
    <3>3. x \in Int \cup {None} /\ y \in Int \cup {None}
      BY <3>1 DEF x, y
    <3>4. x = y \/ (None \notin {x, y} /\ x - y \in -9..9)
      BY <3>2, <3>3, SameHundredths
    <3> QED
      BY <2>5, <3>4 DEF x, y
  <2>6. CASE k \notin Probabilities
    BY <2>2, <2>3, <2>4, <2>6, SameFields
  <2> QED
    BY <2>5, <2>6
<1> QED
  BY <1>1, SpecCInv, PTL

-----------------------------------------------------------------------------
(* What was shown.                                                         *)

\* The page asked for first, the rows of the list, the rows shown.
First == Given(ask.page, 1)
Total(f) == Cardinality(Where(NormalizeFilter(f)))
Shown == FlattenSeq(got)

\* The pages shown so far are full, and leave rows for the next.
SoFar(f) == /\ page = First + Len(got)
            /\ got # <<>> => (page - 1) * f.limit < Total(f)
            /\ \A i \in DOMAIN got : Len(got[i]) = f.limit
            /\ Len(Shown) = Len(got) * f.limit

\* The last page has the rest.
ToTheEnd(f) == /\ \A i \in DOMAIN got : Len(got[i]) <= f.limit
               /\ \A i \in 1..(Len(got) - 1) : Len(got[i]) = f.limit
               /\ Len(Shown) = IF Total(f) < Skipped(f) THEN 0 ELSE Total(f) - Skipped(f)

\* A list of which there is one order is shown in it.
InOrder(f) == First = 1 =>
  \A s : Sorted(NormalizeFilter(f)) = {s} => Shown = SubSeq(s, 1, Len(Shown))

\* Together, for the filter of a request that is read in one way and whose first
\* offset is an int.
ShownInv ==
  pc \in {"asks", "done"} /\ OneCountry(ask) =>
    \A f \in Filters(ask, 1) : Skipped(f) <= MaxInt =>
      /\ pc = "asks" => SoFar(f)
      /\ pc = "done" => ToTheEnd(f)
      /\ InOrder(f)

\* An accepted page is positive.
LEMMA FirstPage == ASSUME NEW a, Valid(a) PROVE Given(a.page, 1) \in Nat \ {0}
  BY RequestAssumption DEF Valid, ValidPage, Given

\* At first nothing was.
LEMMA InitShown == Init => ShownInv
  BY DEF Init, ShownInv

\* Nothing was shown when a page is asked for first.
LEMMA AskShown == ASSUME CInv, NEW a \in Params \cup Searches, Ask(a) PROVE ShownInv'
<1>1. got = <<>> /\ got' = <<>> /\ ask' = a /\ (pc' = "asks" => Valid(a) /\ page' = Given(a.page, 1)) /\ pc' # "done"
  <2>1. pc = "idle"
    BY DEF Ask
  <2> QED
    BY <2>1, AskStep DEF CInv, Accepted
<1> SUFFICES ASSUME pc' = "asks", NEW f \in Filters(a, 1) PROVE SoFar(f)' /\ InOrder(f)'
  BY <1>1 DEF ShownInv
<1>2. f.limit \in Nat \ {0} /\ Given(a.page, 1) \in Nat \ {0}
  BY <1>1, FilterFields, LimitInRange, FirstPage, QueriesAssumption
<1>3. Shown' = <<>> /\ Len(got') = 0 /\ DOMAIN got' = {} /\ First' = Given(a.page, 1)
  BY <1>1 DEF Shown, FlattenSeq, First
<1>4. SoFar(f)'
  BY <1>1, <1>2, <1>3 DEF SoFar
<1>5. \A s : SubSeq(s, 1, Len(Shown')) = <<>>
  BY <1>3, SubSeqEmpty
<1>6. InOrder(f)'
  BY <1>3, <1>5 DEF InOrder
<1> QED
  BY <1>4, <1>6

\* The offset of the page asked for: all before it was skipped or shown.
LEMMA OffsetNow ==
  ASSUME CInv, pc = "asks", OneCountry(ask), NEW f \in Filters(ask, 1), Skipped(f) <= MaxInt, SoFar(f),
         NEW g \in Filters(ask, page)
  PROVE  /\ g.limit = f.limit /\ f.limit \in Nat \ {0}
         /\ NormalizeFilter(g).limit = f.limit
         /\ Total(f) \in Nat /\ Cardinality(Where(NormalizeFilter(g))) = Total(f)
         /\ Offset(NormalizeFilter(g)) \in Nat
         /\ Offset(NormalizeFilter(g)) = Skipped(f) + Len(Shown)
         /\ page * f.limit = Offset(NormalizeFilter(g)) + f.limit
         /\ IF got = <<>> THEN Len(Shown) = 0 ELSE Offset(NormalizeFilter(g)) < Total(f)
         /\ Skipped(f) \in Nat /\ (First = 1 => Skipped(f) = 0)
<1> DEFINE l == f.limit
           h == NormalizeFilter(g)
           k == Len(got)
<1>1. Valid(ask) /\ page \in Nat \ {0} /\ First \in Nat \ {0} /\ k \in Nat /\ page = First + k
      /\ (k = 0 <=> got = <<>>)
  BY FirstPage, EmptySeq DEF CInv, TypeOK, Accepted, SoFar, First
<1>2. l \in Nat \ {0} /\ g.limit = l /\ h.limit = l /\ h.page = page
  BY <1>1, FilterFields, LimitInRange, QueriesAssumption
<1>3. Total(f) \in Nat /\ Total(f) <= MaxInt /\ Cardinality(Where(h)) = Total(f)
  <2>1. Where(NormalizeFilter(f)) = Where(h)
    BY <1>1, SameList
  <2> QED
    BY <2>1, WhereFinite, QueriesAssumption DEF Total
<1>4. Skipped(f) = (First - 1) * l /\ Len(Shown) = k * l
  BY DEF Skipped, First, SoFar
<1> HIDE DEF l, h, k
<1>5. (page - 1) * l = (First - 1) * l + k * l /\ page * l = (page - 1) * l + l
  BY <1>1, <1>2
<1>6. (First - 1) * l \in Nat /\ k * l \in Nat /\ (k = 0 => k * l = 0) /\ (First = 1 => (First - 1) * l = 0)
  BY <1>1, <1>2
<1>7. (page - 1) * l \in 0..MaxInt
  <2>1. CASE got = <<>>
    BY <1>1, <1>4, <1>5, <1>6, <2>1, QueriesAssumption
  <2>2. CASE got # <<>>
    <3>1. (page - 1) * l < Total(f)
      BY <2>2 DEF SoFar, l
    <3> QED
      BY <1>3, <1>5, <1>6, <3>1, QueriesAssumption
  <2> QED
    BY <2>1, <2>2
<1>8. Offset(h) = (page - 1) * l
  <2>1. Wrap((page - 1) * l) = (page - 1) * l
    BY <1>7, WrapSmall
  <2> QED
    BY <1>2, <2>1 DEF Offset
<1>9. got # <<>> => Offset(h) < Total(f)
  BY <1>8 DEF SoFar, l
<1>10. Offset(h) \in Nat /\ Offset(h) = Skipped(f) + Len(Shown) /\ page * l = Offset(h) + l
  BY <1>4, <1>5, <1>6, <1>8
<1>11. (got = <<>> => Len(Shown) = 0) /\ Skipped(f) \in Nat /\ (First = 1 => Skipped(f) = 0)
  BY <1>1, <1>4, <1>6
<1> QED
  BY <1>2, <1>3, <1>9, <1>10, <1>11 DEF l, h

\* A page begins where those before it end, and is full unless it is the last.
LEMMA ShowShown ==
  ASSUME CInv, ShownInv, pc = "asks", NEW g \in Filters(ask, page), Show(g) PROVE ShownInv'
<1> SUFFICES ASSUME pc' \in {"asks", "done"}, OneCountry(ask'), NEW f \in Filters(ask', 1), Skipped(f)' <= MaxInt
             PROVE  /\ pc' = "asks" => SoFar(f)'
                    /\ pc' = "done" => ToTheEnd(f)'
                    /\ InOrder(f)'
  BY DEF ShownInv
<1> DEFINE h == NormalizeFilter(g)
           l == f.limit
           total == Cardinality(Where(h))
           o == Offset(h)
           k == Len(got)
           n == Len(Shown)
<1>1. ask' = ask /\ First' = First /\ Skipped(f)' = Skipped(f)
  BY ShowStep DEF First, Skipped
<1>2. Skipped(f) <= MaxInt /\ SoFar(f) /\ InOrder(f) /\ OneCountry(ask) /\ f \in Filters(ask, 1)
  BY <1>1 DEF ShownInv
<1>3. /\ g.limit = l /\ l \in Nat \ {0} /\ h.limit = l /\ total \in Nat /\ Total(f) = total
      /\ o \in Nat /\ o = Skipped(f) + n /\ page * l = o + l
      /\ IF got = <<>> THEN n = 0 ELSE o < total
      /\ Skipped(f) \in Nat /\ (First = 1 => Skipped(f) = 0)
  BY <1>2, OffsetNow
<1>4. PICK s \in Sorted(h) : got' = Append(got, PageOf(s, h)) /\ PageOf(s, h) \in Seq(Rows)
  BY <1>3, ShowStep
<1>5. IF page < TotalPages(total, l) THEN page' = page + 1 /\ pc' = "asks" ELSE pc' = "done" /\ page' = page
  BY <1>3, ShowStep
<1>6. s \in Seq(Rows) /\ Len(s) = total
  BY <1>4, WhereFinite
<1> DEFINE p == PageOf(s, h)
<1>7. Len(p) = IF o >= total THEN 0 ELSE Least(total - o, l)
  BY <1>3, <1>6, PageLength
<1>8. Shown' = Shown \o p /\ Shown \in Seq(Rows) /\ n \in Nat
  <2>1. FlattenSeq(Append(got, p)) = FlattenSeq(got) \o p
    BY <1>4, FlattenAppend DEF CInv, TypeOK
  <2> QED
    BY <1>4, <2>1, LenProperties DEF Shown, CInv
<1>9. Len(Shown') = n + Len(p)
  BY <1>4, <1>8, ConcatProperties
<1>10. /\ k \in Nat /\ (k = 0 <=> got = <<>>) /\ Len(got') = k + 1 /\ got' # <<>>
       /\ \A i \in 1..k : got'[i] = got[i]
       /\ got'[k + 1] = p
       /\ DOMAIN got' = 1..(k + 1) /\ DOMAIN got = 1..k
  BY <1>4, AppendProperties, LenProperties, EmptySeq DEF CInv, TypeOK
<1>11. /\ page = First + k /\ n = k * l
       /\ \A i \in 1..k : Len(got[i]) = l
  BY <1>2, <1>10 DEF SoFar
<1>12. page \in Nat \ {0} /\ First \in Nat \ {0}
  BY FirstPage DEF CInv, TypeOK, Accepted, First
<1>13. Total(f)' = total
  BY <1>3 DEF Total
<1> HIDE DEF h, l, total, o, k, n, p
<1>14. IF page < TotalPages(total, l) THEN o + l < total ELSE o + l >= total
  BY <1>3, <1>12, LastPage
<1>15. ASSUME page < TotalPages(total, l) PROVE pc' = "asks" /\ SoFar(f)'
  <2>1. Len(p) = l /\ page' = page + 1 /\ pc' = "asks"
    BY <1>3, <1>5, <1>7, <1>14, <1>15 DEF Least
  <2>2. \A i \in DOMAIN got' : Len(got'[i]) = l
    BY <1>10, <1>11, <2>1
  <2>3. page' = First + Len(got')
    BY <1>10, <1>11, <1>12, <2>1
  <2>4. (page' - 1) * l < total
    <3>1. page' - 1 = page
      BY <1>12, <2>1
    <3> QED
      BY <1>3, <1>14, <1>15, <3>1
  <2>5. Len(Shown') = Len(got') * l
    <3>1. (k + 1) * l = k * l + l
      BY <1>3, <1>10
    <3> QED
      BY <1>9, <1>10, <1>11, <2>1, <3>1
  <2>6. SoFar(f)'
    BY <1>1, <1>13, <2>2, <2>3, <2>4, <2>5 DEF SoFar, l
  <2> QED
    BY <2>1, <2>6
<1>16. ASSUME ~ page < TotalPages(total, l) PROVE pc' = "done" /\ ToTheEnd(f)'
  <2>1. pc' = "done" /\ Len(p) = (IF o >= total THEN 0 ELSE total - o) /\ Len(p) <= l
    BY <1>3, <1>5, <1>7, <1>14, <1>16 DEF Least
  <2>2. \A i \in DOMAIN got' : Len(got'[i]) <= l
    BY <1>3, <1>10, <1>11, <2>1
  <2>3. \A i \in 1..(Len(got') - 1) : Len(got'[i]) = l
    BY <1>10, <1>11
  <2>4. Len(Shown') = IF total < Skipped(f) THEN 0 ELSE total - Skipped(f)
    <3>1. \A a, b, c \in Nat : b = 0 \/ c + b < a =>
            b + (IF c + b >= a THEN 0 ELSE a - (c + b)) = IF a < c THEN 0 ELSE a - c
      OBVIOUS
    <3>2. n \in Nat /\ total \in Nat /\ Skipped(f) \in Nat /\ o = Skipped(f) + n
      BY <1>3, <1>8
    <3>3. n = 0 \/ o < total
      BY <1>3
    <3>4. Len(Shown') = n + IF o >= total THEN 0 ELSE total - o
      BY <1>9, <2>1
    <3> QED
      BY <3>1, <3>2, <3>3, <3>4
  <2>5. ToTheEnd(f)'
    BY <1>1, <1>13, <2>2, <2>3, <2>4 DEF ToTheEnd, l
  <2> QED
    BY <2>1, <2>5
<1>17. ASSUME First = 1, NEW t, Sorted(NormalizeFilter(f)) = {t} PROVE Shown' = SubSeq(t, 1, Len(Shown'))
  <2>1. Sorted(h) = {t}
    BY <1>2, <1>17, SameList DEF h, CInv, Accepted
  <2>2. s = t /\ Shown = SubSeq(s, 1, n)
    BY <1>2, <1>4, <1>17, <2>1 DEF InOrder, n
  <2> DEFINE e == Least(total, o + l)
  <2>3. o = n /\ n <= total
    BY <1>3, <1>8, <1>17
  <2>4. p = SubSeq(s, n + 1, e)
    BY <1>3, <1>6, <2>3 DEF p, PageOf, o
  <2>5. n \in 0..total /\ e \in n..total /\ Len(Shown') = e
    <3>1. Len(Shown') = n + IF n >= total THEN 0 ELSE Least(total - n, l)
      BY <1>7, <1>9, <2>3
    <3>2. \A a, b \in Nat : b <= a => LET z == IF a <= b + l THEN a ELSE b + l IN
            z \in b..a /\ z = b + IF b >= a THEN 0 ELSE IF a - b <= l THEN a - b ELSE l
      BY <1>3
    <3> QED
      BY <1>3, <1>8, <2>3, <3>1, <3>2 DEF Least
  <2> HIDE DEF e
  <2>6. SubSeq(s, 1, n) \o SubSeq(s, n + 1, e) = SubSeq(s, 1, e)
    <3>1. 1 \in 1..Len(s) + 1 /\ n \in (1 - 1)..Len(s) /\ e \in n..Len(s)
      BY <1>6, <2>5, LenProperties
    <3> QED
      BY <1>6, <3>1, ConcatAdjacentSubSeq
  <2> QED
    BY <1>8, <2>2, <2>4, <2>5, <2>6
<1>18. InOrder(f)'
  BY <1>1, <1>17 DEF InOrder
<1> QED
  BY <1>15, <1>16, <1>18

\* Every step keeps what was shown in order.
LEMMA NextShown == CInv /\ ShownInv /\ [Next]_vars => ShownInv'
<1> SUFFICES ASSUME CInv, ShownInv, [Next]_vars PROVE ShownInv'
  OBVIOUS
<1>1. CASE UNCHANGED vars
  BY <1>1 DEF vars, ShownInv, SoFar, ToTheEnd, InOrder, Shown, First, Skipped
<1> QED
  BY <1>1, AskShown, ShowShown DEF Next

\* So it is at all times.
LEMMA SpecShown == Spec => [](CInv /\ ShownInv)
<1>1. CInv /\ ShownInv /\ [Next]_vars => (CInv /\ ShownInv)'
  BY NextCInv, NextShown
<1> QED
  BY <1>1, InitCInv, InitShown, PTL DEF Spec

\* Whoever follows the links from any page, of which the offset is an int, is
\* shown as many rows as are left of the list, on pages of which all but the last
\* are full (repository/profile.go List, response.go PaginatedList).
THEOREM PagesShowTheRest == Spec => []PagesAreFull
<1>1. CInv /\ ShownInv => PagesAreFull
  <2> SUFFICES ASSUME CInv, ShownInv, pc = "done", OneCountry(ask), NEW f \in Filters(ask, 1), Skipped(f) <= MaxInt
               PROVE  /\ Len(Shown) = IF Total(f) - Skipped(f) < 0 THEN 0 ELSE Total(f) - Skipped(f)
                      /\ \A i \in DOMAIN got : Len(got[i]) <= MaxLimit
                      /\ \A i \in 1..(Len(got) - 1) : Len(got[i]) = f.limit
    BY DEF PagesAreFull, Shown, Total
  <2>1. ToTheEnd(f)
    BY DEF ShownInv
  <2>2. Valid(ask)
    BY DEF CInv, Accepted
  <2>3. f.limit \in 1..MaxLimit /\ MaxLimit \in Nat
    BY <2>2, FilterFields, LimitInRange, QueriesAssumption
  <2>4. Total(f) \in Nat /\ Skipped(f) \in Int
    BY <2>2, <2>3, WhereFinite, FirstPage, QueriesAssumption DEF Total, Skipped
  <2>5. \A i \in DOMAIN got : Len(got[i]) \in Nat
    BY LenProperties, ElementOfSeq DEF CInv, TypeOK
  <2> QED
    BY <2>1, <2>3, <2>4, <2>5 DEF ToTheEnd
<1> QED
  BY <1>1, SpecShown, PTL

\* From page 1 to the end they are shown as many rows as the list has and, if it
\* has one order only, these very rows in that order.  The export is as long, or
\* as its cap allows, and begins with the same rows.
THEOREM LinksLeadThrough == Spec => []LinksLeadThroughTheList
<1>1. CInv /\ ShownInv => LinksLeadThroughTheList
  <2> SUFFICES ASSUME CInv, ShownInv, pc = "done", OneCountry(ask), First = 1
               PROVE  /\ \A s \in Lists(ask) : /\ Len(Shown) = Len(s)
                                               /\ Cardinality(Lists(ask)) = 1 => Shown = s
                      /\ \A e \in Exports(ask) :
                           /\ Len(e) = Least(ListAllRowCap, Len(Shown))
                           /\ Cardinality(Lists(ask)) = 1 => e = SubSeq(Shown, 1, Len(e))
    BY DEF LinksLeadThroughTheList, Shown, First
  <2>1. Valid(ask)
    BY DEF CInv, Accepted
  <2>2. PICK f : Filters(ask, 1) = {f}
    BY <2>1, OneFilter
  <2>3. Lists(ask) = Sorted(NormalizeFilter(f))
    BY <2>2 DEF Lists
  <2>4. Skipped(f) = 0
    <3>1. f.limit \in Nat
      BY <2>1, <2>2, FilterFields, LimitInRange, QueriesAssumption
    <3> QED
      BY <3>1 DEF Skipped, First
  <2>5. ToTheEnd(f) /\ InOrder(f)
    BY <2>2, <2>4, QueriesAssumption DEF ShownInv
  <2>6. Total(f) \in Nat /\ \A s \in Sorted(NormalizeFilter(f)) : s \in Seq(Rows) /\ Len(s) = Total(f)
    BY WhereFinite DEF Total
  <2>7. Len(Shown) = Total(f)
    BY <2>4, <2>5, <2>6 DEF ToTheEnd
  <2>8. ASSUME Cardinality(Lists(ask)) = 1, NEW t \in Lists(ask) PROVE Shown = t
    <3>1. PICK s : Sorted(NormalizeFilter(f)) = {s}
      BY <2>3, <2>8, OrdersFinite, FS_Singleton
    <3>2. s \in Seq(Rows) /\ Len(s) = Len(Shown) /\ s = t
      BY <2>3, <2>6, <2>7, <2>8, <3>1
    <3>3. Shown = SubSeq(s, 1, Len(s))
      BY <2>5, <3>1, <3>2 DEF InOrder
    <3> QED
      BY <3>2, <3>3, SubSeqFull
  <2>9. ASSUME NEW e \in Exports(ask)
        PROVE  /\ Len(e) = Least(ListAllRowCap, Len(Shown))
               /\ Cardinality(Lists(ask)) = 1 => e = SubSeq(Shown, 1, Len(e))
    <3>1. PICK s \in Lists(ask) : e = SubSeq(s, 1, Least(ListAllRowCap, Len(s)))
      BY <2>9 DEF Exports
    <3> DEFINE n == Least(ListAllRowCap, Len(s))
    <3>2. s \in Seq(Rows) /\ Len(s) = Len(Shown)
      BY <2>3, <2>6, <2>7, <3>1
    <3>3. n \in 0..Len(s)
      BY <2>6, <2>7, <3>2, QueriesAssumption DEF Least
    <3> HIDE DEF n
    <3>4. \A i \in 1..n : s[i] \in Rows
      BY <2>6, <2>7, <3>2, <3>3, ElementOfSeq
    <3>5. Len(SubSeq(s, 1, n)) = n
      BY <2>6, <2>7, <3>2, <3>3, <3>4, SubSeqProperties
    <3>6. e = SubSeq(s, 1, n) /\ n = Least(ListAllRowCap, Len(Shown))
      BY <3>1, <3>2 DEF n
    <3> QED
      BY <2>8, <3>5, <3>6
  <2> QED
    BY <2>3, <2>6, <2>7, <2>8, <2>9
<1> QED
  BY <1>1, SpecShown, PTL
=============================================================================
