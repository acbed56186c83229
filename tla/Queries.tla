------------------------------ MODULE Queries ------------------------------
(***************************************************************************)
(* What GET /api/profiles, its /search and its /export read a request as,  *)
(* and the pages they show of the table.  A caller asks for a page and     *)
(* follows the links to the next ones; nobody writes meanwhile.  Links     *)
(* repeat the parameters as they came, and so every page is read anew.     *)
(*                                                                         *)
(* A text parameter is a member of Texts; Lower and Upper are what it is   *)
(* without the blanks around it and in one case.  One that holds a '|',    *)
(* which separates the parts of a cache key, spells parts of its own:      *)
(* "male|ag:adult" is "male" before its bar and spells the part of an age  *)
(* group.  Probabilities are in thousandths.  A search text is what the    *)
(* parser's tables find in it.                                             *)
(***************************************************************************)
EXTENDS Integers, Sequences, SequencesExt, FiniteSets

CONSTANTS Rows,      \* the profiles in the table
          Column,    \* Column[r]: a record of the columns of row r
          Texts, Lower, Upper,
          Before,    \* Before[t]: the text t up to its first '|'
          Spelled,   \* Spelled[t]: the parts of a key that t spells after it
          Params,    \* the parameters lists are asked with
          Searches,  \* the texts searched for
          DefaultLimit, MaxLimit,  \* rows to a page: 10, and 50 at most, in the code
          ListAllRowCap,           \* rows to an export, 10,000 in the code
          MaxInt,    \* the largest int, 2^63 - 1 in the code
          Bad,       \* a parameter that does not parse
          None       \* a parameter that is not there

ASSUME QueriesAssumption ==
  /\ DefaultLimit \in 1..MaxLimit /\ MaxLimit \in 1..MaxInt /\ MaxInt \in Nat
  /\ None \notin Texts /\ None # Bad
  /\ ListAllRowCap \in Nat

\* A part of a key is a tag, named here for the field that has it, and a value.
KeyParts == <<"gender", "age_group", "country_id", "min_age", "max_age", "min_gender_probability",
              "min_country_probability", "sort_by", "order", "page", "limit">>

\* A text is what stands before its bar and what it spells after it.  The tags
\* are in lower case: no text in upper case spells one.
ASSUME TextsAssumption ==
  /\ {Lower, Upper, Before} \subseteq [Texts -> Texts]
  /\ \A f \in {Lower, Upper} : \A t \in Texts : f[f[t]] = f[t]
  /\ \A t, u \in Texts : Before[t] = Before[u] /\ Spelled[t] = Spelled[u] => t = u
  /\ \A t \in Texts : \A i \in DOMAIN Spelled[Upper[t]] :
       Spelled[Upper[t]][i][1] \notin Range(KeyParts)
  /\ \A t \in Texts : Spelled[t] \in Seq(Range(Spelled[t]))

\* The table's rows can be counted.
ASSUME TableAssumption == IsFiniteSet(Rows) /\ Cardinality(Rows) <= MaxInt

\* Numbers parse or do not; a search text holds words of the parser's tables.
ASSUME RequestAssumption ==
  /\ None \notin Int /\ Bad \notin Int
  /\ \A a \in Params \cup Searches : {a.page, a.limit} \subseteq Int \cup {None, Bad}
  /\ \A p \in Params :
       /\ p.search = FALSE
       /\ {p.gender, p.age_group, p.country_id} \subseteq Texts \cup {None}
       /\ {p.min_gender_probability, p.min_country_probability} \subseteq Int \cup {None, Bad}
  /\ \A q \in Searches :
       /\ q.search = TRUE
       /\ q.genders \subseteq {"female", "male", "both"}
       /\ (q.genders \ {"both"}) \cup q.groups \subseteq Texts
       /\ q.groups \subseteq {"child", "teenager", "adult", "senior"}
       /\ q.code \in Texts \cup {None} /\ q.names \cup q.aliases \subseteq Texts
       /\ IsFiniteSet(q.names \cup q.aliases)

VARIABLES pc,     \* where the caller stands
          ask,    \* what it asks for
          page,   \* the page it asks for now
          got     \* the pages it was shown so far

vars == <<pc, ask, page, got>>

Init == pc = "idle" /\ ask = None /\ page = 1 /\ got = <<>>

-----------------------------------------------------------------------------
(* Parameters.                                                             *)

SortColumns == {"age", "created_at", "gender_probability"}
Least(a, b) == IF a <= b THEN a ELSE b
Given(v, otherwise) == IF v = None THEN otherwise ELSE v

\* Mutant of ValidPage: any number will do.
AnyPage(p) == p.page # Bad /\ p.limit # Bad

\* page and limit as List and Search parse them.
ValidPage(p) == p.page # Bad /\ p.limit # Bad /\ Given(p.page, 1) > 0 /\ Given(p.limit, 1) > 0

ValidParams(p) == /\ Bad \notin {p.min_age, p.max_age, p.min_gender_probability,
                                 p.min_country_probability}
                  /\ p.sort_by \in SortColumns \cup {""} /\ p.order \in {"", "asc", "desc"}
                  /\ ValidPage(p)

\* Mutant of ClampLimit: a large limit is kept.
NoClamp(p) == Given(p.limit, DefaultLimit)

\* The rows to a page that List and Search settle on.
ClampLimit(p) == Least(Given(p.limit, DefaultLimit), MaxLimit)

\* parseFilterParams, for the page n.
ParseFilterParams(p, n) ==
  [gender |-> p.gender, age_group |-> p.age_group, country_id |-> p.country_id,
   min_age |-> p.min_age, max_age |-> p.max_age,
   min_gender_probability |-> p.min_gender_probability,
   min_country_probability |-> p.min_country_probability,
   sort_by |-> p.sort_by, order |-> p.order,
   page |-> n, limit |-> ClampLimit(p)]

\* A text that is not there has no case.
Folded(fold, t) == IF t = None THEN None ELSE fold[t]

Swapped(f) == f.min_age # None /\ f.max_age # None /\ f.min_age > f.max_age

NormalizeFilter(f) ==
  [f EXCEPT !.gender = Folded(Lower, @), !.age_group = Folded(Lower, @),
            !.country_id = Folded(Upper, @),
            !.sort_by = IF @ = "" THEN "created_at" ELSE @,
            !.order = IF @ = "" THEN "asc" ELSE @,
            !.limit = Least(@, MaxLimit),
            !.min_age = IF Swapped(f) THEN f.max_age ELSE @,
            !.max_age = IF Swapped(f) THEN f.min_age ELSE @]

\* %.2f of a number of thousandths (a tie may be rounded down too; Params has none).
Hundredths(p) == IF p = None THEN None ELSE (p + 5) \div 10

Probabilities == {"min_gender_probability", "min_country_probability"}

\* Mutant of PartOf: the key has no page.
PartOfButPage(n, k) ==
  IF n[k] = None \/ k = "page" THEN <<>>
  ELSE IF k \in {"gender", "age_group", "country_id"}
         THEN << <<k, Before[n[k]]>> >> \o Spelled[n[k]]
  ELSE << <<k, IF k \in Probabilities THEN Hundredths(n[k]) ELSE n[k]>> >>

\* What the field k adds to the key of a normalized filter.
PartOf(n, k) ==
  IF n[k] = None THEN <<>>
  ELSE IF k \in {"gender", "age_group", "country_id"}
         THEN << <<k, Before[n[k]]>> >> \o Spelled[n[k]]
  ELSE << <<k, IF k \in Probabilities THEN Hundredths(n[k]) ELSE n[k]>> >>

\* CacheKey: the parts joined in order; a hash stands for what is hashed.
CacheKey(f) == FlattenSeq([i \in DOMAIN KeyParts |-> PartOf(NormalizeFilter(f), KeyParts[i])])

-----------------------------------------------------------------------------
(* ParseSearchQuery.                                                       *)

\* The first of the words in the order of the if-chain that the text has.
FirstOf(chain, words) == {w \in words : \A i, j \in DOMAIN chain :
                            chain[i] = w /\ chain[j] \in words => i <= j}

\* The age groups a text may be read as.
AgeGroups(q) ==
  IF q.young \/ q.groups = {} THEN {None}
  ELSE FirstOf(<<"child", "teenager", "adult", "senior">>, q.groups)

\* "male and female" is no filter, and a text with both words is female.
Genders(q) == IF "both" \in q.genders \/ q.genders = {} THEN {None}
              ELSE FirstOf(<<"female", "male">>, q.genders)

\* The last rule that applies counts.
MinAge(q) == IF q.between # None THEN q.between[1]
             ELSE IF q.above # None THEN q.above ELSE IF q.young THEN 16 ELSE None
MaxAge(q) == IF q.between # None THEN q.between[2]
             ELSE IF q.below # None THEN q.below ELSE IF q.young THEN 24 ELSE None

\* Go ranges over the tables of names and of aliases in any order, and the
\* first entry that the text has counts.  With a code ("from ng") only the
\* first entry of the table of names is tried.
Countries(q) == IF q.aliases # {} THEN q.aliases
                ELSE IF q.code # None THEN {q.code} \cup q.names
                ELSE IF q.names # {} THEN q.names ELSE {None}

\* What the text may be read as; the handler sets page and limit.
Readings(q, n) ==
  {[gender |-> g, age_group |-> a, country_id |-> c, min_age |-> MinAge(q), max_age |-> MaxAge(q),
    min_gender_probability |-> None, min_country_probability |-> None,
    sort_by |-> "created_at", order |-> "asc",
    page |-> n, limit |-> ClampLimit(q)]
     : g \in Genders(q), a \in AgeGroups(q), c \in Countries(q)}

\* Else "Unable to interpret query" (422).
Interpretable(q) == \E f \in Readings(q, 1) :
  \E k \in {"gender", "age_group", "country_id", "min_age", "max_age"} : f[k] # None

\* The filters that the request may be read as.
Filters(a, n) == IF a.search THEN Readings(a, n) ELSE {ParseFilterParams(a, n)}

-----------------------------------------------------------------------------
(* The table.                                                              *)

\* The WHERE clause.
Where(f) == {r \in Rows :
  LET c == Column[r] IN
  /\ \A k \in {"gender", "age_group", "country_id"} : f[k] # None => Lower[c[k]] = Lower[f[k]]
  /\ f.min_age # None => c.age >= f.min_age
  /\ f.max_age # None => c.age <= f.max_age
  /\ f.min_gender_probability # None => c.gender_probability >= f.min_gender_probability
  /\ f.min_country_probability # None => c.country_probability >= f.min_country_probability}

\* ORDER BY one column; rows that are equal in it come in any order, which need
\* not be the same for the next query.
Sorted(f) == {s \in SetToSeqs(Where(f)) :
  \A i, j \in DOMAIN s : i < j =>
       LET a == Column[s[i]][f.sort_by]  b == Column[s[j]][f.sort_by] IN
       IF f.order = "desc" THEN a >= b ELSE a <= b}

Wrap(n) == ((n + MaxInt + 1) % (2 * (MaxInt + 1))) - (MaxInt + 1)

\* Mutant of Offset: pages are counted from 0.
OffsetFromZero(f) == Wrap(f.page * f.limit)

\* (page - 1) * limit, in 64 bits.
Offset(f) == Wrap((f.page - 1) * f.limit)

\* LIMIT and OFFSET.
PageOf(s, f) == SubSeq(s, Offset(f) + 1, Least(Len(s), Offset(f) + f.limit))

\* Mutant of TotalPages: rounded down.
TotalPagesDown(total, limit) == IF total < limit THEN 1 ELSE total \div limit

\* math.Ceil, and at least 1.
TotalPages(total, limit) == IF total = 0 THEN 1 ELSE (total + limit - 1) \div limit

-----------------------------------------------------------------------------
(* The caller.                                                             *)

\* Else a 422.
Accepts(a) == IF a.search THEN Interpretable(a) /\ ValidPage(a) ELSE ValidParams(a)

Ask(a) == /\ pc = "idle"
          /\ ask' = a
          /\ page' = IF ValidPage(a) THEN Given(a.page, 1) ELSE 1
          /\ pc' = IF Accepts(a) THEN "asks" ELSE "rejected"
          /\ UNCHANGED got

\* The page of the normalized filter, and the link to the next one, counted with
\* the handler's own.  PostgreSQL refuses a negative OFFSET (500).
Show(g) ==
  LET f == NormalizeFilter(g) IN
  /\ pc = "asks"
  /\ UNCHANGED ask
  /\ \/ /\ Offset(f) < 0
        /\ pc' = "failed" /\ UNCHANGED <<page, got>>
     \/ /\ Offset(f) >= 0
        /\ \E s \in Sorted(f) : got' = Append(got, PageOf(s, f))
        /\ IF page < TotalPages(Cardinality(Where(f)), g.limit)
             THEN page' = page + 1 /\ UNCHANGED pc
             ELSE pc' = "done" /\ UNCHANGED page

Next == \/ \E a \in Params \cup Searches : Ask(a)
        \/ \E f \in (IF pc = "asks" THEN Filters(ask, page) ELSE {}) : Show(f)

Spec == Init /\ [][Next]_vars

\* The lists that a request may mean, in every order they may come in.
Lists(a) == UNION {Sorted(NormalizeFilter(f)) : f \in Filters(a, 1)}

\* GET /api/profiles/export of the same parameters: ListAll's rows, up to its cap.
Exports(a) == {SubSeq(s, 1, Least(ListAllRowCap, Len(s))) : s \in Lists(a)}

-----------------------------------------------------------------------------
(* Properties.                                                             *)

\* The caller's variables have their types.
TypeOK == /\ pc \in {"idle", "asks", "rejected", "failed", "done"}
          /\ ask \in Params \cup Searches \cup {None}
          /\ page \in Nat \ {0}
          /\ got \in Seq(Seq(Rows))

\* A list, or a search text that mentions one country at most in whatever form.
OneCountry(a) ==
  a.search => Cardinality(({a.code} \ {None}) \cup a.names \cup a.aliases) <= 1

\* The rows before the page that was asked for.
Skipped(f) == (Given(ask.page, 1) - 1) * f.limit

\* The links lead through the whole list (handler/profile.go List and Search,
\* response.go PaginatedList): whoever follows them from page 1 to the end was
\* shown as many rows as there are, and, if no two of these are equal in the
\* column they are sorted by, these rows in their order.  The export has as many
\* of them as its cap allows, and then it has the first ones.
LinksLeadThroughTheList ==
  pc = "done" /\ OneCountry(ask) /\ Given(ask.page, 1) = 1 =>
    LET shown == FlattenSeq(got)
        oneOrder == Cardinality(Lists(ask)) = 1 IN
    /\ \A s \in Lists(ask) : Len(shown) = Len(s) /\ (oneOrder => shown = s)
    /\ ~ask.search => \A e \in Exports(ask) :
         Len(e) = Least(ListAllRowCap, Len(shown)) /\ (oneOrder => e = SubSeq(shown, 1, Len(e)))

\* From whatever page the links are followed, they show what is left of the list
\* and no more, on pages of which all but the last are full, unless the page is
\* so far that its offset is no int (repository/profile.go List).
PagesAreFull ==
  pc = "done" /\ OneCountry(ask) =>
    \A f \in Filters(ask, 1) :
      LET left == Cardinality(Where(NormalizeFilter(f))) - Skipped(f) IN
      Skipped(f) <= MaxInt =>
        /\ Len(FlattenSeq(got)) = (IF left < 0 THEN 0 ELSE left)
        /\ \A i \in DOMAIN got : Len(got[i]) <= MaxLimit
        /\ \A i \in 1..(Len(got) - 1) : Len(got[i]) = f.limit

\* No gender or age group with a '|' in it.
NoBars(n) == \A k \in {"gender", "age_group"} : n[k] # None => Spelled[n[k]] = <<>>

\* Two requests, for whatever pages, have one cache key, and so one page between
\* them, only if they mean the same page of the same list, but for probabilities
\* less than a hundredth apart (normalize.go CacheKey).  With a '|' in its gender
\* or its age group a request may spell another's key; in its country, which is
\* put in upper case, it may not.
KeysTellApart ==
  pc = "asks" /\ got = <<>> =>
    \A f \in Filters(ask, page) :
      LET m == NormalizeFilter(f)
          key == CacheKey(f) IN
      \A b \in {b \in Params \cup Searches : Accepts(b)} : \A g \in Filters(b, Given(b.page, 1)) :
        LET n == NormalizeFilter(g) IN
        key = CacheKey(g) /\ NoBars(m) /\ NoBars(n) =>
          \A k \in DOMAIN m :
            \/ m[k] = n[k]
            \/ k \in Probabilities /\ None \notin {m[k], n[k]} /\ m[k] - n[k] \in -9..9
=============================================================================
