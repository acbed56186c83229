----------------------------- MODULE QueriesMC -----------------------------
\* Five profiles, of which some are equal in each of the columns they are sorted
\* by, spellings of a gender and a country that differ in case, and texts that
\* spell the part of an age group and of an age.
EXTENDS Queries

RowsMC == 1..5

Row(g, a, group, c, gp, cp, t) ==
  [gender |-> g, age |-> a, age_group |-> group, country_id |-> c,
   gender_probability |-> gp, country_probability |-> cp, created_at |-> t]

ColumnMC == << Row("male",   20, "adult",    "NG", 900, 800, 1),
               Row("female", 20, "adult",    "GH", 910, 700, 1),
               Row("female", 20, "adult",    "NG", 850, 404, 1),
               Row("male",   11, "child",    "GH", 990, 200, 2),
               Row("female", 70, "senior",   "NG", 850, 900, 1) >>

\* In lower case and in upper case.
Cases == {<<"male", "MALE">>, <<"female", "FEMALE">>, <<"adult", "ADULT">>, <<"child", "CHILD">>,
          <<"senior", "SENIOR">>, <<"teenager", "TEENAGER">>, <<"ng", "NG">>, <<"gh", "GH">>,
          <<"male|ag:adult", "MALE|AG:ADULT">>, <<"ng|mna:20", "NG|MNA:20">>}
TextsMC == {c[1] : c \in Cases} \cup {c[2] : c \in Cases}
LowerMC == [t \in TextsMC |-> (CHOOSE c \in Cases : t \in {c[1], c[2]})[1]]
UpperMC == [t \in TextsMC |-> (CHOOSE c \in Cases : t \in {c[1], c[2]})[2]]
BeforeMC == [t \in TextsMC |-> CASE t = "male|ag:adult" -> "male" [] t = "MALE|AG:ADULT" -> "MALE"
                                 [] t = "ng|mna:20" -> "ng" [] t = "NG|MNA:20" -> "NG"
                                 [] OTHER -> t]
SpelledMC == [t \in TextsMC |-> CASE t = "male|ag:adult" -> << <<"age_group", "adult">> >>
                                  [] t = "MALE|AG:ADULT" -> << <<"AG", "ADULT">> >>
                                  [] t = "ng|mna:20" -> << <<"min_age", 20>> >>
                                  [] t = "NG|MNA:20" -> << <<"MNA", "20">> >>
                                  [] OTHER -> <<>>]

All == [search |-> FALSE, gender |-> None, age_group |-> None, country_id |-> None,
        min_age |-> None, max_age |-> None, min_gender_probability |-> None,
        min_country_probability |-> None, sort_by |-> "", order |-> "",
        page |-> None, limit |-> None]

\* Filters, sorting, and pages.  The offset of page 17 is past MaxInt, and back at 0.
ParamsMC ==
  {[All EXCEPT !.gender = g, !.country_id = c, !.min_age = a, !.max_age = b] :
     g \in {None, "male", "MALE"}, c \in {None, "NG", "ng"},
     a \in {None, 12, 20, 70}, b \in {None, 12, 20}}
  \cup {[All EXCEPT !.age_group = g, !.min_gender_probability = p, !.min_country_probability = q] :
     g \in {None, "adult", "teenager"}, p \in {None, 846, 849, 851, Bad}, q \in {None, 404, 800}}
  \cup {[All EXCEPT !.gender = g, !.sort_by = s, !.order = o] :
     g \in {None, "female"}, s \in {"", "age", "gender_probability", "name"},
     o \in {"", "asc", "desc", "up"}}
  \cup {[All EXCEPT !.page = p, !.limit = l] :
     p \in {None, 0, 1, 2, 15, 17, Bad}, l \in {None, 0, 1, 4, 9}}
  \cup {[All EXCEPT !.gender = g, !.age_group = a, !.country_id = c, !.min_age = m] :
     g \in {"male", "male|ag:adult"}, a \in {None, "adult"},
     c \in {None, "ng", "ng|mna:20"}, m \in {None, 20}}

Nothing == [search |-> TRUE, genders |-> {}, young |-> FALSE, groups |-> {}, above |-> None,
            below |-> None, between |-> None, code |-> None, names |-> {}, aliases |-> {},
            page |-> None, limit |-> None]

SearchesMC ==
  {[Nothing EXCEPT !.genders = g, !.young = y, !.groups = a, !.above = m, !.between = b] :
     g \in SUBSET {"male", "female", "both"}, y \in BOOLEAN,
     a \in SUBSET {"child", "adult"}, m \in {None, 15}, b \in {None, <<70, 20>>}}
  \cup {[Nothing EXCEPT !.code = c, !.names = n, !.aliases = a, !.below = m, !.page = p, !.limit = l] :
     c \in {None, "NG"}, n \in SUBSET {"NG", "GH"}, a \in SUBSET {"NG", "GH"}, m \in {None, 60},
     p \in {None, 2}, l \in {None, 9}}
=============================================================================
