-------------------------------- MODULE Filters --------------------------------
(***************************************************************************)
(* The filters of a query: src/AndingFilter.cc, src/OringFilter.cc and the *)
(* column filters for times, integers, strings and lists.  A filter is     *)
(* kept in negation normal form; besides accepting rows it tells what it   *)
(* restricts a column to, from which the tables choose the log files,      *)
(* message classes and objects they look at.                               *)
(*                                                                         *)
(* A filter is a leaf [kind |-> "column", col, op, ref], or a conjunction  *)
(* or disjunction [kind, subs].  The operators of strings and lists that    *)
(* match regular expressions or ignore the case are left out.              *)
(***************************************************************************)
EXTENDS Integers, Sequences, SequencesExt, FiniteSetsExt, Functions

CONSTANTS MaxInt,         \* INT_MAX
          IntBits,        \* the width of an int
          TimezoneOffset, \* of the Localtime header
          MessageClasses, \* the bits of the mask of a value set
          ColumnType,     \* "time", "int", "string" or "list", by column
          ColumnFilters,  \* the filters on a column, and their negations
          MaxDepth,       \* bound: how deep connectives may be nested
          Rows            \* the rows of the table, a field for each column

MinInt == -MaxInt - 1

Columns == DOMAIN ColumnType
ColumnsOf(type) == {col \in Columns : ColumnType[col] = type}

\* An int that has come to n modulo its 2 ^ 32 values.
Wrap(n) == ((n - MinInt) % (MaxInt - MinInt + 1)) + MinInt

------------------------------------------------------------------------------
\* Column filters.

OrderOperators == {"equal", "not_equal", "less", "greater_or_equal", "greater",
                   "less_or_equal"}
BitOperators == {"matches", "doesnt_match", "equal_icase", "not_equal_icase",
                 "matches_icase", "doesnt_match_icase"}

\* The operators that are modelled for the columns of a type.
OperatorsOf(type) ==
    CASE type \in {"time", "int"} -> OrderOperators \cup BitOperators
      [] type = "string" -> {"equal", "not_equal"}
      [] type = "list" -> {"equal", "not_equal", "greater_or_equal", "less"}

\* A std::optional is the set of its value, or empty.
None == {}

\* Mutant of Negation: < is taken for the opposite of >.
NegationOfOrder(op) ==
    [equal |-> "not_equal", not_equal |-> "equal",
     matches |-> "doesnt_match", doesnt_match |-> "matches",
     equal_icase |-> "not_equal_icase", not_equal_icase |-> "equal_icase",
     matches_icase |-> "doesnt_match_icase", doesnt_match_icase |-> "matches_icase",
     less |-> "greater_or_equal", greater_or_equal |-> "less",
     greater |-> "less", less_or_equal |-> "greater"][op]

\* negateRelationalOperator
Negation(op) ==
    [equal |-> "not_equal", not_equal |-> "equal",
     matches |-> "doesnt_match", doesnt_match |-> "matches",
     equal_icase |-> "not_equal_icase", not_equal_icase |-> "equal_icase",
     matches_icase |-> "doesnt_match_icase", doesnt_match_icase |-> "matches_icase",
     less |-> "greater_or_equal", greater_or_equal |-> "less",
     greater |-> "less_or_equal", less_or_equal |-> "greater"][op]

NegatedLeaf(f) == [f EXCEPT !.op = Negation(@)]

\* The bits that are set in an int, by two's complement.
BitsOf[x \in MinInt .. MaxInt] == {k \in 0 .. IntBits - 1 : (x \div 2 ^ k) % 2 = 1}

\* x & y is y, x or 0: superset, subset and contains none of.
EvalBits(x, op, y) ==
    \/ op = "matches" /\ BitsOf[y] \subseteq BitsOf[x]
    \/ op = "doesnt_match" /\ ~(BitsOf[y] \subseteq BitsOf[x])
    \/ op = "equal_icase" /\ BitsOf[x] \subseteq BitsOf[y]
    \/ op = "not_equal_icase" /\ ~(BitsOf[x] \subseteq BitsOf[y])
    \/ op = "matches_icase" /\ BitsOf[x] \cap BitsOf[y] # {}
    \/ op = "doesnt_match_icase" /\ BitsOf[x] \cap BitsOf[y] = {}

\* eval of IntFilter.cc and TimeFilter.cc
Eval(x, op, y) ==
    \/ op = "equal" /\ x = y
    \/ op = "not_equal" /\ x # y
    \/ op = "less" /\ x < y
    \/ op = "greater_or_equal" /\ x >= y
    \/ op = "greater" /\ x > y
    \/ op = "less_or_equal" /\ x <= y
    \/ EvalBits(x, op, y)

TimeAccepts(f, row) == Eval(row[f.col] + TimezoneOffset, f.op, f.ref)
IntAccepts(f, row) == Eval(row[f.col], f.op, f.ref)
StringAccepts(f, row) == Eval(row[f.col], f.op, f.ref)

\* A list contains the name (>=) or does not (<); = and != ask only whether the
\* list is empty, with the empty name.
ListAccepts(f, row) ==
    \/ f.op = "equal" /\ row[f.col] = {}
    \/ f.op = "not_equal" /\ row[f.col] # {}
    \/ f.op = "greater_or_equal" /\ f.ref \in row[f.col]
    \/ f.op = "less" /\ f.ref \notin row[f.col]

ColumnAccepts(f, row) ==
    CASE ColumnType[f.col] = "time" -> TimeAccepts(f, row)
      [] ColumnType[f.col] = "int" -> IntAccepts(f, row)
      [] ColumnType[f.col] = "string" -> StringAccepts(f, row)
      [] ColumnType[f.col] = "list" -> ListAccepts(f, row)

\* The value a bound is computed from.
BoundRef(f) == IF ColumnType[f.col] = "time" THEN Wrap(f.ref - TimezoneOffset) ELSE f.ref

ColumnGreatestLowerBound(f, col) ==
    CASE f.col # col -> None
      [] f.col = col /\ f.op \in {"equal", "greater_or_equal"} -> {BoundRef(f)}
      [] f.col = col /\ f.op = "greater" -> {Wrap(BoundRef(f) + 1)}
      [] OTHER -> None

ColumnLeastUpperBound(f, col) ==
    CASE f.col # col -> None
      [] f.col = col /\ f.op \in {"equal", "less_or_equal"} -> {BoundRef(f)}
      [] f.col = col /\ f.op = "less" -> {Wrap(BoundRef(f) - 1)}
      [] OTHER -> None

ColumnValueSet(f, col) ==
    IF f.col # col THEN None
    ELSE {{c \in MessageClasses : Eval(c, f.op, BoundRef(f))}}

StringRestriction(f) == IF f.op = "equal" THEN {f.ref} ELSE None
ListRestriction(f) == IF f.op = "greater_or_equal" THEN {f.ref} ELSE None

ColumnStringRestriction(f, col) ==
    CASE f.col # col -> None
      [] f.col = col /\ ColumnType[col] = "string" -> StringRestriction(f)
      [] f.col = col /\ ColumnType[col] = "list" -> ListRestriction(f)
      [] OTHER -> None

IsRow(row) ==
    /\ \A col \in ColumnsOf("time") :
           {row[col], row[col] + TimezoneOffset} \subseteq MinInt .. MaxInt
    /\ \A col \in ColumnsOf("int") : row[col] \in MinInt .. MaxInt

IsColumnFilter(f) ==
    /\ DOMAIN f = {"kind", "col", "op", "ref"} /\ f.kind = "column"
    /\ f.col \in Columns /\ f.op \in OperatorsOf(ColumnType[f.col])
    /\ ColumnType[f.col] \in {"time", "int"} => f.ref \in MinInt .. MaxInt

\* Reference values, time stamps and local time stamps are ints; filters on a
\* column are negated into filters on that column.
ASSUME FiltersAssumption ==
    /\ MaxInt \in Nat /\ IntBits \in Nat \ {0} /\ MaxInt = 2 ^ (IntBits - 1) - 1
    /\ TimezoneOffset \in Int
    /\ MaxDepth \in Nat
    /\ MessageClasses \subseteq Nat
    /\ ColumnType \in [Columns -> {"time", "int", "string", "list"}]
    /\ \A row \in Rows : IsRow(row)
    /\ \A f \in ColumnFilters : IsColumnFilter(f) /\ NegatedLeaf(f) \in ColumnFilters

------------------------------------------------------------------------------
\* Connectives.

\* The filters with connectives up to a depth.
FiltersOf[depth \in 0 .. MaxDepth] ==
    IF depth = 0 THEN ColumnFilters
    ELSE ColumnFilters
         \cup [kind : {"and", "or"}, subs : Seq(FiltersOf[depth - 1])]

AllFilters == FiltersOf[MaxDepth]

\* What a function of filters says of the subfilters of a connective.
OfSubs(value, f) == [i \in DOMAIN f.subs |-> value[f.subs[i]]]

And(subs) == [kind |-> "and", subs |-> subs]
Or(subs) == [kind |-> "or", subs |-> subs]

IsTautology(f) == f.kind = "and" /\ f.subs = <<>>
IsContradiction(f) == f.kind = "or" /\ f.subs = <<>>

Accepts(f, row) ==
    LET accepts[g \in AllFilters] ==
            IF g.kind = "column" THEN ColumnAccepts(g, row)
            ELSE IF g.kind = "and" THEN \A i \in DOMAIN g.subs : accepts[g.subs[i]]
            ELSE \E i \in DOMAIN g.subs : accepts[g.subs[i]]
    IN  accepts[f]

Conjuncts(f) == IF f.kind = "and" THEN f.subs ELSE <<f>>
Disjuncts(f) == IF f.kind = "or" THEN f.subs ELSE <<f>>

\* A connective with a single subfilter is that subfilter.
Unwrap(f) == IF Len(f.subs) = 1 THEN f.subs[1] ELSE f

\* AndingFilter::make
AndingMake(subs) ==
    IF \E i \in DOMAIN subs : IsContradiction(subs[i]) THEN Or(<<>>)
    ELSE Unwrap(And(FlattenSeq([i \in DOMAIN subs |-> Conjuncts(subs[i])])))

\* OringFilter::make
OringMake(subs) ==
    IF \E i \in DOMAIN subs : IsTautology(subs[i]) THEN And(<<>>)
    ELSE Unwrap(Or(FlattenSeq([i \in DOMAIN subs |-> Disjuncts(subs[i])])))

Negate(f) ==
    LET negated[g \in AllFilters] ==
            IF g.kind = "column" THEN NegatedLeaf(g)
            ELSE IF g.kind = "and" THEN OringMake(OfSubs(negated, g))
            ELSE AndingMake(OfSubs(negated, g))
    IN  negated[f]

\* Mutant of ColumnPartial: a filter on another column accepts nothing.
ColumnPartialNothing(f, cols) == IF f.col \in cols THEN f ELSE OringMake(<<>>)

\* ColumnFilter::partialFilter: a filter on another column becomes a tautology.
ColumnPartial(f, cols) == IF f.col \in cols THEN f ELSE AndingMake(<<>>)

PartialFilter(f, cols) ==
    LET partial[g \in AllFilters] ==
            IF g.kind = "column" THEN ColumnPartial(g, cols)
            ELSE IF g.kind = "and" THEN AndingMake(OfSubs(partial, g))
            ELSE OringMake(OfSubs(partial, g))
    IN  partial[f]

------------------------------------------------------------------------------
\* What a filter restricts a column to.

\* Combine what those subfilters say that say anything.
Combined(said, Combine(_)) ==
    LET all == UNION Range(said)
    IN  IF all = {} THEN None ELSE {Combine(all)}

Intersection(sets) == {c \in UNION sets : \A s \in sets : c \in s}
Union(sets) == UNION sets

AndingLowerBound(bounds) == Combined(bounds, Max)
AndingUpperBound(bounds) == Combined(bounds, Min)
AndingValueSet(sets) == Combined(sets, Intersection)

\* The first restriction there is.
AndingRestriction(said) ==
    LET some == {i \in DOMAIN said : said[i] # None}
    IN  IF some = {} THEN None ELSE said[Min(some)]

\* Mutant of OringLowerBound: the bounds are combined as in a conjunction.
OringLowerBoundMax(bounds) == Combined(bounds, Max)

OringLowerBound(bounds) == Combined(bounds, Min)
OringUpperBound(bounds) == Combined(bounds, Max)
OringValueSet(sets) == Combined(sets, Union)

\* Mutant of OringRestriction: subfilters without a restriction are skipped.
OringRestrictionSkipping(said) ==
    LET some == SelectSeq(said, LAMBDA r : r # None)
    IN  IF some # <<>> /\ \A i \in DOMAIN some : some[i] = some[1]
        THEN some[1] ELSE None

\* A disjunction restricts to a value if all its subfilters do, to the same.
OringRestriction(said) ==
    IF said # <<>> /\ \A i \in DOMAIN said : said[i] = said[1]
    THEN said[1] ELSE None

GreatestLowerBoundFor(f, col) ==
    LET bound[g \in AllFilters] ==
            IF g.kind = "column" THEN ColumnGreatestLowerBound(g, col)
            ELSE IF g.kind = "and" THEN AndingLowerBound(OfSubs(bound, g))
            ELSE OringLowerBound(OfSubs(bound, g))
    IN  bound[f]

LeastUpperBoundFor(f, col) ==
    LET bound[g \in AllFilters] ==
            IF g.kind = "column" THEN ColumnLeastUpperBound(g, col)
            ELSE IF g.kind = "and" THEN AndingUpperBound(OfSubs(bound, g))
            ELSE OringUpperBound(OfSubs(bound, g))
    IN  bound[f]

ValueSetFor(f, col) ==
    LET set[g \in AllFilters] ==
            IF g.kind = "column" THEN ColumnValueSet(g, col)
            ELSE IF g.kind = "and" THEN AndingValueSet(OfSubs(set, g))
            ELSE OringValueSet(OfSubs(set, g))
    IN  set[f]

StringValueRestrictionFor(f, col) ==
    LET said[g \in AllFilters] ==
            IF g.kind = "column" THEN ColumnStringRestriction(g, col)
            ELSE IF g.kind = "and" THEN AndingRestriction(OfSubs(said, g))
            ELSE OringRestriction(OfSubs(said, g))
    IN  said[f]
==============================================================================
