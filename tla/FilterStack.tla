------------------------------ MODULE FilterStack ------------------------------
(***************************************************************************)
(* The filter headers of a query: src/Query.cc.  Filter pushes a filter on *)
(* a stack, And and Or combine the topmost ones, Negate negates the top;   *)
(* in the end the whole stack becomes one conjunction.  The same machine   *)
(* serves the WaitCondition headers.                                       *)
(*                                                                         *)
(* Beside the stack runs a second one of what the client means: the set of *)
(* rows that each header selects by the meaning of its name.               *)
(***************************************************************************)
EXTENDS Filters

CONSTANTS Leaves,   \* the filters of Filter headers
          MaxStack, \* bound: height of the stack
          MaxHeaders \* bound: number of headers

\* Every header adds a connective at most, as does the end of the query; and a
\* partial filter replaces a column filter by a connective.  A log has a time and
\* a class in every row.
ASSUME FilterStackAssumption ==
    /\ Leaves \subseteq ColumnFilters
    /\ MaxStack \in Nat /\ MaxHeaders \in Nat
    /\ MaxDepth >= MaxHeaders + 2
    /\ "time" \in ColumnsOf("time") /\ "class" \in ColumnsOf("int")
    /\ \A row \in Rows : row.class \in MessageClasses

VARIABLES filters,  \* FilterStack filters of Query::Query
          meant,    \* ghost: the rows each filter should select
          failed,   \* OutputBuffer::setError was called
          headers   \* number of headers read

vars == <<filters, meant, failed, headers>>

Init ==
    /\ filters = <<>>
    /\ meant = <<>>
    /\ failed = FALSE
    /\ headers = 0

ReadHeader == headers < MaxHeaders /\ headers' = headers + 1

\* Filter: column op value
FilterLine(f) ==
    /\ ReadHeader
    /\ Len(filters) < MaxStack
    /\ filters' = Append(filters, f)
    /\ meant' = Append(meant, {row \in Rows : ColumnAccepts(f, row)})
    /\ UNCHANGED failed

Below(stack, n) == SubSeq(stack, 1, Len(stack) - n)
Top(stack, n) == SubSeq(stack, Len(stack) - n + 1, Len(stack))

\* And: n and Or: n.  If the stack is too low it is emptied, and the answer is
\* an error.
Combine(n, filter, rows) ==
    /\ ReadHeader
    /\ IF n <= Len(filters)
       THEN /\ filters' = Append(Below(filters, n), filter)
            /\ meant' = Append(Below(meant, n), rows)
            /\ UNCHANGED failed
       ELSE /\ filters' = <<>>
            /\ meant' = <<>>
            /\ failed' = TRUE

AllOf(sets) == {row \in Rows : \A s \in sets : row \in s}
AndLine(n) == Combine(n, AndingMake(Top(filters, n)), AllOf(Range(Top(meant, n))))
OrLine(n) == Combine(n, OringMake(Top(filters, n)), UNION Range(Top(meant, n)))

\* Negate:
NegateLine ==
    /\ ReadHeader
    /\ IF filters = <<>>
       THEN failed' = TRUE /\ UNCHANGED <<filters, meant>>
       ELSE /\ filters' = Append(Front(filters), Negate(Last(filters)))
            /\ meant' = Append(Front(meant), Rows \ Last(meant))
            /\ UNCHANGED failed

Next ==
    \/ \E f \in Leaves : FilterLine(f)
    \/ \E n \in 0 .. MaxStack + 1 : AndLine(n) \/ OrLine(n)
    \/ NegateLine

Spec == Init /\ [][Next]_vars

\* The filter of the query, should there be no further header.
Filter == AndingMake(filters)

------------------------------------------------------------------------------
Selected(f) == {row \in Rows : Accepts(f, row)}

\* The query selects exactly the rows its headers ask for, through negations
\* pushed to the leaves, flattening, and the shortcuts of make.
SelectsWhatWasMeant ==
    /\ \A i \in DOMAIN filters : Selected(filters[i]) = meant[i]
    /\ Selected(Filter) = AllOf(Range(meant))

\* partialFilter, by which TableStateHistory skips objects early, looks only at
\* the given columns and accepts every row that the filter accepts.
PartialFilterIsWeaker ==
    \A cols \in SUBSET Columns :
        LET partial == PartialFilter(Filter, cols) IN
        \A row \in Selected(Filter) : \A other \in Rows :
            (\A c \in cols : row[c] = other[c]) => Accepts(partial, other)

\* The host or service group index is used only if every row that the query
\* selects is found through it.
StringRestrictionSound ==
    \A row \in Selected(Filter) :
        /\ \A col \in ColumnsOf("string") :
               \A v \in StringValueRestrictionFor(Filter, col) : row[col] = v
        /\ \A col \in ColumnsOf("list") :
               \A v \in StringValueRestrictionFor(Filter, col) : v \in row[col]

SoundFor(f) ==
    \A row \in Selected(f) :
        /\ \A b \in GreatestLowerBoundFor(f, "time") : row.time >= b
        /\ \A b \in LeastUpperBoundFor(f, "time") : row.time <= b
        /\ \A s \in ValueSetFor(f, "class") : row.class \in s

\* No disjunction has one subfilter that bounds a column and one that does not.
BoundAlike(f, g) ==
    /\ GreatestLowerBoundFor(f, "time") = None <=> GreatestLowerBoundFor(g, "time") = None
    /\ LeastUpperBoundFor(f, "time") = None <=> LeastUpperBoundFor(g, "time") = None
    /\ ValueSetFor(f, "class") = None <=> ValueSetFor(g, "class") = None

EvenOrs(f) ==
    LET even[g \in AllFilters] ==
            g.kind = "column"
            \/ /\ \A i \in DOMAIN g.subs : even[g.subs[i]]
               /\ g.kind = "or" =>
                      \A i, j \in DOMAIN g.subs : BoundAlike(g.subs[i], g.subs[j])
    IN  even[f]

\* The log files and message classes that a log query looks at contain every
\* row it selects, if no disjunction bounds a column on one side only.
EvenBoundsSound == EvenOrs(Filter) => SoundFor(Filter)
==============================================================================
