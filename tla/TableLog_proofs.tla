---------------------------- MODULE TableLog_proofs ----------------------------
(***************************************************************************)
(* Proofs about FilterStack, TableLog and HistoryReader: what the filters  *)
(* of a query select and imply, for any columns and values; what a query   *)
(* on the log is answered and what a report reads, for any logs in the     *)
(* order of time.  What is proved about the filters uses nothing of the    *)
(* assumptions of TableLog.                                                *)
(***************************************************************************)
EXTENDS HistoryReader, SequenceTheorems, FiniteSetTheorems, NaturalsInduction,
        WellFoundedInduction, TLAPS

\* A set of numbers with zero and the successors of its members has all of them.
LEMMA AllNumbers ==
  ASSUME NEW P \in SUBSET Nat, 0 \in P, \A n \in P : n + 1 \in P
  PROVE  P = Nat
<1> DEFINE missing == Nat \ P
<1> SUFFICES ASSUME missing # {} PROVE FALSE
  OBVIOUS
<1>1. PICK x \in missing : \A y \in missing : ~(<<y, x>> \in OpToRel(<, Nat))
  <2>1. IsWellFoundedOn(OpToRel(<, Nat), Nat)
    BY NatLessThanWellFounded
  <2> QED BY <2>1, WFMin
<1>2. x \in Nat /\ x \notin P /\ x # 0
  BY <1>1
<1>3. x - 1 \in Nat /\ x - 1 < x
  BY <1>2
<1>4. x - 1 \in P
  BY <1>1, <1>3 DEF OpToRel
<1>5. x - 1 + 1 = x
  BY <1>2
<1> QED BY <1>2, <1>4, <1>5

------------------------------------------------------------------------------
(* Trees of filters *)

\* A filter is on a column, or a connective of filters of the depth below.
OnColumns(F) == ColumnFilters \cup [kind : {"and", "or"}, subs : Seq(F)]

\* The levels of filters exist up to every depth.
LEMMA LevelsExist ==
  \E h : h = [depth \in 0 .. MaxDepth |->
                 IF depth = 0 THEN ColumnFilters ELSE OnColumns(h[depth - 1])]
<1> DEFINE Step(h, d) == IF d = 0 THEN ColumnFilters ELSE OnColumns(h[d - 1])
           P == {n \in Nat : \E h : h = [d \in 0 .. n |-> Step(h, d)]}
<1>1. 0 \in P
  <2> DEFINE h == [d \in 0 .. 0 |-> ColumnFilters]
  <2>1. h = [d \in 0 .. 0 |-> Step(h, d)]
    OBVIOUS
  <2> QED BY <2>1
<1>2. ASSUME NEW n \in P PROVE n + 1 \in P
  <2>1. PICK h : h = [d \in 0 .. n |-> Step(h, d)]
    OBVIOUS
  <2> HIDE DEF Step
  <2>2. PICK k : k = [d \in 0 .. n + 1 |-> Step(h, d)]
    OBVIOUS
  <2>3. \A d \in 0 .. n : k[d] = h[d]
    BY <2>1, <2>2
  <2>4. ASSUME NEW d \in 0 .. n + 1 PROVE Step(k, d) = Step(h, d)
    <3>1. CASE d = 0
      BY <3>1 DEF Step
    <3>2. CASE d # 0
      <4>1. d - 1 \in 0 .. n
        BY <3>2
      <4>2. k[d - 1] = h[d - 1]
        BY <2>3, <4>1
      <4> QED BY <3>2, <4>2 DEF Step
    <3> QED BY <3>1, <3>2
  <2>5. k = [d \in 0 .. n + 1 |-> Step(k, d)]
    BY <2>2, <2>4
  <2> QED BY <2>5
<1> HIDE DEF P
<1>3. P = Nat
  BY <1>1, <1>2, AllNumbers DEF P
<1> QED BY <1>3, FiltersAssumption DEF P

\* What FiltersOf is at each depth.
LEMMA Levels ==
  /\ FiltersOf[0] = ColumnFilters
  /\ \A d \in 1 .. MaxDepth : FiltersOf[d] = OnColumns(FiltersOf[d - 1])
<1>1. FiltersOf = [depth \in 0 .. MaxDepth |->
                      IF depth = 0 THEN ColumnFilters ELSE OnColumns(FiltersOf[depth - 1])]
  BY LevelsExist DEF FiltersOf, OnColumns
<1> QED BY <1>1, FiltersAssumption

\* A filter of some depth is one of every greater depth.
LEMMA LevelsGrow ==
  ASSUME NEW d \in 0 .. MaxDepth, NEW e \in d .. MaxDepth
  PROVE  FiltersOf[d] \subseteq FiltersOf[e]
<1> DEFINE P == {n \in Nat : n + 1 <= MaxDepth => FiltersOf[n] \subseteq FiltersOf[n + 1]}
<1>1. 0 \in P
  BY Levels DEF OnColumns
<1>2. ASSUME NEW n \in P PROVE n + 1 \in P
  <2> SUFFICES ASSUME n + 2 <= MaxDepth PROVE FiltersOf[n + 1] \subseteq FiltersOf[n + 2]
    BY FiltersAssumption
  <2>1. FiltersOf[n] \subseteq FiltersOf[n + 1]
    BY FiltersAssumption
  <2>2. Seq(FiltersOf[n]) \subseteq Seq(FiltersOf[n + 1])
    BY <2>1, SeqMonotonic
  <2>3. /\ FiltersOf[n + 1] = OnColumns(FiltersOf[n])
        /\ FiltersOf[n + 2] = OnColumns(FiltersOf[n + 1])
    BY Levels, FiltersAssumption
  <2> QED BY <2>2, <2>3 DEF OnColumns
<1> HIDE DEF P
<1>3. P = Nat
  BY <1>1, <1>2, AllNumbers DEF P
<1> DEFINE Q == {n \in Nat : d + n <= MaxDepth => FiltersOf[d] \subseteq FiltersOf[d + n]}
<1>4. 0 \in Q
  BY FiltersAssumption
<1>5. ASSUME NEW n \in Q PROVE n + 1 \in Q
  <2> SUFFICES ASSUME d + n + 1 <= MaxDepth PROVE FiltersOf[d] \subseteq FiltersOf[d + n + 1]
    BY FiltersAssumption
  <2>1. d + n \in P /\ d + n <= MaxDepth
    BY <1>3, FiltersAssumption
  <2>2. FiltersOf[d + n] \subseteq FiltersOf[d + n + 1]
    BY <2>1 DEF P
  <2> QED BY <2>1, <2>2
<1> HIDE DEF Q
<1>6. Q \subseteq Nat
  BY DEF Q
<1>7. Q = Nat
  BY <1>4, <1>5, <1>6, AllNumbers
<1>8. e - d \in Nat /\ d + (e - d) = e /\ e <= MaxDepth
  BY FiltersAssumption
<1> QED BY <1>7, <1>8 DEF Q

\* The connectives of filters in F.
Connectives(F) == [kind : {"and", "or"}, subs : Seq(F)]

\* Columns and connectives are told apart by their kind, and what is a filter of
\* the next depth is one of the two.
LEMMA Kinds ==
  /\ \A f \in ColumnFilters : f.kind = "column"
  /\ \A F : \A g \in Connectives(F) :
        /\ g.kind \in {"and", "or"} /\ g.subs \in Seq(F)
        /\ g \notin ColumnFilters
  /\ \A F : OnColumns(F) = ColumnFilters \cup Connectives(F)
  /\ \A F : \A subs \in Seq(F) : And(subs) \in Connectives(F) /\ Or(subs) \in Connectives(F)
<1>1. \A f \in ColumnFilters : f.kind = "column"
  BY FiltersAssumption DEF IsColumnFilter
<1> QED BY <1>1 DEF Connectives, OnColumns, And, Or

\* Every filter is on a column or a connective of filters of a smaller depth.
LEMMA Depths ==
  /\ \A d \in 0 .. MaxDepth : ColumnFilters \subseteq FiltersOf[d] /\ FiltersOf[d] \subseteq AllFilters
  /\ \A d \in 1 .. MaxDepth : FiltersOf[d] = ColumnFilters \cup Connectives(FiltersOf[d - 1])
  /\ \A d \in 1 .. MaxDepth : FiltersOf[d - 1] \subseteq FiltersOf[d]
<1>1. \A d \in 1 .. MaxDepth : FiltersOf[d] = ColumnFilters \cup Connectives(FiltersOf[d - 1])
  BY Levels, Kinds
<1>2. \A d \in 0 .. MaxDepth : ColumnFilters \subseteq FiltersOf[d]
  BY Levels DEF OnColumns
<1>3. \A d \in 0 .. MaxDepth : FiltersOf[d] \subseteq AllFilters
  BY LevelsGrow, FiltersAssumption DEF AllFilters
<1>4. \A d \in 1 .. MaxDepth : FiltersOf[d - 1] \subseteq FiltersOf[d]
  <2> TAKE d \in 1 .. MaxDepth
  <2>1. d - 1 \in 0 .. MaxDepth /\ d \in (d - 1) .. MaxDepth
    BY FiltersAssumption
  <2> QED BY <2>1, LevelsGrow
<1> QED BY <1>1, <1>2, <1>3, <1>4

\* Induction over filters: a set that has the filters on columns and, with some
\* filters of a depth, their connectives has all of that depth.
LEMMA FilterInduction ==
  ASSUME NEW P, ColumnFilters \subseteq P,
         \A d \in 1 .. MaxDepth : \A g \in Connectives(FiltersOf[d - 1] \cap P) : g \in P
  PROVE  AllFilters \subseteq P
<1> DEFINE N == {n \in Nat : n <= MaxDepth => FiltersOf[n] \subseteq P}
<1>1. 0 \in N
  BY Levels
<1>2. ASSUME NEW n \in N PROVE n + 1 \in N
  <2> SUFFICES ASSUME n + 1 <= MaxDepth PROVE FiltersOf[n + 1] \subseteq P
    OBVIOUS
  <2>1. FiltersOf[n] \subseteq P /\ n + 1 \in 1 .. MaxDepth /\ n + 1 - 1 = n
    BY FiltersAssumption
  <2>2. FiltersOf[n] \cap P = FiltersOf[n]
    BY <2>1
  <2>3. FiltersOf[n + 1] = ColumnFilters \cup Connectives(FiltersOf[n])
    BY <2>1, Depths
  <2> QED BY <2>1, <2>2, <2>3
<1> HIDE DEF N
<1>3. N \subseteq Nat
  BY DEF N
<1>4. N = Nat
  BY <1>1, <1>2, <1>3, AllNumbers
<1> QED BY <1>4, FiltersAssumption DEF N, AllFilters

------------------------------------------------------------------------------
(* Functions of filters by recursion *)

\* What a function of filters says of a filter g by what it says of its subfilters:
\* column[g] for a filter on a column, connective[g][values] for a connective.
Step(column, connective, value, g) ==
  IF g \in ColumnFilters THEN column[g] ELSE connective[g][OfSubs(value, g)]

\* The column filters and the connectives of a depth have their values in the set
\* V of that depth.
StaysIn(V, column, connective) ==
  /\ \A g \in ColumnFilters : column[g] \in V[0]
  /\ \A d \in 1 .. MaxDepth : V[d - 1] \subseteq V[d]
  /\ \A d \in 1 .. MaxDepth : \A g \in Connectives(FiltersOf[d - 1]) :
        \A values \in Seq(V[d - 1]) :
            Len(values) = Len(g.subs) => connective[g][values] \in V[d]

IsSolution(value, column, connective) ==
  \A g \in AllFilters : value[g] = Step(column, connective, value, g)

\* Functions by recursion over filters exist, with all values in these sets.
LEMMA Recursion ==
  ASSUME NEW column, NEW connective, NEW V, StaysIn(V, column, connective)
  PROVE  \E value \in [AllFilters -> V[MaxDepth]] : IsSolution(value, column, connective)
<1> USE DEF StaysIn
<1> DEFINE Good(h, n) ==
             /\ h = [g \in FiltersOf[n] |-> Step(column, connective, h, g)]
             /\ \A g \in FiltersOf[n] : h[g] \in V[n]
             /\ \A d \in 0 .. n : \A g \in FiltersOf[d] : h[g] \in V[d]
           P == {n \in Nat : n <= MaxDepth => \E h : Good(h, n)}
<1>1. 0 \in P
  <2> DEFINE h == [g \in FiltersOf[0] |-> column[g]]
  <2>1. h = [g \in FiltersOf[0] |-> Step(column, connective, h, g)]
    BY Levels DEF Step
  <2>2. \A g \in FiltersOf[0] : h[g] \in V[0]
    BY Levels
  <2>3. Good(h, 0)
    BY <2>1, <2>2
  <2> HIDE DEF h
  <2> QED BY <2>3
<1>2. ASSUME NEW n \in P PROVE n + 1 \in P
  <2> SUFFICES ASSUME n + 1 <= MaxDepth PROVE \E h : Good(h, n + 1)
    OBVIOUS
  <2>1. PICK h : Good(h, n)
    BY FiltersAssumption
  <2> DEFINE d == n + 1
  <2>2. d \in 1 .. MaxDepth /\ d - 1 = n /\ n \in 0 .. MaxDepth /\ d \in 0 .. MaxDepth
    BY FiltersAssumption
  <2> HIDE DEF d
  <2>3. FiltersOf[d] = ColumnFilters \cup Connectives(FiltersOf[n])
    BY <2>2, Depths
  <2>4. FiltersOf[n] \subseteq FiltersOf[d] /\ V[n] \subseteq V[d]
    BY <2>2, Depths
  <2> DEFINE k == [g \in FiltersOf[d] |-> Step(column, connective, h, g)]
  <2>5. \A g \in FiltersOf[n] : k[g] = h[g]
    BY <2>1, <2>4
  <2>6. ASSUME NEW g \in FiltersOf[d]
        PROVE  Step(column, connective, k, g) = Step(column, connective, h, g) /\ k[g] \in V[d]
    <3>1. CASE g \in ColumnFilters
      <4>1. g \in FiltersOf[n]
        BY <3>1, <2>2, Depths
      <4> QED BY <3>1, <4>1, <2>1, <2>4, <2>5 DEF Step
    <3>2. CASE g \notin ColumnFilters
      <4>1. g \in Connectives(FiltersOf[n])
        BY <3>2, <2>3
      <4>2. g.subs \in Seq(FiltersOf[n])
        BY <4>1, Kinds
      <4> HIDE DEF k
      <4>3. OfSubs(k, g) = OfSubs(h, g)
        BY <4>2, <2>5 DEF OfSubs
      <4>4. OfSubs(h, g) \in Seq(V[n]) /\ Len(OfSubs(h, g)) = Len(g.subs)
        <5>1. \A f \in FiltersOf[n] : h[f] \in V[n]
          BY <2>1
        <5> HIDE DEF Good
        <5>2. OfSubs(h, g) = [i \in 1 .. Len(g.subs) |-> h[g.subs[i]]]
          BY <4>2 DEF OfSubs
        <5>3. \A i \in 1 .. Len(g.subs) : h[g.subs[i]] \in V[n]
          BY <4>2, <5>1
        <5>4. Len(g.subs) \in Nat
          BY <4>2
        <5> QED BY ONLY <5>2, <5>3, <5>4
      <4>5. connective[g][OfSubs(h, g)] \in V[d]
        BY <4>1, <4>4, <2>2
      <4>6. k[g] = Step(column, connective, h, g)
        BY DEF k
      <4> QED BY <3>2, <4>3, <4>5, <4>6 DEF Step
    <3> QED BY <3>1, <3>2
  <2>7. k = [g \in FiltersOf[d] |-> Step(column, connective, k, g)]
    BY <2>6
  <2>8. \A e \in 0 .. d : \A g \in FiltersOf[e] : k[g] \in V[e]
    <3> TAKE e \in 0 .. d
    <3>1. CASE e = d
      BY <3>1, <2>6
    <3>2. CASE e # d
      <4>1. e \in 0 .. n /\ n \in e .. MaxDepth /\ e \in 0 .. MaxDepth
        BY <3>2, <2>2, FiltersAssumption
      <4>2. FiltersOf[e] \subseteq FiltersOf[n]
        BY <4>1, LevelsGrow
      <4> HIDE DEF k
      <4> QED BY <4>1, <4>2, <2>1, <2>5
    <3> QED BY <3>1, <3>2
  <2>9. Good(k, d)
    BY <2>6, <2>7, <2>8
  <2> HIDE DEF k, Good
  <2> QED BY <2>9 DEF d
<1> HIDE DEF P
<1>3. P \subseteq Nat
  BY DEF P
<1>4. P = Nat
  BY <1>1, <1>2, <1>3, AllNumbers
<1>5. PICK value : Good(value, MaxDepth)
  <2>1. MaxDepth \in P
    BY ONLY <1>4, FiltersAssumption
  <2> QED BY <2>1 DEF P
<1>6. value \in [AllFilters -> V[MaxDepth]]
  BY <1>5 DEF AllFilters
<1>7. IsSolution(value, column, connective)
  BY <1>5 DEF AllFilters, IsSolution
<1> QED BY <1>6, <1>7

\* A filter is on a column or a connective of filters, of either kind.
LEMMA FilterCases ==
  ASSUME NEW g \in AllFilters
  PROVE  \/ g \in ColumnFilters /\ g.kind = "column"
         \/ \E d \in 1 .. MaxDepth :
               /\ g \in Connectives(FiltersOf[d - 1]) /\ g \notin ColumnFilters
               /\ g.kind \in {"and", "or"} /\ g.subs \in Seq(AllFilters)
<1>1. CASE g \in ColumnFilters
  BY <1>1, Kinds
<1>2. CASE g \notin ColumnFilters
  <2>1. MaxDepth \in 1 .. MaxDepth /\ g \in Connectives(FiltersOf[MaxDepth - 1])
    BY <1>2, Levels, Depths, FiltersAssumption DEF AllFilters
  <2>2. g.subs \in Seq(FiltersOf[MaxDepth - 1]) /\ g.kind \in {"and", "or"}
    BY <2>1, Kinds
  <2>3. FiltersOf[MaxDepth - 1] \subseteq AllFilters
    BY <2>1, Depths, FiltersAssumption
  <2>4. g.subs \in Seq(AllFilters)
    BY <2>2, <2>3, SeqMonotonic
  <2> QED BY <1>2, <2>1, <2>2, <2>4
<1> QED BY <1>1, <1>2

\* The values of the subfilters are values of the function.
LEMMA OfSubsInSeq ==
  ASSUME NEW W, NEW h \in [AllFilters -> W], NEW g, g.subs \in Seq(AllFilters)
  PROVE  /\ OfSubs(h, g) \in Seq(W) /\ DOMAIN OfSubs(h, g) = DOMAIN g.subs
         /\ \A i \in DOMAIN g.subs : OfSubs(h, g)[i] = h[g.subs[i]] /\ g.subs[i] \in AllFilters
<1>1. OfSubs(h, g) = [i \in 1 .. Len(g.subs) |-> h[g.subs[i]]]
  BY DEF OfSubs
<1>2. \A i \in 1 .. Len(g.subs) : h[g.subs[i]] \in W /\ g.subs[i] \in AllFilters
  OBVIOUS
<1>3. Len(g.subs) \in Nat /\ DOMAIN g.subs = 1 .. Len(g.subs)
  OBVIOUS
<1> QED BY ONLY <1>1, <1>2, <1>3

StaysWithin(W, column, connective) ==
  /\ \A g \in ColumnFilters : column[g] \in W
  /\ \A g \in AllFilters \ ColumnFilters :
        \A values \in Seq(W) : connective[g][values] \in W

\* Recursion, where all values are of one set.
LEMMA RecursionInto ==
  ASSUME NEW column, NEW connective, NEW W, StaysWithin(W, column, connective)
  PROVE  \E value \in [AllFilters -> W] : IsSolution(value, column, connective)
<1> DEFINE V == [d \in 0 .. MaxDepth |-> W]
<1>1. \A d \in 0 .. MaxDepth : V[d] = W
  OBVIOUS
<1>2. \A d \in 1 .. MaxDepth : d \in 0 .. MaxDepth /\ d - 1 \in 0 .. MaxDepth
  BY FiltersAssumption
<1>3. 0 \in 0 .. MaxDepth /\ MaxDepth \in 0 .. MaxDepth
  BY FiltersAssumption
<1> HIDE DEF V
<1>4. \A d \in 1 .. MaxDepth : \A g \in Connectives(FiltersOf[d - 1]) :
         g \in AllFilters \ ColumnFilters
  BY <1>2, Depths, Kinds
<1>5. StaysIn(V, column, connective)
  <2>1. \A g \in ColumnFilters : column[g] \in V[0]
    BY <1>1, <1>3 DEF StaysWithin
  <2>2. \A d \in 1 .. MaxDepth : V[d - 1] \subseteq V[d]
    BY <1>1, <1>2
  <2>3. \A d \in 1 .. MaxDepth : \A g \in Connectives(FiltersOf[d - 1]) :
             \A values \in Seq(V[d - 1]) :
                 Len(values) = Len(g.subs) => connective[g][values] \in V[d]
    BY <1>1, <1>2, <1>4 DEF StaysWithin
  <2> QED BY <2>1, <2>2, <2>3 DEF StaysIn
<1>6. \E value \in [AllFilters -> V[MaxDepth]] : IsSolution(value, column, connective)
  BY <1>5, Recursion
<1> QED BY <1>1, <1>3, <1>6

\* What a filter accepts by what its subfilters accept.
LEMMA AcceptsEquations ==
  ASSUME NEW row
  PROVE  /\ \A f \in ColumnFilters : Accepts(f, row) = ColumnAccepts(f, row)
         /\ \A g \in AllFilters :
               /\ g.kind = "and" =>
                     (Accepts(g, row) <=> \A i \in DOMAIN g.subs : Accepts(g.subs[i], row))
               /\ g.kind = "or" =>
                     (Accepts(g, row) <=> \E i \in DOMAIN g.subs : Accepts(g.subs[i], row))
<1> DEFINE Body(h) ==
             [g \in AllFilters |->
                 IF g.kind = "column" THEN ColumnAccepts(g, row)
                 ELSE IF g.kind = "and" THEN \A i \in DOMAIN g.subs : h[g.subs[i]]
                 ELSE \E i \in DOMAIN g.subs : h[g.subs[i]]]
           column == [g \in ColumnFilters |-> ColumnAccepts(g, row)]
           connective ==
               [g \in AllFilters |->
                   [values \in Seq(BOOLEAN) |->
                       IF g.kind = "and" THEN \A i \in DOMAIN values : values[i]
                       ELSE \E i \in DOMAIN values : values[i]]]
           chosen == CHOOSE h : h = Body(h)
<1>1. \A g \in ColumnFilters : column[g] \in BOOLEAN
  BY FiltersAssumption DEF IsColumnFilter, ColumnAccepts, TimeAccepts, IntAccepts,
     StringAccepts, ListAccepts, Eval, EvalBits
<1>2. \A g \in AllFilters \ ColumnFilters :
         \A values \in Seq(BOOLEAN) : connective[g][values] \in BOOLEAN
  OBVIOUS
<1> HIDE DEF column
<1> DEFINE Truth == BOOLEAN
<1>3. PICK h \in [AllFilters -> Truth] : IsSolution(h, column, connective)
  <2> HIDE DEF connective
  <2>1. StaysWithin(BOOLEAN, column, connective)
    BY <1>1, <1>2 DEF StaysWithin
  <2> QED BY <2>1, RecursionInto
<1>4. ASSUME NEW g \in AllFilters PROVE Step(column, connective, h, g) = Body(h)[g]
  <2>1. CASE g \in ColumnFilters
    BY <2>1, Kinds DEF Step, column
  <2>2. CASE g \notin ColumnFilters
    <3>1. g.kind \in {"and", "or"} /\ g.subs \in Seq(AllFilters)
      BY <2>2, FilterCases
    <3>2. /\ OfSubs(h, g) \in Seq(Truth) /\ DOMAIN OfSubs(h, g) = DOMAIN g.subs
          /\ \A i \in DOMAIN g.subs : OfSubs(h, g)[i] = h[g.subs[i]]
      <4> HIDE DEF connective, Body, Truth
      <4>1. OfSubs(h, g) \in Seq(Truth)
        BY <3>1, OfSubsInSeq
      <4>2. OfSubs(h, g) = [i \in DOMAIN g.subs |-> h[g.subs[i]]]
        BY DEF OfSubs
      <4> QED BY <4>1, <4>2
    <3>3. Step(column, connective, h, g) = connective[g][OfSubs(h, g)]
      BY <2>2 DEF Step
    <3> QED BY <3>1, <3>2, <3>3
  <2> QED BY <2>1, <2>2
<1>5. h = Body(h)
  <2>1. \A g \in AllFilters : h[g] = Body(h)[g]
    BY <1>3, <1>4 DEF IsSolution
  <2>2. Body(h) = [g \in AllFilters |-> Body(h)[g]]
    OBVIOUS
  <2> HIDE DEF connective, Body
  <2> QED BY <1>3, <2>1, <2>2
<1>6. chosen = Body(chosen)
  <2> HIDE DEF Body
  <2> QED BY <1>5
<1>7. \A g : Accepts(g, row) = chosen[g]
  BY DEF Accepts
<1> HIDE DEF chosen
<1>8. \A f \in ColumnFilters : f \in AllFilters /\ f.kind = "column"
  BY Depths, Kinds, FiltersAssumption
<1> QED BY <1>6, <1>7, <1>8

------------------------------------------------------------------------------
(* Bounds *)

\* A set of numbers between two bounds has a least and a greatest.
LEMMA MinAndMax ==
  ASSUME NEW a \in Int, NEW b \in Int, NEW S \in SUBSET (a .. b), S # {}
  PROVE  /\ Max(S) \in S /\ \A x \in S : x <= Max(S)
         /\ Min(S) \in S /\ \A x \in S : Min(S) <= x
<1>1. \E m \in S : \A x \in S : m <= x
  <2> DEFINE P == {n \in Nat : (\E x \in S : x <= a + n) => \E m \in S : \A x \in S : m <= x}
  <2>1. 0 \in P
    OBVIOUS
  <2>2. ASSUME NEW n \in P PROVE n + 1 \in P
    <3>1. CASE \E x \in S : x <= a + n
      BY <3>1
    <3>2. CASE \A x \in S : ~(x <= a + n)
      <4>1. \A x \in S : a + n + 1 <= x
        BY <3>2
      <4> QED BY <4>1
    <3> QED BY <3>1, <3>2
  <2> HIDE DEF P
  <2>3. P \subseteq Nat
    BY DEF P
  <2>4. P = Nat
    BY <2>1, <2>2, <2>3, AllNumbers
  <2>5. PICK x \in S : TRUE
    OBVIOUS
  <2>6. x - a \in P /\ x <= a + (x - a)
    BY <2>4
  <2> QED BY <2>6 DEF P
<1>2. \E m \in S : \A x \in S : x <= m
  <2> DEFINE P == {n \in Nat : (\E x \in S : b - n <= x) => \E m \in S : \A x \in S : x <= m}
  <2>1. 0 \in P
    OBVIOUS
  <2>2. ASSUME NEW n \in P PROVE n + 1 \in P
    <3>1. CASE \E x \in S : b - n <= x
      BY <3>1
    <3>2. CASE \A x \in S : ~(b - n <= x)
      <4>1. \A x \in S : x <= b - (n + 1)
        BY <3>2
      <4> QED BY <4>1
    <3> QED BY <3>1, <3>2
  <2> HIDE DEF P
  <2>3. P \subseteq Nat
    BY DEF P
  <2>4. P = Nat
    BY <2>1, <2>2, <2>3, AllNumbers
  <2>5. PICK x \in S : TRUE
    OBVIOUS
  <2>6. b - x \in P /\ b - (b - x) <= x
    BY <2>4
  <2> QED BY <2>6 DEF P
<1>3. Min(S) \in S /\ \A x \in S : Min(S) <= x
  BY <1>1 DEF Min
<1>4. \E m \in S : \A x \in S : m >= x
  BY <1>2
<1>5. Max(S) \in S /\ \A x \in S : Max(S) >= x
  BY <1>4 DEF Max
<1> QED BY <1>3, <1>5

NumberColumns == ColumnsOf("time") \cup ColumnsOf("int")

\* A bound of a column of numbers, if there is one.
Bounds == SUBSET (MinInt .. MaxInt)

\* Wrapped around, a number is an int, and an int stays what it is.
LEMMA Wraps ==
  /\ MinInt \in Int /\ MaxInt \in Int
  /\ \A n \in Int : Wrap(n) \in MinInt .. MaxInt
  /\ \A n \in MinInt .. MaxInt : Wrap(n) = n
<1>1. MaxInt \in Nat /\ MinInt \in Int /\ MaxInt - MinInt + 1 \in Nat \ {0}
  BY FiltersAssumption DEF MinInt
<1>2. ASSUME NEW n \in Int PROVE Wrap(n) \in MinInt .. MaxInt
  <2>1. (n - MinInt) % (MaxInt - MinInt + 1) \in 0 .. MaxInt - MinInt
    BY <1>1
  <2> QED BY <1>1, <2>1 DEF Wrap
<1>3. ASSUME NEW n \in MinInt .. MaxInt PROVE Wrap(n) = n
  <2>1. n - MinInt \in 0 .. MaxInt - MinInt
    BY <1>1
  <2>2. (n - MinInt) % (MaxInt - MinInt + 1) = n - MinInt
    BY <1>1, <2>1
  <2> QED BY <1>1, <2>2 DEF Wrap
<1> QED BY <1>1, <1>2, <1>3

\* What filters on a column bound it to.
LEMMA ColumnBounds ==
  ASSUME NEW f \in ColumnFilters, NEW col \in NumberColumns
  PROVE  ColumnGreatestLowerBound(f, col) \in Bounds /\ ColumnLeastUpperBound(f, col) \in Bounds
<1>1. CASE f.col = col
  <2>1. f.ref \in MinInt .. MaxInt
    BY <1>1, FiltersAssumption DEF IsColumnFilter, NumberColumns, ColumnsOf
  <2>2. BoundRef(f) \in MinInt .. MaxInt
    <3>1. f.ref - TimezoneOffset \in Int
      BY <2>1, Wraps, FiltersAssumption
    <3> QED BY <2>1, <3>1, Wraps DEF BoundRef
  <2>3. BoundRef(f) + 1 \in Int /\ BoundRef(f) - 1 \in Int
    BY <2>2, Wraps
  <2>4. Wrap(BoundRef(f) + 1) \in MinInt .. MaxInt /\ Wrap(BoundRef(f) - 1) \in MinInt .. MaxInt
    BY <2>3, Wraps
  <2> QED BY <2>2, <2>4 DEF ColumnGreatestLowerBound, ColumnLeastUpperBound, Bounds, None
<1>2. CASE f.col # col
  BY <1>2 DEF ColumnGreatestLowerBound, ColumnLeastUpperBound, Bounds, None
<1> QED BY <1>1, <1>2

\* The values that some of the subfilters have.
LEMMA SaidByOne ==
  ASSUME NEW W, NEW values \in Seq(SUBSET W)
  PROVE  /\ UNION Range(values) \in SUBSET W
         /\ \A x \in UNION Range(values) : \E i \in DOMAIN values : x \in values[i]
         /\ \A i \in DOMAIN values : values[i] \subseteq UNION Range(values)
BY DEF Range

\* Connectives of bounds are bounds.
LEMMA CombinedBounds ==
  ASSUME NEW bounds \in Seq(Bounds)
  PROVE  /\ AndingLowerBound(bounds) \in Bounds /\ AndingUpperBound(bounds) \in Bounds
         /\ OringLowerBound(bounds) \in Bounds /\ OringUpperBound(bounds) \in Bounds
<1> DEFINE all == UNION Range(bounds)
<1>1. all \in SUBSET (MinInt .. MaxInt)
  BY SaidByOne DEF Bounds
<1>2. CASE all = {}
  BY <1>2 DEF AndingLowerBound, AndingUpperBound, OringLowerBound, OringUpperBound, Combined,
     None, Bounds
<1>3. CASE all # {}
  <2> HIDE DEF all
  <2>1. Min(all) \in all /\ Max(all) \in all
    BY <1>1, <1>3, Wraps, MinAndMax
  <2>2. {Min(all)} \in Bounds /\ {Max(all)} \in Bounds
    BY <1>1, <2>1 DEF Bounds
  <2> QED BY <1>3, <2>2 DEF all, AndingLowerBound, AndingUpperBound, OringLowerBound,
          OringUpperBound, Combined
<1> QED BY <1>2, <1>3

\* A connective of some filters of a depth.
LEMMA ConnectiveOf ==
  ASSUME NEW d \in 1 .. MaxDepth, NEW P, NEW g \in Connectives(FiltersOf[d - 1] \cap P)
  PROVE  /\ g \in AllFilters \ ColumnFilters /\ g.kind \in {"and", "or"}
         /\ g.subs \in Seq(FiltersOf[d - 1] \cap P)
         /\ g \in FiltersOf[d]
<1>1. g.kind \in {"and", "or"} /\ g.subs \in Seq(FiltersOf[d - 1] \cap P) /\ g \notin ColumnFilters
  BY Kinds
<1>2. FiltersOf[d - 1] \cap P \subseteq FiltersOf[d - 1]
  OBVIOUS
<1>3. Seq(FiltersOf[d - 1] \cap P) \subseteq Seq(FiltersOf[d - 1])
  BY <1>2, SeqMonotonic
<1>4. g \in Connectives(FiltersOf[d - 1])
  BY <1>3 DEF Connectives
<1>5. g \in FiltersOf[d] /\ d \in 0 .. MaxDepth
  BY <1>4, Depths, FiltersAssumption
<1> QED BY <1>1, <1>5, Depths

\* The lower bound of a filter by those of its subfilters.
LEMMA LowerBoundEquations ==
  ASSUME NEW col \in NumberColumns
  PROVE  /\ \A f \in ColumnFilters : GreatestLowerBoundFor(f, col) = ColumnGreatestLowerBound(f, col)
         /\ \A g \in AllFilters :
               /\ GreatestLowerBoundFor(g, col) \in Bounds
               /\ g.kind = "and" =>
                     GreatestLowerBoundFor(g, col)
                         = AndingLowerBound([i \in DOMAIN g.subs |-> GreatestLowerBoundFor(g.subs[i], col)])
               /\ g.kind = "or" =>
                     GreatestLowerBoundFor(g, col)
                         = OringLowerBound([i \in DOMAIN g.subs |-> GreatestLowerBoundFor(g.subs[i], col)])
<1> DEFINE Body(h) ==
             [g \in AllFilters |->
                 IF g.kind = "column" THEN ColumnGreatestLowerBound(g, col)
                 ELSE IF g.kind = "and" THEN AndingLowerBound(OfSubs(h, g))
                 ELSE OringLowerBound(OfSubs(h, g))]
           column == [g \in ColumnFilters |-> ColumnGreatestLowerBound(g, col)]
           connective ==
               [g \in AllFilters |->
                   [values \in Seq(Bounds) |->
                       IF g.kind = "and" THEN AndingLowerBound(values) ELSE OringLowerBound(values)]]
           chosen == CHOOSE h : h = Body(h)
<1>1. \A g \in ColumnFilters : column[g] \in Bounds
  BY ColumnBounds
<1>2. \A g \in AllFilters \ ColumnFilters :
         \A values \in Seq(Bounds) : connective[g][values] \in Bounds
  BY CombinedBounds
<1> HIDE DEF column
<1>3. PICK h \in [AllFilters -> Bounds] : IsSolution(h, column, connective)
  <2> HIDE DEF connective
  <2>1. StaysWithin(Bounds, column, connective)
    BY <1>1, <1>2 DEF StaysWithin
  <2> QED BY <2>1, RecursionInto
<1>4. ASSUME NEW g \in AllFilters PROVE Step(column, connective, h, g) = Body(h)[g]
  <2>1. CASE g \in ColumnFilters
    BY <2>1, Kinds DEF Step, column
  <2>2. CASE g \notin ColumnFilters
    <3>1. g.kind \in {"and", "or"} /\ g.subs \in Seq(AllFilters)
      BY <2>2, FilterCases
    <3>2. OfSubs(h, g) \in Seq(Bounds)
      <4> HIDE DEF connective, Body
      <4> QED BY <3>1, OfSubsInSeq
    <3>3. Step(column, connective, h, g) = connective[g][OfSubs(h, g)]
      BY <2>2 DEF Step
    <3> QED BY <3>1, <3>2, <3>3
  <2> QED BY <2>1, <2>2
<1>5. h = Body(h)
  <2>1. \A g \in AllFilters : h[g] = Body(h)[g]
    BY <1>3, <1>4 DEF IsSolution
  <2>2. Body(h) = [g \in AllFilters |-> Body(h)[g]]
    OBVIOUS
  <2> HIDE DEF connective, Body
  <2> QED BY <1>3, <2>1, <2>2
<1>6. chosen = Body(chosen)
  <2> HIDE DEF Body
  <2> QED BY <1>5
<1>7. \A g : GreatestLowerBoundFor(g, col) = chosen[g]
  BY DEF GreatestLowerBoundFor
<1> HIDE DEF chosen, connective
<1>8. \A g \in AllFilters : OfSubs(chosen, g) = [i \in DOMAIN g.subs |-> GreatestLowerBoundFor(g.subs[i], col)]
  BY <1>7 DEF OfSubs
<1>9. \A f \in ColumnFilters : GreatestLowerBoundFor(f, col) = ColumnGreatestLowerBound(f, col)
  <2> TAKE f \in ColumnFilters
  <2>1. f \in AllFilters /\ f.kind = "column"
    BY Depths, Kinds, FiltersAssumption
  <2> QED BY <1>6, <1>7, <2>1
<1>10. ASSUME NEW g \in AllFilters
       PROVE  /\ g.kind = "and" =>
                     GreatestLowerBoundFor(g, col)
                         = AndingLowerBound([i \in DOMAIN g.subs |-> GreatestLowerBoundFor(g.subs[i], col)])
              /\ g.kind = "or" =>
                     GreatestLowerBoundFor(g, col)
                         = OringLowerBound([i \in DOMAIN g.subs |-> GreatestLowerBoundFor(g.subs[i], col)])
  BY <1>6, <1>7, <1>8
<1> DEFINE P == {g \in AllFilters : GreatestLowerBoundFor(g, col) \in Bounds}
<1>11. ColumnFilters \subseteq P
  BY <1>1, <1>9, Depths, FiltersAssumption DEF column
<1>12. ASSUME NEW d \in 1 .. MaxDepth, NEW g \in Connectives(FiltersOf[d - 1] \cap P)
       PROVE  g \in P
  <2> DEFINE values == [i \in DOMAIN g.subs |-> GreatestLowerBoundFor(g.subs[i], col)]
  <2>1. /\ g \in AllFilters \ ColumnFilters /\ g.kind \in {"and", "or"}
        /\ g.subs \in Seq(FiltersOf[d - 1] \cap P)
    BY ConnectiveOf
  <2>2. values \in Seq(Bounds)
    <3>1. \A i \in 1 .. Len(g.subs) : GreatestLowerBoundFor(g.subs[i], col) \in Bounds
      BY <2>1
    <3> QED BY <2>1, <3>1
  <2> HIDE DEF values
  <2>3. AndingLowerBound(values) \in Bounds /\ OringLowerBound(values) \in Bounds
    BY <2>2, CombinedBounds
  <2> QED BY <1>10, <2>1, <2>3 DEF values
<1>13. AllFilters \subseteq P
  <2> HIDE DEF P
  <2> QED BY <1>11, <1>12, FilterInduction
<1> QED BY <1>9, <1>10, <1>13

\* The upper bound of a filter by those of its subfilters.
LEMMA UpperBoundEquations ==
  ASSUME NEW col \in NumberColumns
  PROVE  /\ \A f \in ColumnFilters : LeastUpperBoundFor(f, col) = ColumnLeastUpperBound(f, col)
         /\ \A g \in AllFilters :
               /\ LeastUpperBoundFor(g, col) \in Bounds
               /\ g.kind = "and" =>
                     LeastUpperBoundFor(g, col)
                         = AndingUpperBound([i \in DOMAIN g.subs |-> LeastUpperBoundFor(g.subs[i], col)])
               /\ g.kind = "or" =>
                     LeastUpperBoundFor(g, col)
                         = OringUpperBound([i \in DOMAIN g.subs |-> LeastUpperBoundFor(g.subs[i], col)])
<1> DEFINE Body(h) ==
             [g \in AllFilters |->
                 IF g.kind = "column" THEN ColumnLeastUpperBound(g, col)
                 ELSE IF g.kind = "and" THEN AndingUpperBound(OfSubs(h, g))
                 ELSE OringUpperBound(OfSubs(h, g))]
           column == [g \in ColumnFilters |-> ColumnLeastUpperBound(g, col)]
           connective ==
               [g \in AllFilters |->
                   [values \in Seq(Bounds) |->
                       IF g.kind = "and" THEN AndingUpperBound(values) ELSE OringUpperBound(values)]]
           chosen == CHOOSE h : h = Body(h)
<1>1. \A g \in ColumnFilters : column[g] \in Bounds
  BY ColumnBounds
<1>2. \A g \in AllFilters \ ColumnFilters :
         \A values \in Seq(Bounds) : connective[g][values] \in Bounds
  BY CombinedBounds
<1> HIDE DEF column
<1>3. PICK h \in [AllFilters -> Bounds] : IsSolution(h, column, connective)
  <2> HIDE DEF connective
  <2>1. StaysWithin(Bounds, column, connective)
    BY <1>1, <1>2 DEF StaysWithin
  <2> QED BY <2>1, RecursionInto
<1>4. ASSUME NEW g \in AllFilters PROVE Step(column, connective, h, g) = Body(h)[g]
  <2>1. CASE g \in ColumnFilters
    BY <2>1, Kinds DEF Step, column
  <2>2. CASE g \notin ColumnFilters
    <3>1. g.kind \in {"and", "or"} /\ g.subs \in Seq(AllFilters)
      BY <2>2, FilterCases
    <3>2. OfSubs(h, g) \in Seq(Bounds)
      <4> HIDE DEF connective, Body
      <4> QED BY <3>1, OfSubsInSeq
    <3>3. Step(column, connective, h, g) = connective[g][OfSubs(h, g)]
      BY <2>2 DEF Step
    <3> QED BY <3>1, <3>2, <3>3
  <2> QED BY <2>1, <2>2
<1>5. h = Body(h)
  <2>1. \A g \in AllFilters : h[g] = Body(h)[g]
    BY <1>3, <1>4 DEF IsSolution
  <2>2. Body(h) = [g \in AllFilters |-> Body(h)[g]]
    OBVIOUS
  <2> HIDE DEF connective, Body
  <2> QED BY <1>3, <2>1, <2>2
<1>6. chosen = Body(chosen)
  <2> HIDE DEF Body
  <2> QED BY <1>5
<1>7. \A g : LeastUpperBoundFor(g, col) = chosen[g]
  BY DEF LeastUpperBoundFor
<1> HIDE DEF chosen, connective
<1>8. \A g \in AllFilters : OfSubs(chosen, g) = [i \in DOMAIN g.subs |-> LeastUpperBoundFor(g.subs[i], col)]
  BY <1>7 DEF OfSubs
<1>9. \A f \in ColumnFilters : LeastUpperBoundFor(f, col) = ColumnLeastUpperBound(f, col)
  <2> TAKE f \in ColumnFilters
  <2>1. f \in AllFilters /\ f.kind = "column"
    BY Depths, Kinds, FiltersAssumption
  <2> QED BY <1>6, <1>7, <2>1
<1>10. ASSUME NEW g \in AllFilters
       PROVE  /\ g.kind = "and" =>
                     LeastUpperBoundFor(g, col)
                         = AndingUpperBound([i \in DOMAIN g.subs |-> LeastUpperBoundFor(g.subs[i], col)])
              /\ g.kind = "or" =>
                     LeastUpperBoundFor(g, col)
                         = OringUpperBound([i \in DOMAIN g.subs |-> LeastUpperBoundFor(g.subs[i], col)])
  BY <1>6, <1>7, <1>8
<1> DEFINE P == {g \in AllFilters : LeastUpperBoundFor(g, col) \in Bounds}
<1>11. ColumnFilters \subseteq P
  BY <1>1, <1>9, Depths, FiltersAssumption DEF column
<1>12. ASSUME NEW d \in 1 .. MaxDepth, NEW g \in Connectives(FiltersOf[d - 1] \cap P)
       PROVE  g \in P
  <2> DEFINE values == [i \in DOMAIN g.subs |-> LeastUpperBoundFor(g.subs[i], col)]
  <2>1. /\ g \in AllFilters \ ColumnFilters /\ g.kind \in {"and", "or"}
        /\ g.subs \in Seq(FiltersOf[d - 1] \cap P)
    BY ConnectiveOf
  <2>2. values \in Seq(Bounds)
    <3>1. \A i \in 1 .. Len(g.subs) : LeastUpperBoundFor(g.subs[i], col) \in Bounds
      BY <2>1
    <3> QED BY <2>1, <3>1
  <2> HIDE DEF values
  <2>3. AndingUpperBound(values) \in Bounds /\ OringUpperBound(values) \in Bounds
    BY <2>2, CombinedBounds
  <2> QED BY <1>10, <2>1, <2>3 DEF values
<1>13. AllFilters \subseteq P
  <2> HIDE DEF P
  <2> QED BY <1>11, <1>12, FilterInduction
<1> QED BY <1>9, <1>10, <1>13

\* The set of classes that a filter leaves, if it says so.
ValueSets == SUBSET SUBSET MessageClasses

\* The sets of values of subfilters combine into one.
LEMMA CombinedValueSets ==
  ASSUME NEW sets \in Seq(ValueSets)
  PROVE  AndingValueSet(sets) \in ValueSets /\ OringValueSet(sets) \in ValueSets
<1> DEFINE all == UNION Range(sets)
<1>1. all \in SUBSET SUBSET MessageClasses
  BY SaidByOne DEF ValueSets
<1> HIDE DEF all
<1>2. Intersection(all) \in SUBSET MessageClasses /\ Union(all) \in SUBSET MessageClasses
  BY <1>1 DEF Intersection, Union
<1>3. None \in ValueSets /\ {Intersection(all)} \in ValueSets /\ {Union(all)} \in ValueSets
  BY <1>2 DEF None, ValueSets
<1> QED BY <1>3 DEF all, AndingValueSet, OringValueSet, Combined

\* The value set of a filter by those of its subfilters.
LEMMA ValueSetEquations ==
  ASSUME NEW col
  PROVE  /\ \A f \in ColumnFilters : ValueSetFor(f, col) = ColumnValueSet(f, col)
         /\ \A g \in AllFilters :
               /\ ValueSetFor(g, col) \in ValueSets
               /\ g.kind = "and" =>
                     ValueSetFor(g, col)
                         = AndingValueSet([i \in DOMAIN g.subs |-> ValueSetFor(g.subs[i], col)])
               /\ g.kind = "or" =>
                     ValueSetFor(g, col)
                         = OringValueSet([i \in DOMAIN g.subs |-> ValueSetFor(g.subs[i], col)])
<1> DEFINE Body(h) ==
             [g \in AllFilters |->
                 IF g.kind = "column" THEN ColumnValueSet(g, col)
                 ELSE IF g.kind = "and" THEN AndingValueSet(OfSubs(h, g))
                 ELSE OringValueSet(OfSubs(h, g))]
           column == [g \in ColumnFilters |-> ColumnValueSet(g, col)]
           connective ==
               [g \in AllFilters |->
                   [values \in Seq(ValueSets) |->
                       IF g.kind = "and" THEN AndingValueSet(values) ELSE OringValueSet(values)]]
           chosen == CHOOSE h : h = Body(h)
<1>1. \A g \in ColumnFilters : column[g] \in ValueSets
  BY DEF ColumnValueSet, ValueSets, None
<1>2. \A g \in AllFilters \ ColumnFilters :
         \A values \in Seq(ValueSets) : connective[g][values] \in ValueSets
  BY CombinedValueSets
<1> HIDE DEF column
<1>3. PICK h \in [AllFilters -> ValueSets] : IsSolution(h, column, connective)
  <2> HIDE DEF connective
  <2>1. StaysWithin(ValueSets, column, connective)
    BY <1>1, <1>2 DEF StaysWithin
  <2> QED BY <2>1, RecursionInto
<1>4. ASSUME NEW g \in AllFilters PROVE Step(column, connective, h, g) = Body(h)[g]
  <2>1. CASE g \in ColumnFilters
    BY <2>1, Kinds DEF Step, column
  <2>2. CASE g \notin ColumnFilters
    <3>1. g.kind \in {"and", "or"} /\ g.subs \in Seq(AllFilters)
      BY <2>2, FilterCases
    <3>2. OfSubs(h, g) \in Seq(ValueSets)
      <4> HIDE DEF connective, Body
      <4> QED BY <3>1, OfSubsInSeq
    <3>3. Step(column, connective, h, g) = connective[g][OfSubs(h, g)]
      BY <2>2 DEF Step
    <3> QED BY <3>1, <3>2, <3>3
  <2> QED BY <2>1, <2>2
<1>5. h = Body(h)
  <2>1. \A g \in AllFilters : h[g] = Body(h)[g]
    BY <1>3, <1>4 DEF IsSolution
  <2>2. Body(h) = [g \in AllFilters |-> Body(h)[g]]
    OBVIOUS
  <2> HIDE DEF connective, Body
  <2> QED BY <1>3, <2>1, <2>2
<1>6. chosen = Body(chosen)
  <2> HIDE DEF Body
  <2> QED BY <1>5
<1>7. \A g : ValueSetFor(g, col) = chosen[g]
  BY DEF ValueSetFor
<1> HIDE DEF chosen, connective
<1>8. \A g \in AllFilters : OfSubs(chosen, g) = [i \in DOMAIN g.subs |-> ValueSetFor(g.subs[i], col)]
  BY <1>7 DEF OfSubs
<1>9. \A f \in ColumnFilters : ValueSetFor(f, col) = ColumnValueSet(f, col)
  <2> TAKE f \in ColumnFilters
  <2>1. f \in AllFilters /\ f.kind = "column"
    BY Depths, Kinds, FiltersAssumption
  <2> QED BY <1>6, <1>7, <2>1
<1>10. ASSUME NEW g \in AllFilters
       PROVE  /\ g.kind = "and" =>
                     ValueSetFor(g, col)
                         = AndingValueSet([i \in DOMAIN g.subs |-> ValueSetFor(g.subs[i], col)])
              /\ g.kind = "or" =>
                     ValueSetFor(g, col)
                         = OringValueSet([i \in DOMAIN g.subs |-> ValueSetFor(g.subs[i], col)])
  BY <1>6, <1>7, <1>8
<1> DEFINE P == {g \in AllFilters : ValueSetFor(g, col) \in ValueSets}
<1>11. ColumnFilters \subseteq P
  BY <1>1, <1>9, Depths, FiltersAssumption DEF column
<1>12. ASSUME NEW d \in 1 .. MaxDepth, NEW g \in Connectives(FiltersOf[d - 1] \cap P)
       PROVE  g \in P
  <2> DEFINE values == [i \in DOMAIN g.subs |-> ValueSetFor(g.subs[i], col)]
  <2>1. /\ g \in AllFilters \ ColumnFilters /\ g.kind \in {"and", "or"}
        /\ g.subs \in Seq(FiltersOf[d - 1] \cap P)
    BY ConnectiveOf
  <2>2. values \in Seq(ValueSets)
    <3>1. \A i \in 1 .. Len(g.subs) : ValueSetFor(g.subs[i], col) \in ValueSets
      BY <2>1
    <3> QED BY <2>1, <3>1
  <2> HIDE DEF values
  <2>3. AndingValueSet(values) \in ValueSets /\ OringValueSet(values) \in ValueSets
    BY <2>2, CombinedValueSets
  <2> QED BY <1>10, <2>1, <2>3 DEF values
<1>13. AllFilters \subseteq P
  <2> HIDE DEF P
  <2> QED BY <1>11, <1>12, FilterInduction
<1> QED BY <1>9, <1>10, <1>13

\* The value that a filter restricts a column to, if it does.
Restrictions == SUBSET {f.ref : f \in ColumnFilters}

\* A conjunction restricts a column as one of its subfilters does, a disjunction
\* as all do.
LEMMA CombinedRestrictions ==
  ASSUME NEW said \in Seq(Restrictions)
  PROVE  /\ AndingRestriction(said) = None
            \/ \E i \in DOMAIN said : AndingRestriction(said) = said[i]
         /\ OringRestriction(said) = None
            \/ \A i \in DOMAIN said : OringRestriction(said) = said[i]
         /\ AndingRestriction(said) \in Restrictions /\ OringRestriction(said) \in Restrictions
<1> DEFINE some == {i \in DOMAIN said : said[i] # None}
<1>1. AndingRestriction(said) = None \/ \E i \in DOMAIN said : AndingRestriction(said) = said[i]
  <2>1. CASE some = {}
    BY <2>1 DEF AndingRestriction
  <2>2. CASE some # {}
    <3>1. some \in SUBSET (1 .. Len(said)) /\ Len(said) \in Int
      OBVIOUS
    <3> HIDE DEF some
    <3>2. Min(some) \in some
      <4>1. PICK a \in Int : a = 1
        OBVIOUS
      <4>2. PICK b \in Int : b = Len(said)
        BY <3>1
      <4>3. some \in SUBSET (a .. b)
        BY <3>1, <4>1, <4>2
      <4> QED BY <2>2, <4>3, MinAndMax
    <3>3. AndingRestriction(said) = said[Min(some)]
      BY <2>2 DEF AndingRestriction, some
    <3> QED BY <3>2, <3>3 DEF some
  <2> QED BY <2>1, <2>2
<1>2. OringRestriction(said) = None \/ \A i \in DOMAIN said : OringRestriction(said) = said[i]
  BY DEF OringRestriction
<1>3. OringRestriction(said) \in Restrictions
  <2>1. CASE said # <<>> /\ \A i \in DOMAIN said : said[i] = said[1]
    <3>1. said[1] \in Restrictions
      BY <2>1
    <3> QED BY <2>1, <3>1 DEF OringRestriction
  <2>2. CASE ~(said # <<>> /\ \A i \in DOMAIN said : said[i] = said[1])
    BY <2>2 DEF OringRestriction, Restrictions, None
  <2> QED BY <2>1, <2>2
<1>4. AndingRestriction(said) \in Restrictions
  BY <1>1 DEF Restrictions, None
<1> QED BY <1>1, <1>2, <1>3, <1>4

\* The restriction of a filter by those of its subfilters.
LEMMA RestrictionEquations ==
  ASSUME NEW col
  PROVE  /\ \A f \in ColumnFilters : StringValueRestrictionFor(f, col) = ColumnStringRestriction(f, col)
         /\ \A g \in AllFilters :
               /\ StringValueRestrictionFor(g, col) \in Restrictions
               /\ g.kind = "and" =>
                     StringValueRestrictionFor(g, col)
                         = AndingRestriction([i \in DOMAIN g.subs |-> StringValueRestrictionFor(g.subs[i], col)])
               /\ g.kind = "or" =>
                     StringValueRestrictionFor(g, col)
                         = OringRestriction([i \in DOMAIN g.subs |-> StringValueRestrictionFor(g.subs[i], col)])
<1> DEFINE Body(h) ==
             [g \in AllFilters |->
                 IF g.kind = "column" THEN ColumnStringRestriction(g, col)
                 ELSE IF g.kind = "and" THEN AndingRestriction(OfSubs(h, g))
                 ELSE OringRestriction(OfSubs(h, g))]
           column == [g \in ColumnFilters |-> ColumnStringRestriction(g, col)]
           connective ==
               [g \in AllFilters |->
                   [values \in Seq(Restrictions) |->
                       IF g.kind = "and" THEN AndingRestriction(values) ELSE OringRestriction(values)]]
           chosen == CHOOSE h : h = Body(h)
<1>1. \A g \in ColumnFilters : column[g] \in Restrictions
  BY DEF ColumnStringRestriction, StringRestriction, ListRestriction, Restrictions, None
<1>2. \A g \in AllFilters \ ColumnFilters :
         \A values \in Seq(Restrictions) : connective[g][values] \in Restrictions
  BY CombinedRestrictions
<1> HIDE DEF column
<1>3. PICK h \in [AllFilters -> Restrictions] : IsSolution(h, column, connective)
  <2> HIDE DEF connective
  <2>1. StaysWithin(Restrictions, column, connective)
    BY <1>1, <1>2 DEF StaysWithin
  <2> QED BY <2>1, RecursionInto
<1>4. ASSUME NEW g \in AllFilters PROVE Step(column, connective, h, g) = Body(h)[g]
  <2>1. CASE g \in ColumnFilters
    BY <2>1, Kinds DEF Step, column
  <2>2. CASE g \notin ColumnFilters
    <3>1. g.kind \in {"and", "or"} /\ g.subs \in Seq(AllFilters)
      BY <2>2, FilterCases
    <3>2. OfSubs(h, g) \in Seq(Restrictions)
      <4> HIDE DEF connective, Body
      <4> QED BY <3>1, OfSubsInSeq
    <3>3. Step(column, connective, h, g) = connective[g][OfSubs(h, g)]
      BY <2>2 DEF Step
    <3> QED BY <3>1, <3>2, <3>3
  <2> QED BY <2>1, <2>2
<1>5. h = Body(h)
  <2>1. \A g \in AllFilters : h[g] = Body(h)[g]
    BY <1>3, <1>4 DEF IsSolution
  <2>2. Body(h) = [g \in AllFilters |-> Body(h)[g]]
    OBVIOUS
  <2> HIDE DEF connective, Body
  <2> QED BY <1>3, <2>1, <2>2
<1>6. chosen = Body(chosen)
  <2> HIDE DEF Body
  <2> QED BY <1>5
<1>7. \A g : StringValueRestrictionFor(g, col) = chosen[g]
  BY DEF StringValueRestrictionFor
<1> HIDE DEF chosen, connective
<1>8. \A g \in AllFilters : OfSubs(chosen, g) = [i \in DOMAIN g.subs |-> StringValueRestrictionFor(g.subs[i], col)]
  BY <1>7 DEF OfSubs
<1>9. \A f \in ColumnFilters : StringValueRestrictionFor(f, col) = ColumnStringRestriction(f, col)
  <2> TAKE f \in ColumnFilters
  <2>1. f \in AllFilters /\ f.kind = "column"
    BY Depths, Kinds, FiltersAssumption
  <2> QED BY <1>6, <1>7, <2>1
<1>10. ASSUME NEW g \in AllFilters
       PROVE  /\ g.kind = "and" =>
                     StringValueRestrictionFor(g, col)
                         = AndingRestriction([i \in DOMAIN g.subs |-> StringValueRestrictionFor(g.subs[i], col)])
              /\ g.kind = "or" =>
                     StringValueRestrictionFor(g, col)
                         = OringRestriction([i \in DOMAIN g.subs |-> StringValueRestrictionFor(g.subs[i], col)])
  BY <1>6, <1>7, <1>8
<1> DEFINE P == {g \in AllFilters : StringValueRestrictionFor(g, col) \in Restrictions}
<1>11. ColumnFilters \subseteq P
  BY <1>1, <1>9, Depths, FiltersAssumption DEF column
<1>12. ASSUME NEW d \in 1 .. MaxDepth, NEW g \in Connectives(FiltersOf[d - 1] \cap P)
       PROVE  g \in P
  <2> DEFINE values == [i \in DOMAIN g.subs |-> StringValueRestrictionFor(g.subs[i], col)]
  <2>1. /\ g \in AllFilters \ ColumnFilters /\ g.kind \in {"and", "or"}
        /\ g.subs \in Seq(FiltersOf[d - 1] \cap P)
    BY ConnectiveOf
  <2>2. values \in Seq(Restrictions)
    <3>1. \A i \in 1 .. Len(g.subs) : StringValueRestrictionFor(g.subs[i], col) \in Restrictions
      BY <2>1
    <3> QED BY <2>1, <3>1
  <2> HIDE DEF values
  <2>3. AndingRestriction(values) \in Restrictions /\ OringRestriction(values) \in Restrictions
    BY <2>2, CombinedRestrictions
  <2> QED BY <1>10, <2>1, <2>3 DEF values
<1>13. AllFilters \subseteq P
  <2> HIDE DEF P
  <2> QED BY <1>11, <1>12, FilterInduction
<1> QED BY <1>9, <1>10, <1>13

------------------------------------------------------------------------------
(* What a filter restricts a column to, the rows that it accepts have *)

\* A row that a filter accepts has the value the filter restricts a column to.
LEMMA RestrictionsHold ==
  ASSUME NEW f \in AllFilters, NEW row, Accepts(f, row), NEW col,
         NEW v \in StringValueRestrictionFor(f, col)
  PROVE  /\ ColumnType[col] = "string" => row[col] = v
         /\ ColumnType[col] = "list" => v \in row[col]
<1> DEFINE Holds(g) == Accepts(g, row) =>
                          \A w \in StringValueRestrictionFor(g, col) :
                              /\ ColumnType[col] = "string" => row[col] = w
                              /\ ColumnType[col] = "list" => w \in row[col]
           P == {g \in AllFilters : Holds(g)}
<1>1. ColumnFilters \subseteq P
  <2> SUFFICES ASSUME NEW g \in ColumnFilters PROVE Holds(g)
    BY Depths, FiltersAssumption
  <2>1. /\ Accepts(g, row) = ColumnAccepts(g, row)
        /\ StringValueRestrictionFor(g, col) = ColumnStringRestriction(g, col)
    BY AcceptsEquations, RestrictionEquations
  <2> QED BY <2>1 DEF ColumnAccepts, StringAccepts, ListAccepts, Eval, EvalBits, ColumnStringRestriction,
          StringRestriction, ListRestriction, None
<1>2. ASSUME NEW d \in 1 .. MaxDepth, NEW g \in Connectives(FiltersOf[d - 1] \cap P)
      PROVE  g \in P
  <2> DEFINE said == [i \in DOMAIN g.subs |-> StringValueRestrictionFor(g.subs[i], col)]
  <2>1. /\ g \in AllFilters /\ g.kind \in {"and", "or"}
        /\ g.subs \in Seq(FiltersOf[d - 1] \cap P)
    BY ConnectiveOf
  <2>2. \A i \in DOMAIN g.subs : g.subs[i] \in AllFilters /\ Holds(g.subs[i])
    BY <2>1
  <2>3. said \in Seq(Restrictions)
    <3>1. \A e \in AllFilters : StringValueRestrictionFor(e, col) \in Restrictions
      BY RestrictionEquations
    <3>2. \A i \in 1 .. Len(g.subs) : StringValueRestrictionFor(g.subs[i], col) \in Restrictions
      BY <2>1, <2>2, <3>1
    <3> QED BY <2>1, <3>2
  <2>4. /\ DOMAIN said = DOMAIN g.subs
        /\ \A i \in DOMAIN said : said[i] = StringValueRestrictionFor(g.subs[i], col)
    OBVIOUS
  <2> HIDE DEF said
  <2>5. CASE g.kind = "and"
    <3>1. StringValueRestrictionFor(g, col) = AndingRestriction(said)
      BY <2>1, <2>5, RestrictionEquations DEF said
    <3>2. Accepts(g, row) => \A i \in DOMAIN g.subs : Accepts(g.subs[i], row)
      BY <2>1, <2>5, AcceptsEquations
    <3>3. \/ AndingRestriction(said) = None
          \/ \E i \in DOMAIN said : AndingRestriction(said) = said[i]
      BY <2>3, CombinedRestrictions
    <3> QED BY <2>1, <2>2, <2>4, <3>1, <3>2, <3>3 DEF None
  <2>6. CASE g.kind = "or"
    <3>1. StringValueRestrictionFor(g, col) = OringRestriction(said)
      BY <2>1, <2>6, RestrictionEquations DEF said
    <3>2. Accepts(g, row) => \E i \in DOMAIN g.subs : Accepts(g.subs[i], row)
      BY <2>1, <2>6, AcceptsEquations
    <3>3. \/ OringRestriction(said) = None
          \/ \A i \in DOMAIN said : OringRestriction(said) = said[i]
      BY <2>3, CombinedRestrictions
    <3> QED BY <2>1, <2>2, <2>4, <3>1, <3>2, <3>3 DEF None
  <2> QED BY <2>1, <2>5, <2>6
<1>3. AllFilters \subseteq P
  <2> HIDE DEF P
  <2> QED BY <1>1, <1>2, FilterInduction
<1> QED BY <1>3

\* Whether all disjunctions in a filter are even, by its subfilters.
LEMMA EvenOrsEquation ==
  ASSUME NEW g \in AllFilters, g \notin ColumnFilters
  PROVE  EvenOrs(g) <=> /\ \A i \in DOMAIN g.subs : EvenOrs(g.subs[i])
                        /\ g.kind = "or" =>
                              \A i, j \in DOMAIN g.subs : BoundAlike(g.subs[i], g.subs[j])
<1> DEFINE Alike(f) == f.kind = "or" => \A i, j \in DOMAIN f.subs : BoundAlike(f.subs[i], f.subs[j])
           Body(h) ==
             [f \in AllFilters |->
                 f.kind = "column"
                 \/ /\ \A i \in DOMAIN f.subs : h[f.subs[i]]
                    /\ Alike(f)]
           column == [f \in ColumnFilters |-> TRUE]
           connective ==
               [f \in AllFilters |->
                   [values \in Seq(BOOLEAN) |-> (\A i \in DOMAIN values : values[i]) /\ Alike(f)]]
           chosen == CHOOSE h : h = Body(h)
<1>1. \A f \in ColumnFilters : column[f] \in BOOLEAN
  OBVIOUS
<1>2. \A f \in AllFilters \ ColumnFilters :
         \A values \in Seq(BOOLEAN) : connective[f][values] \in BOOLEAN
  OBVIOUS
<1> HIDE DEF column
<1> DEFINE Truth == BOOLEAN
<1>3. PICK h \in [AllFilters -> Truth] : IsSolution(h, column, connective)
  <2> HIDE DEF connective
  <2>1. StaysWithin(BOOLEAN, column, connective)
    BY <1>1, <1>2 DEF StaysWithin
  <2> QED BY <2>1, RecursionInto
<1>4. ASSUME NEW f \in AllFilters PROVE Step(column, connective, h, f) = Body(h)[f]
  <2> HIDE DEF Alike
  <2>1. CASE f \in ColumnFilters
    BY <2>1, Kinds DEF Step, column
  <2>2. CASE f \notin ColumnFilters
    <3>1. f.kind \in {"and", "or"} /\ f.subs \in Seq(AllFilters)
      BY <2>2, FilterCases
    <3>2. /\ OfSubs(h, f) \in Seq(Truth) /\ DOMAIN OfSubs(h, f) = DOMAIN f.subs
          /\ \A i \in DOMAIN f.subs : OfSubs(h, f)[i] = h[f.subs[i]]
      <4> HIDE DEF connective, Body, Truth
      <4>1. OfSubs(h, f) \in Seq(Truth)
        BY <3>1, OfSubsInSeq
      <4>2. OfSubs(h, f) = [i \in DOMAIN f.subs |-> h[f.subs[i]]]
        BY DEF OfSubs
      <4> QED BY <4>1, <4>2
    <3>3. Step(column, connective, h, f) = connective[f][OfSubs(h, f)]
      BY <2>2 DEF Step
    <3> QED BY <3>1, <3>2, <3>3
  <2> QED BY <2>1, <2>2
<1>5. h = Body(h)
  <2>1. \A f \in AllFilters : h[f] = Body(h)[f]
    BY <1>3, <1>4 DEF IsSolution
  <2>2. Body(h) = [f \in AllFilters |-> Body(h)[f]]
    OBVIOUS
  <2> HIDE DEF connective, Body
  <2> QED BY <1>3, <2>1, <2>2
<1>6. chosen = Body(chosen)
  <2> HIDE DEF Body
  <2> QED BY <1>5
<1>7. \A f : EvenOrs(f) = chosen[f]
  BY DEF EvenOrs
<1> HIDE DEF chosen, connective
<1>8. g.kind # "column"
  BY FilterCases
<1> QED BY <1>6, <1>7, <1>8

\* Reference values of filters on the time stay in the range of an int when the
\* offset of the time zone is taken off.
RefsFit ==
  \A f \in ColumnFilters :
      f.col = "time" => f.ref - TimezoneOffset \in MinInt .. MaxInt

\* The row is between the bounds and in the value set that a filter gives.
WithinBounds(f, row) ==
  /\ \A b \in GreatestLowerBoundFor(f, "time") : row.time >= b
  /\ \A b \in LeastUpperBoundFor(f, "time") : row.time <= b
  /\ \A s \in ValueSetFor(f, "class") : row.class \in s

\* A row of the log.
IsLogRow(row) == IsRow(row) /\ row.class \in MessageClasses

\* The bounds of a filter on a column hold in the rows that it accepts.
LEMMA ColumnBoundsHold ==
  ASSUME RefsFit, NEW f \in ColumnFilters, NEW row, IsLogRow(row), ColumnAccepts(f, row)
  PROVE  WithinBounds(f, row)
<1>1. /\ GreatestLowerBoundFor(f, "time") = ColumnGreatestLowerBound(f, "time")
      /\ LeastUpperBoundFor(f, "time") = ColumnLeastUpperBound(f, "time")
      /\ ValueSetFor(f, "class") = ColumnValueSet(f, "class")
  BY FilterStackAssumption, LowerBoundEquations, UpperBoundEquations, ValueSetEquations
     DEF NumberColumns
<1>2. ColumnType["time"] = "time" /\ ColumnType["class"] = "int"
  BY FilterStackAssumption DEF ColumnsOf
<1>3. CASE f.col = "time"
  <2> DEFINE ref == f.ref - TimezoneOffset
  <2>1. ref \in MinInt .. MaxInt /\ BoundRef(f) = ref /\ f.ref \in Int
    <3>1. f.ref \in MinInt .. MaxInt
      BY <1>2, <1>3, FiltersAssumption DEF IsColumnFilter
    <3> QED BY <1>2, <1>3, <3>1, Wraps, FiltersAssumption DEF RefsFit, BoundRef
  <2>2. row.time \in MinInt .. MaxInt
    BY FilterStackAssumption DEF IsLogRow, IsRow
  <2>3. Eval(row.time + TimezoneOffset, f.op, f.ref)
    BY <1>2, <1>3 DEF ColumnAccepts, TimeAccepts
  <2>4. /\ f.op = "equal" => row.time = ref
        /\ f.op = "greater_or_equal" => row.time >= ref
        /\ f.op = "greater" => row.time >= ref + 1
        /\ f.op = "less_or_equal" => row.time <= ref
        /\ f.op = "less" => row.time <= ref - 1
    <3> TimezoneOffset \in Int /\ row.time \in Int /\ f.ref \in Int
      BY <2>1, <2>2, FiltersAssumption, Wraps
    <3> QED BY <2>3 DEF Eval, EvalBits
  <2> HIDE DEF ref
  <2>5. \A b \in GreatestLowerBoundFor(f, "time") : row.time >= b
    <3>1. ref + 1 \in MinInt .. MaxInt \/ ref = MaxInt
      BY <2>1, Wraps
    <3>2. CASE f.op = "greater"
      <4>1. ref + 1 \in MinInt .. MaxInt
        BY <2>1, <2>2, <2>4, <3>2, Wraps
      <4>2. Wrap(ref + 1) = ref + 1
        BY <4>1, Wraps
      <4> QED BY <1>1, <2>1, <2>4, <3>2, <4>2 DEF ColumnGreatestLowerBound, None
    <3>3. CASE f.op \in {"equal", "greater_or_equal"}
      BY <1>1, <1>3, <2>1, <2>2, <2>4, <3>3, Wraps DEF ColumnGreatestLowerBound
    <3>4. CASE f.op \notin {"greater", "equal", "greater_or_equal"}
      BY <1>1, <3>4 DEF ColumnGreatestLowerBound, None
    <3> QED BY <3>2, <3>3, <3>4
  <2>6. \A b \in LeastUpperBoundFor(f, "time") : row.time <= b
    <3>2. CASE f.op = "less"
      <4>1. ref - 1 \in MinInt .. MaxInt
        BY <2>1, <2>2, <2>4, <3>2, Wraps
      <4>2. Wrap(ref - 1) = ref - 1
        BY <4>1, Wraps
      <4> QED BY <1>1, <2>1, <2>4, <3>2, <4>2 DEF ColumnLeastUpperBound, None
    <3>3. CASE f.op \in {"equal", "less_or_equal"}
      BY <1>1, <1>3, <2>1, <2>2, <2>4, <3>3, Wraps DEF ColumnLeastUpperBound
    <3>4. CASE f.op \notin {"less", "equal", "less_or_equal"}
      BY <1>1, <3>4 DEF ColumnLeastUpperBound, None
    <3> QED BY <3>2, <3>3, <3>4
  <2>7. ValueSetFor(f, "class") = {}
    BY <1>1, <1>3 DEF ColumnValueSet, None
  <2> QED BY <2>5, <2>6, <2>7 DEF WithinBounds
<1>4. CASE f.col = "class"
  <2>1. GreatestLowerBoundFor(f, "time") = {} /\ LeastUpperBoundFor(f, "time") = {}
    BY <1>1, <1>4 DEF ColumnGreatestLowerBound, ColumnLeastUpperBound, None
  <2>2. Eval(row.class, f.op, f.ref) /\ BoundRef(f) = f.ref
    BY <1>2, <1>4 DEF ColumnAccepts, IntAccepts, BoundRef
  <2>3. row.class \in MessageClasses
    BY DEF IsLogRow
  <2>4. \A s \in ValueSetFor(f, "class") : row.class \in s
    BY <1>1, <1>4, <2>2, <2>3 DEF ColumnValueSet
  <2> QED BY <2>1, <2>4 DEF WithinBounds
<1>5. CASE f.col \notin {"time", "class"}
  BY <1>1, <1>5 DEF WithinBounds, ColumnGreatestLowerBound, ColumnLeastUpperBound,
     ColumnValueSet, None
<1> QED BY <1>3, <1>4, <1>5

\* What connectives make of bounds that hold, if for a disjunction either all
\* subfilters have a bound or none has.
LEMMA CombinedBoundsHold ==
  ASSUME NEW bounds \in Seq(Bounds), NEW x \in Int
  PROVE  /\ (\A i \in DOMAIN bounds : \A b \in bounds[i] : x >= b)
               => \A b \in AndingLowerBound(bounds) : x >= b
         /\ (\A i \in DOMAIN bounds : \A b \in bounds[i] : x <= b)
               => \A b \in AndingUpperBound(bounds) : x <= b
         /\ (\A i, j \in DOMAIN bounds : bounds[i] = None <=> bounds[j] = None)
               => /\ (\E i \in DOMAIN bounds : \A b \in bounds[i] : x >= b)
                         => \A b \in OringLowerBound(bounds) : x >= b
                  /\ (\E i \in DOMAIN bounds : \A b \in bounds[i] : x <= b)
                         => \A b \in OringUpperBound(bounds) : x <= b
<1> DEFINE all == UNION Range(bounds)
<1>1. all \in SUBSET (MinInt .. MaxInt)
  BY SaidByOne DEF Bounds
<1>2. \A b \in all : \E i \in DOMAIN bounds : b \in bounds[i]
  BY SaidByOne DEF Bounds
<1>3. \A i \in DOMAIN bounds : bounds[i] \subseteq all
  BY SaidByOne DEF Bounds
<1> HIDE DEF all
<1>4. CASE all = {}
  BY <1>4 DEF all, AndingLowerBound, AndingUpperBound, OringLowerBound, OringUpperBound,
     Combined, None
<1>5. CASE all # {}
  <2>1. /\ Min(all) \in all /\ \A b \in all : Min(all) <= b
        /\ Max(all) \in all /\ \A b \in all : b <= Max(all)
    BY <1>1, <1>5, Wraps, MinAndMax
  <2>2. /\ AndingLowerBound(bounds) = {Max(all)} /\ AndingUpperBound(bounds) = {Min(all)}
        /\ OringLowerBound(bounds) = {Min(all)} /\ OringUpperBound(bounds) = {Max(all)}
    BY <1>5 DEF all, AndingLowerBound, AndingUpperBound, OringLowerBound, OringUpperBound,
       Combined
  <2>3. Min(all) \in Int /\ Max(all) \in Int /\ \A b \in all : b \in Int
    <3>1. \A b \in MinInt .. MaxInt : b \in Int
      BY Wraps
    <3>2. \A b \in all : b \in Int
      BY <1>1, <3>1
    <3> QED BY <2>1, <3>2
  <2>4. ASSUME \A i, j \in DOMAIN bounds : bounds[i] = None <=> bounds[j] = None,
               NEW i \in DOMAIN bounds
        PROVE  \E b \in bounds[i] : b \in all
    <3>1. \E j \in DOMAIN bounds : bounds[j] # {}
      BY <1>2, <1>5
    <3>2. bounds[i] # {}
      BY <2>4, <3>1 DEF None
    <3> QED BY <1>3, <3>2
  <2>5. ASSUME \A i \in DOMAIN bounds : \A b \in bounds[i] : x >= b PROVE x >= Max(all)
    BY <1>2, <2>1, <2>5
  <2>6. ASSUME \A i \in DOMAIN bounds : \A b \in bounds[i] : x <= b PROVE x <= Min(all)
    BY <1>2, <2>1, <2>6
  <2>7. ASSUME NEW b \in all, x >= b PROVE x >= Min(all)
    BY <2>1, <2>3, <2>7
  <2>8. ASSUME NEW b \in all, x <= b PROVE x <= Max(all)
    BY <2>1, <2>3, <2>8
  <2> QED BY <2>2, <2>4, <2>5, <2>6, <2>7, <2>8
<1> QED BY <1>4, <1>5

\* A value in all sets is in the combined set of a conjunction, and, if all or
\* none of the subfilters have one, a value in one of them in that of a disjunction.
LEMMA CombinedValueSetsHold ==
  ASSUME NEW sets \in Seq(ValueSets), NEW c
  PROVE  /\ (\A i \in DOMAIN sets : \A s \in sets[i] : c \in s)
               => \A s \in AndingValueSet(sets) : c \in s
         /\ /\ \A i, j \in DOMAIN sets : sets[i] = None <=> sets[j] = None
            /\ \E i \in DOMAIN sets : \A s \in sets[i] : c \in s
            => \A s \in OringValueSet(sets) : c \in s
<1> DEFINE all == UNION Range(sets)
<1>1. \A s \in all : \E i \in DOMAIN sets : s \in sets[i]
  BY SaidByOne DEF ValueSets
<1>2. \A i \in DOMAIN sets : sets[i] \subseteq all
  BY SaidByOne DEF ValueSets
<1> HIDE DEF all
<1>3. CASE all = {}
  BY <1>3 DEF all, AndingValueSet, OringValueSet, Combined, None
<1>4. CASE all # {}
  <2>1. AndingValueSet(sets) = {Intersection(all)} /\ OringValueSet(sets) = {UNION all}
    BY <1>4 DEF all, AndingValueSet, OringValueSet, Combined, Union
  <2>2. ASSUME \A i \in DOMAIN sets : \A s \in sets[i] : c \in s PROVE c \in Intersection(all)
    BY <1>1, <1>4, <2>2 DEF Intersection
  <2>3. ASSUME \A i, j \in DOMAIN sets : sets[i] = None <=> sets[j] = None,
               NEW i \in DOMAIN sets, \A s \in sets[i] : c \in s
        PROVE  c \in UNION all
    <3>1. \E j \in DOMAIN sets : sets[j] # {}
      BY <1>1, <1>4
    <3>2. sets[i] # {}
      BY <2>3, <3>1 DEF None
    <3> QED BY <1>2, <2>3, <3>2
  <2> QED BY <2>1, <2>2, <2>3
<1> QED BY <1>3, <1>4

\* The rows that a filter accepts are within its bounds, if its disjunctions are even.
LEMMA BoundsHold ==
  ASSUME RefsFit, NEW f \in AllFilters, EvenOrs(f),
         NEW row, IsLogRow(row), Accepts(f, row)
  PROVE  WithinBounds(f, row)
<1> DEFINE Holds(g) == EvenOrs(g) /\ Accepts(g, row) => WithinBounds(g, row)
           P == {g \in AllFilters : Holds(g)}
<1>1. ColumnFilters \subseteq P
  <2> SUFFICES ASSUME NEW g \in ColumnFilters, Accepts(g, row) PROVE WithinBounds(g, row)
    BY Depths, FiltersAssumption
  <2> QED BY AcceptsEquations, ColumnBoundsHold
<1>2. ASSUME NEW d \in 1 .. MaxDepth, NEW g \in Connectives(FiltersOf[d - 1] \cap P)
      PROVE  g \in P
  <2> DEFINE lower == [i \in DOMAIN g.subs |-> GreatestLowerBoundFor(g.subs[i], "time")]
             upper == [i \in DOMAIN g.subs |-> LeastUpperBoundFor(g.subs[i], "time")]
             sets == [i \in DOMAIN g.subs |-> ValueSetFor(g.subs[i], "class")]
  <2>1. /\ g \in AllFilters /\ g \notin ColumnFilters /\ g.kind \in {"and", "or"}
        /\ g.subs \in Seq(FiltersOf[d - 1] \cap P)
    BY ConnectiveOf
  <2>2. \A i \in DOMAIN g.subs : g.subs[i] \in AllFilters /\ Holds(g.subs[i])
    BY <2>1
  <2> SUFFICES ASSUME EvenOrs(g), Accepts(g, row) PROVE WithinBounds(g, row)
    BY <2>1
  <2> HIDE DEF P
  <2>3. /\ \A i \in DOMAIN g.subs : EvenOrs(g.subs[i])
        /\ g.kind = "or" => \A i, j \in DOMAIN g.subs : BoundAlike(g.subs[i], g.subs[j])
    BY <2>1, EvenOrsEquation
  <2>4. "time" \in NumberColumns
    BY FilterStackAssumption DEF NumberColumns
  <2>5. lower \in Seq(Bounds) /\ upper \in Seq(Bounds) /\ sets \in Seq(ValueSets)
    <3>1. \A e \in AllFilters : /\ GreatestLowerBoundFor(e, "time") \in Bounds
                                /\ LeastUpperBoundFor(e, "time") \in Bounds
                                /\ ValueSetFor(e, "class") \in ValueSets
      BY <2>4, LowerBoundEquations, UpperBoundEquations, ValueSetEquations
    <3>2. \A i \in 1 .. Len(g.subs) : g.subs[i] \in AllFilters
      BY <2>1, <2>2
    <3>3. Len(g.subs) \in Nat /\ DOMAIN g.subs = 1 .. Len(g.subs)
      BY <2>1
    <3> QED BY <3>1, <3>2, <3>3
  <2>6. /\ DOMAIN lower = DOMAIN g.subs /\ DOMAIN upper = DOMAIN g.subs
        /\ DOMAIN sets = DOMAIN g.subs
        /\ \A i \in DOMAIN g.subs : /\ lower[i] = GreatestLowerBoundFor(g.subs[i], "time")
                                    /\ upper[i] = LeastUpperBoundFor(g.subs[i], "time")
                                    /\ sets[i] = ValueSetFor(g.subs[i], "class")
    OBVIOUS
  <2>7. row.time \in Int
    <3>1. row.time \in MinInt .. MaxInt
      BY FilterStackAssumption DEF IsLogRow, IsRow
    <3> QED BY <3>1, Wraps
  <2>8. CASE g.kind = "and"
    <3>1. /\ GreatestLowerBoundFor(g, "time") = AndingLowerBound(lower)
          /\ LeastUpperBoundFor(g, "time") = AndingUpperBound(upper)
          /\ ValueSetFor(g, "class") = AndingValueSet(sets)
      BY <2>1, <2>4, <2>8, LowerBoundEquations, UpperBoundEquations, ValueSetEquations
    <3> HIDE DEF lower, upper, sets
    <3>2. \A i \in DOMAIN g.subs : WithinBounds(g.subs[i], row)
      <4>1. \A i \in DOMAIN g.subs : Accepts(g.subs[i], row)
        BY <2>1, <2>8, AcceptsEquations
      <4> QED BY <2>2, <2>3, <4>1
    <3>3. \A i \in DOMAIN g.subs : /\ \A b \in lower[i] : row.time >= b
                                   /\ \A b \in upper[i] : row.time <= b
                                   /\ \A s \in sets[i] : row.class \in s
      BY <3>2, <2>6 DEF WithinBounds
    <3>4. \A b \in AndingLowerBound(lower) : row.time >= b
      BY <3>3, <2>5, <2>6, <2>7, CombinedBoundsHold
    <3>5. \A b \in AndingUpperBound(upper) : row.time <= b
      BY <3>3, <2>5, <2>6, <2>7, CombinedBoundsHold
    <3>6. \A s \in AndingValueSet(sets) : row.class \in s
      BY <3>3, <2>5, <2>6, CombinedValueSetsHold
    <3> QED BY <3>1, <3>4, <3>5, <3>6 DEF WithinBounds
  <2>9. CASE g.kind = "or"
    <3>1. /\ GreatestLowerBoundFor(g, "time") = OringLowerBound(lower)
          /\ LeastUpperBoundFor(g, "time") = OringUpperBound(upper)
          /\ ValueSetFor(g, "class") = OringValueSet(sets)
      BY <2>1, <2>4, <2>9, LowerBoundEquations, UpperBoundEquations, ValueSetEquations
    <3> HIDE DEF lower, upper, sets
    <3>2. PICK i \in DOMAIN g.subs : WithinBounds(g.subs[i], row)
      <4>1. \E i \in DOMAIN g.subs : Accepts(g.subs[i], row)
        BY <2>1, <2>9, AcceptsEquations
      <4> QED BY <2>2, <2>3, <4>1
    <3>3. /\ \A b \in lower[i] : row.time >= b
          /\ \A b \in upper[i] : row.time <= b
          /\ \A s \in sets[i] : row.class \in s
      BY <3>2, <2>6 DEF WithinBounds
    <3>4. \A j, k \in DOMAIN g.subs : /\ lower[j] = None <=> lower[k] = None
                                      /\ upper[j] = None <=> upper[k] = None
                                      /\ sets[j] = None <=> sets[k] = None
      BY <2>3, <2>6, <2>9 DEF BoundAlike
    <3>5. \A b \in OringLowerBound(lower) : row.time >= b
      BY <3>3, <3>4, <2>5, <2>6, <2>7, CombinedBoundsHold
    <3>6. \A b \in OringUpperBound(upper) : row.time <= b
      BY <3>3, <3>4, <2>5, <2>6, <2>7, CombinedBoundsHold
    <3>7. \A s \in OringValueSet(sets) : row.class \in s
      BY <3>3, <3>4, <2>5, <2>6, CombinedValueSetsHold
    <3> QED BY <3>1, <3>5, <3>6, <3>7 DEF WithinBounds
  <2> QED BY <2>1, <2>8, <2>9
<1>3. AllFilters \subseteq P
  <2> HIDE DEF P
  <2> QED BY <1>1, <1>2, FilterInduction
<1> QED BY <1>3

------------------------------------------------------------------------------
(* FlattenSeq *)

\* What FlattenSeq has made of the first sequences of ss.
Flattened(h, ss, n) == \A i \in 1 .. n : h[i] = IF i = 1 THEN ss[i] ELSE h[i - 1] \o ss[i]

\* The prefixes of a flattened sequence exist as a function.
LEMMA FlattenedExists ==
  ASSUME NEW S, NEW ss \in Seq(Seq(S))
  PROVE  \E h \in [1 .. Len(ss) -> Seq(S)] : Flattened(h, ss, Len(ss))
<1> DEFINE P == {n \in Nat : n <= Len(ss) => \E h \in [1 .. n -> Seq(S)] : Flattened(h, ss, n)}
<1>1. 0 \in P
  <2> DEFINE h == [i \in 1 .. 0 |-> <<>>]
  <2>1. h \in [1 .. 0 -> Seq(S)] /\ Flattened(h, ss, 0)
    BY DEF Flattened
  <2> HIDE DEF h
  <2> QED BY <2>1
<1>2. ASSUME NEW n \in P PROVE n + 1 \in P
  <2> SUFFICES ASSUME n + 1 <= Len(ss)
               PROVE  \E h \in [1 .. n + 1 -> Seq(S)] : Flattened(h, ss, n + 1)
    OBVIOUS
  <2>1. PICK h \in [1 .. n -> Seq(S)] : Flattened(h, ss, n)
    OBVIOUS
  <2> DEFINE next == IF n = 0 THEN ss[1] ELSE h[n] \o ss[n + 1]
             k == [i \in 1 .. n + 1 |-> IF i = n + 1 THEN next ELSE h[i]]
  <2>2. next \in Seq(S)
    <3>1. ss[n + 1] \in Seq(S) /\ (n # 0 => h[n] \in Seq(S))
      OBVIOUS
    <3> QED BY <3>1, ConcatProperties
  <2> HIDE DEF next
  <2>3. k \in [1 .. n + 1 -> Seq(S)]
    BY <2>2
  <2>4. Flattened(k, ss, n + 1)
    <3> SUFFICES ASSUME NEW i \in 1 .. n + 1
                 PROVE  k[i] = IF i = 1 THEN ss[i] ELSE k[i - 1] \o ss[i]
      BY DEF Flattened
    <3>1. CASE i = n + 1
      <4>1. k[i] = next
        BY <3>1
      <4>2. i # 1 => k[i - 1] = h[n]
        BY <3>1
      <4> HIDE DEF k
      <4> QED BY <3>1, <4>1, <4>2 DEF next
    <3>2. CASE i # n + 1
      <4>1. k[i] = h[i] /\ i \in 1 .. n /\ (i # 1 => k[i - 1] = h[i - 1])
        BY <3>2
      <4> HIDE DEF k
      <4> QED BY <2>1, <4>1 DEF Flattened
    <3> QED BY <3>1, <3>2
  <2> HIDE DEF k
  <2> QED BY <2>3, <2>4
<1> HIDE DEF P
<1>3. P \subseteq Nat
  BY DEF P
<1>4. P = Nat
  BY <1>1, <1>2, <1>3, AllNumbers
<1>5. Len(ss) \in Nat
  OBVIOUS
<1> QED BY <1>4, <1>5 DEF P

\* There is only one such function.
LEMMA FlattenedUnique ==
  ASSUME NEW ss, NEW n \in Nat, NEW g, NEW h, Flattened(g, ss, n), Flattened(h, ss, n)
  PROVE  \A i \in 1 .. n : g[i] = h[i]
<1> DEFINE P == {i \in Nat : i + 1 <= n => g[i + 1] = h[i + 1]}
<1>1. 0 \in P
  BY DEF Flattened
<1>2. ASSUME NEW i \in P PROVE i + 1 \in P
  <2> SUFFICES ASSUME i + 2 <= n PROVE g[i + 2] = h[i + 2]
    BY DEF P
  <2>1. g[i + 1] = h[i + 1] /\ i + 2 \in 1 .. n /\ i + 2 # 1 /\ i + 2 - 1 = i + 1
    OBVIOUS
  <2> QED BY <2>1 DEF Flattened
<1> HIDE DEF P
<1>3. P \subseteq Nat
  BY DEF P
<1>4. P = Nat
  BY <1>1, <1>2, <1>3, AllNumbers
<1>5. \A i \in 1 .. n : i - 1 \in P /\ i - 1 + 1 = i
  BY <1>4
<1> QED BY <1>5 DEF P

\* FlattenSeq is the last of these.
LEMMA FlattenSeqIs ==
  ASSUME NEW S, NEW ss \in Seq(Seq(S)), Len(ss) > 0, NEW h, Flattened(h, ss, Len(ss))
  PROVE  FlattenSeq(ss) = h[Len(ss)]
<1> DEFINE Body(f) == [i \in 1 .. Len(ss) |-> IF i = 1 THEN ss[i] ELSE f[i - 1] \o ss[i]]
           chosen == CHOOSE f : f = Body(f)
<1>1. PICK f \in [1 .. Len(ss) -> Seq(S)] : Flattened(f, ss, Len(ss))
  BY FlattenedExists
<1>2. f = Body(f)
  BY <1>1 DEF Flattened
<1>3. chosen = Body(chosen)
  <2> HIDE DEF Body
  <2> QED BY <1>2
<1>4. FlattenSeq(ss) = chosen[Len(ss)]
  BY DEF FlattenSeq
<1> HIDE DEF chosen
<1>5. Flattened(chosen, ss, Len(ss))
  BY <1>3 DEF Flattened
<1> QED BY <1>4, <1>5, FlattenedUnique

\* Its elements are those of the sequences that it joins.
LEMMA Flattens ==
  ASSUME NEW S, NEW ss \in Seq(Seq(S))
  PROVE  /\ FlattenSeq(ss) \in Seq(S)
         /\ \A x : x \in Range(FlattenSeq(ss)) <=> \E i \in DOMAIN ss : x \in Range(ss[i])
<1>0. Len(ss) \in Nat /\ DOMAIN ss = 1 .. Len(ss)
  OBVIOUS
<1>1. CASE Len(ss) = 0
  <2>1. ss = <<>> /\ FlattenSeq(ss) = ss
    BY <1>1 DEF FlattenSeq
  <2>2. <<>> \in Seq(S) /\ DOMAIN FlattenSeq(ss) = {} /\ DOMAIN ss = {}
    BY <2>1, <1>0, <1>1
  <2>3. Range(FlattenSeq(ss)) = {}
    BY <2>2 DEF Range
  <2> QED BY <2>1, <2>2, <2>3
<1>2. CASE Len(ss) > 0
  <2>1. PICK h \in [1 .. Len(ss) -> Seq(S)] : Flattened(h, ss, Len(ss))
    BY FlattenedExists
  <2>2. FlattenSeq(ss) = h[Len(ss)] /\ h[Len(ss)] \in Seq(S)
    <3>1. FlattenSeq(ss) = h[Len(ss)]
      BY <1>2, <2>1, FlattenSeqIs
    <3>2. Len(ss) \in 1 .. Len(ss)
      BY <1>0, <1>2
    <3>3. h[Len(ss)] \in Seq(S)
      BY <2>1, <3>2
    <3> QED BY <3>1, <3>3
  <2> DEFINE P == {n \in Nat : n + 1 <= Len(ss) =>
                      \A x : x \in Range(h[n + 1])
                                 <=> \E i \in 1 .. n + 1 : x \in Range(ss[i])}
  <2>3. 0 \in P
    <3>1. 1 \in 1 .. Len(ss)
      BY <1>0, <1>2
    <3>2. h[1] = ss[1]
      BY <2>1, <3>1 DEF Flattened
    <3> QED BY <3>2
  <2>4. ASSUME NEW n \in P PROVE n + 1 \in P
    <3> SUFFICES ASSUME n + 2 <= Len(ss), NEW x
                 PROVE  x \in Range(h[n + 2]) <=> \E i \in 1 .. n + 2 : x \in Range(ss[i])
      OBVIOUS
    <3>1. x \in Range(h[n + 1]) <=> \E i \in 1 .. n + 1 : x \in Range(ss[i])
      OBVIOUS
    <3> n \in Nat
      OBVIOUS
    <3> HIDE DEF P
    <3>2. h[n + 2] = h[n + 1] \o ss[n + 2]
      <4>1. n + 2 \in 1 .. Len(ss) /\ n + 2 # 1 /\ n + 2 - 1 = n + 1
        BY <1>0
      <4>2. PICK j \in 1 .. Len(ss) : j = n + 2 /\ j # 1
        BY <4>1
      <4>3. h[j] = IF j = 1 THEN ss[j] ELSE h[j - 1] \o ss[j]
        BY <2>1 DEF Flattened
      <4>4. j - 1 = n + 1
        BY <4>2
      <4> QED BY <4>2, <4>3, <4>4
    <3>3. h[n + 1] \in Seq(S) /\ ss[n + 2] \in Seq(S)
      <4>1. n + 1 \in 1 .. Len(ss) /\ n + 2 \in 1 .. Len(ss)
        BY <1>0
      <4>2. \A i \in 1 .. Len(ss) : h[i] \in Seq(S) /\ ss[i] \in Seq(S)
        BY <2>1, <1>0
      <4> QED BY <4>1, <4>2
    <3>4. Range(h[n + 1] \o ss[n + 2]) = Range(h[n + 1]) \cup Range(ss[n + 2])
      BY <3>3, RangeConcatenation
    <3>5. \A i : i \in 1 .. n + 2 <=> i \in 1 .. n + 1 \/ i = n + 2
      OBVIOUS
    <3> QED BY <3>1, <3>2, <3>4, <3>5
  <2> HIDE DEF P
  <2>5. P \subseteq Nat
    BY DEF P
  <2>6. P = Nat
    BY <2>3, <2>4, <2>5, AllNumbers
  <2>7. Len(ss) - 1 \in P /\ Len(ss) - 1 + 1 = Len(ss) /\ DOMAIN ss = 1 .. Len(ss)
    BY <1>2, <2>6
  <2>8. \A x : x \in Range(h[Len(ss)]) <=> \E i \in 1 .. Len(ss) : x \in Range(ss[i])
    BY <2>7 DEF P
  <2> QED BY <2>2, <2>8, <1>0
<1>3. Len(ss) = 0 \/ Len(ss) > 0
  BY <1>0
<1> QED BY <1>1, <1>2, <1>3

------------------------------------------------------------------------------
(* Making connectives *)

AllAccept(subs, row) == \A i \in DOMAIN subs : Accepts(subs[i], row)
SomeAccepts(subs, row) == \E i \in DOMAIN subs : Accepts(subs[i], row)

\* What a connective of filters of the depth below accepts.
LEMMA ConnectiveAccepts ==
  ASSUME NEW d \in 1 .. MaxDepth, NEW subs \in Seq(FiltersOf[d - 1])
  PROVE  /\ And(subs) \in FiltersOf[d] /\ Or(subs) \in FiltersOf[d]
         /\ \A row : Accepts(And(subs), row) <=> AllAccept(subs, row)
         /\ \A row : Accepts(Or(subs), row) <=> SomeAccepts(subs, row)
<1>1. And(subs) \in Connectives(FiltersOf[d - 1]) /\ Or(subs) \in Connectives(FiltersOf[d - 1])
  BY Kinds
<1>2. d \in 0 .. MaxDepth
  BY FiltersAssumption
<1>3. /\ And(subs) \in FiltersOf[d] /\ Or(subs) \in FiltersOf[d]
      /\ And(subs) \in AllFilters /\ Or(subs) \in AllFilters
  BY <1>1, <1>2, Depths
<1>4. /\ And(subs).kind = "and" /\ And(subs).subs = subs
      /\ Or(subs).kind = "or" /\ Or(subs).subs = subs
  BY DEF And, Or
<1> QED BY <1>3, <1>4, AcceptsEquations DEF AllAccept, SomeAccepts

\* A filter accepts what all its conjuncts accept, and what one of its disjuncts
\* accepts.
LEMMA Parts ==
  ASSUME NEW d \in 0 .. MaxDepth, NEW f \in FiltersOf[d]
  PROVE  /\ Conjuncts(f) \in Seq(FiltersOf[d]) /\ Disjuncts(f) \in Seq(FiltersOf[d])
         /\ \A row : Accepts(f, row) <=> \A x \in Range(Conjuncts(f)) : Accepts(x, row)
         /\ \A row : Accepts(f, row) <=> \E x \in Range(Disjuncts(f)) : Accepts(x, row)
<1>0. f \in AllFilters
  BY Depths
<1>1. \A subs : \A row : /\ AllAccept(subs, row) <=> \A x \in Range(subs) : Accepts(x, row)
                         /\ SomeAccepts(subs, row) <=> \E x \in Range(subs) : Accepts(x, row)
  BY DEF AllAccept, SomeAccepts, Range
<1>2. <<f>> \in Seq(FiltersOf[d]) /\ Range(<<f>>) = {f}
  <2>1. Range(<<f>>) = {f}
    BY DEF Range
  <2> QED BY <2>1
<1>3. ASSUME f.kind \in {"and", "or"}
      PROVE  f.subs \in Seq(FiltersOf[d])
  <2>1. f \notin ColumnFilters
    BY <1>3, Kinds
  <2>2. d # 0
    BY <2>1, Levels
  <2>3. d \in 1 .. MaxDepth
    BY <2>2
  <2>4. f \in Connectives(FiltersOf[d - 1]) /\ FiltersOf[d - 1] \subseteq FiltersOf[d]
    BY <2>1, <2>3, Depths
  <2>5. f.subs \in Seq(FiltersOf[d - 1])
    BY <2>4, Kinds
  <2> QED BY <2>4, <2>5, SeqMonotonic
<1>4. CASE f.kind = "and"
  <2>1. Conjuncts(f) = f.subs /\ Disjuncts(f) = <<f>>
    BY <1>4 DEF Conjuncts, Disjuncts
  <2>2. \A row : Accepts(f, row) <=> AllAccept(f.subs, row)
    BY <1>0, <1>4, AcceptsEquations DEF AllAccept
  <2> QED BY <1>1, <1>2, <1>3, <1>4, <2>1, <2>2
<1>5. CASE f.kind = "or"
  <2>1. Disjuncts(f) = f.subs /\ Conjuncts(f) = <<f>>
    BY <1>5 DEF Conjuncts, Disjuncts
  <2>2. \A row : Accepts(f, row) <=> SomeAccepts(f.subs, row)
    BY <1>0, <1>5, AcceptsEquations DEF SomeAccepts
  <2> QED BY <1>1, <1>2, <1>3, <1>5, <2>1, <2>2
<1>6. CASE f.kind \notin {"and", "or"}
  BY <1>2, <1>6 DEF Conjuncts, Disjuncts
<1> QED BY <1>4, <1>5, <1>6

\* AndingFilter::make and OringFilter::make mean conjunction and disjunction.
LEMMA Makes ==
  ASSUME NEW d \in 1 .. MaxDepth, NEW subs \in Seq(FiltersOf[d - 1])
  PROVE  /\ AndingMake(subs) \in FiltersOf[d] /\ OringMake(subs) \in FiltersOf[d]
         /\ \A row : Accepts(AndingMake(subs), row) <=> AllAccept(subs, row)
         /\ \A row : Accepts(OringMake(subs), row) <=> SomeAccepts(subs, row)
<1> DEFINE F == FiltersOf[d - 1]
<1>1. d - 1 \in 0 .. MaxDepth
  BY FiltersAssumption
<1>2. \A i \in DOMAIN subs : subs[i] \in F /\ subs[i] \in AllFilters
  BY <1>1, Depths
<1>3. DOMAIN subs = 1 .. Len(subs) /\ Len(subs) \in Nat
  OBVIOUS
<1>4. <<>> \in Seq(F) /\ \A i : i \notin DOMAIN <<>>
  OBVIOUS
<1>5. F \subseteq FiltersOf[d]
  BY Depths
<1> HIDE DEF F
\* Joining the parts.
<1>6. /\ AndingMake(subs) \in FiltersOf[d]
      /\ \A row : Accepts(AndingMake(subs), row) <=> AllAccept(subs, row)
  <2> DEFINE parts == [i \in DOMAIN subs |-> Conjuncts(subs[i])]
             flat == FlattenSeq(parts)
  <2>1. parts \in Seq(Seq(F))
    <3>1. \A i \in 1 .. Len(subs) : Conjuncts(subs[i]) \in Seq(F)
      BY <1>1, <1>2, <1>3, Parts DEF F
    <3> QED BY <1>3, <3>1
  <2>2. /\ flat \in Seq(F)
        /\ \A x : x \in Range(flat) <=> \E i \in DOMAIN parts : x \in Range(parts[i])
    <3> HIDE DEF parts
    <3> QED BY <2>1, Flattens
  <2>3. \A x : x \in Range(flat) <=> \E i \in DOMAIN subs : x \in Range(Conjuncts(subs[i]))
    <3>1. DOMAIN parts = DOMAIN subs /\ \A i \in DOMAIN subs : parts[i] = Conjuncts(subs[i])
      OBVIOUS
    <3> HIDE DEF parts, flat
    <3> QED BY <2>2, <3>1
  <2> HIDE DEF flat
  <2>4. ASSUME NEW row PROVE AllAccept(flat, row) <=> AllAccept(subs, row)
    <3>1. \A i \in DOMAIN subs :
             Accepts(subs[i], row) <=> \A x \in Range(Conjuncts(subs[i])) : Accepts(x, row)
      BY <1>1, <1>2, Parts DEF F
    <3>2. AllAccept(flat, row) <=> \A x \in Range(flat) : Accepts(x, row)
      BY DEF AllAccept, Range
    <3> QED BY <2>3, <3>1, <3>2 DEF AllAccept
  <2>5. /\ And(flat) \in FiltersOf[d]
        /\ \A row : Accepts(And(flat), row) <=> AllAccept(flat, row)
    BY <2>2, ConnectiveAccepts DEF F
  <2>6. /\ Unwrap(And(flat)) \in FiltersOf[d]
        /\ \A row : Accepts(Unwrap(And(flat)), row) <=> AllAccept(flat, row)
    <3>1. And(flat).subs = flat
      BY DEF And
    <3>2. CASE Len(flat) = 1
      <4>1. DOMAIN flat = 1 .. 1
        BY <2>2, <3>2
      <4>2. \A i : i \in DOMAIN flat <=> i = 1
        BY <4>1
      <4>3. flat[1] \in F
        BY <2>2, <4>2
      <4> QED BY <1>5, <3>1, <3>2, <4>2, <4>3 DEF Unwrap, AllAccept
    <3>3. CASE Len(flat) # 1
      BY <2>5, <3>1, <3>3 DEF Unwrap
    <3> QED BY <3>2, <3>3
  <2>7. CASE \E i \in DOMAIN subs : IsContradiction(subs[i])
    <3>1. PICK i \in DOMAIN subs : subs[i].kind = "or" /\ subs[i].subs = <<>>
      BY <2>7 DEF IsContradiction
    <3>2. \A row : ~Accepts(subs[i], row)
      <4>1. \A row : Accepts(subs[i], row) <=> \E j \in DOMAIN subs[i].subs :
                                                     Accepts(subs[i].subs[j], row)
        BY <1>2, <3>1, AcceptsEquations
      <4> QED BY <1>4, <3>1, <4>1
    <3>3. \A row : ~AllAccept(subs, row)
      BY <3>2 DEF AllAccept
    <3>4. /\ Or(<<>>) \in FiltersOf[d]
          /\ \A row : ~Accepts(Or(<<>>), row)
      <4>1. \A row : ~SomeAccepts(<<>>, row)
        BY <1>4 DEF SomeAccepts
      <4> QED BY <1>4, <4>1, ConnectiveAccepts DEF F
    <3>5. AndingMake(subs) = Or(<<>>)
      BY <2>7 DEF AndingMake
    <3> QED BY <3>3, <3>4, <3>5
  <2>8. CASE ~ \E i \in DOMAIN subs : IsContradiction(subs[i])
    <3>1. AndingMake(subs) = Unwrap(And(flat))
      BY <2>8 DEF AndingMake, flat
    <3> QED BY <2>4, <2>6, <3>1
  <2> QED BY <2>7, <2>8
<1>7. /\ OringMake(subs) \in FiltersOf[d]
      /\ \A row : Accepts(OringMake(subs), row) <=> SomeAccepts(subs, row)
  <2> DEFINE parts == [i \in DOMAIN subs |-> Disjuncts(subs[i])]
             flat == FlattenSeq(parts)
  <2>1. parts \in Seq(Seq(F))
    <3>1. \A i \in 1 .. Len(subs) : Disjuncts(subs[i]) \in Seq(F)
      BY <1>1, <1>2, <1>3, Parts DEF F
    <3> QED BY <1>3, <3>1
  <2>2. /\ flat \in Seq(F)
        /\ \A x : x \in Range(flat) <=> \E i \in DOMAIN parts : x \in Range(parts[i])
    <3> HIDE DEF parts
    <3> QED BY <2>1, Flattens
  <2>3. \A x : x \in Range(flat) <=> \E i \in DOMAIN subs : x \in Range(Disjuncts(subs[i]))
    <3>1. DOMAIN parts = DOMAIN subs /\ \A i \in DOMAIN subs : parts[i] = Disjuncts(subs[i])
      OBVIOUS
    <3> HIDE DEF parts, flat
    <3> QED BY <2>2, <3>1
  <2> HIDE DEF flat
  <2>4. ASSUME NEW row PROVE SomeAccepts(flat, row) <=> SomeAccepts(subs, row)
    <3>1. \A i \in DOMAIN subs :
             Accepts(subs[i], row) <=> \E x \in Range(Disjuncts(subs[i])) : Accepts(x, row)
      BY <1>1, <1>2, Parts DEF F
    <3>2. SomeAccepts(flat, row) <=> \E x \in Range(flat) : Accepts(x, row)
      BY DEF SomeAccepts, Range
    <3> QED BY <2>3, <3>1, <3>2 DEF SomeAccepts
  <2>5. /\ Or(flat) \in FiltersOf[d]
        /\ \A row : Accepts(Or(flat), row) <=> SomeAccepts(flat, row)
    BY <2>2, ConnectiveAccepts DEF F
  <2>6. /\ Unwrap(Or(flat)) \in FiltersOf[d]
        /\ \A row : Accepts(Unwrap(Or(flat)), row) <=> SomeAccepts(flat, row)
    <3>1. Or(flat).subs = flat
      BY DEF Or
    <3>2. CASE Len(flat) = 1
      <4>1. DOMAIN flat = 1 .. 1
        BY <2>2, <3>2
      <4>2. \A i : i \in DOMAIN flat <=> i = 1
        BY <4>1
      <4>3. flat[1] \in F
        BY <2>2, <4>2
      <4> QED BY <1>5, <3>1, <3>2, <4>2, <4>3 DEF Unwrap, SomeAccepts
    <3>3. CASE Len(flat) # 1
      BY <2>5, <3>1, <3>3 DEF Unwrap
    <3> QED BY <3>2, <3>3
  <2>7. CASE \E i \in DOMAIN subs : IsTautology(subs[i])
    <3>1. PICK i \in DOMAIN subs : subs[i].kind = "and" /\ subs[i].subs = <<>>
      BY <2>7 DEF IsTautology
    <3>2. \A row : Accepts(subs[i], row)
      <4>1. \A row : Accepts(subs[i], row) <=> \A j \in DOMAIN subs[i].subs :
                                                     Accepts(subs[i].subs[j], row)
        BY <1>2, <3>1, AcceptsEquations
      <4> QED BY <1>4, <3>1, <4>1
    <3>3. \A row : SomeAccepts(subs, row)
      BY <3>2 DEF SomeAccepts
    <3>4. /\ And(<<>>) \in FiltersOf[d]
          /\ \A row : Accepts(And(<<>>), row)
      <4>1. \A row : AllAccept(<<>>, row)
        BY <1>4 DEF AllAccept
      <4> QED BY <1>4, <4>1, ConnectiveAccepts DEF F
    <3>5. OringMake(subs) = And(<<>>)
      BY <2>7 DEF OringMake
    <3> QED BY <3>3, <3>4, <3>5
  <2>8. CASE ~ \E i \in DOMAIN subs : IsTautology(subs[i])
    <3>1. OringMake(subs) = Unwrap(Or(flat))
      BY <2>8 DEF OringMake, flat
    <3> QED BY <2>4, <2>6, <3>1
  <2> QED BY <2>7, <2>8
<1> QED BY <1>6, <1>7

\* The negation of a filter by those of its subfilters.
LEMMA NegateEquations ==
  /\ \A f \in ColumnFilters : Negate(f) = NegatedLeaf(f)
  /\ \A g \in AllFilters :
        /\ g.kind = "and" =>
              Negate(g) = OringMake([i \in DOMAIN g.subs |-> Negate(g.subs[i])])
        /\ g.kind = "or" =>
              Negate(g) = AndingMake([i \in DOMAIN g.subs |-> Negate(g.subs[i])])
<1> DEFINE Made == AllFilters \cup {AndingMake(subs) : subs \in Seq(AllFilters)}
                              \cup {OringMake(subs) : subs \in Seq(AllFilters)}
           V == [d \in 0 .. MaxDepth |-> IF d < MaxDepth THEN FiltersOf[d + 1] ELSE Made]
           Body(h) ==
             [g \in AllFilters |->
                 IF g.kind = "column" THEN NegatedLeaf(g)
                 ELSE IF g.kind = "and" THEN OringMake(OfSubs(h, g))
                 ELSE AndingMake(OfSubs(h, g))]
           column == [g \in ColumnFilters |-> NegatedLeaf(g)]
           connective ==
               [g \in AllFilters |->
                   [values \in Seq(Made) |->
                       IF g.kind = "and" THEN OringMake(values) ELSE AndingMake(values)]]
           chosen == CHOOSE h : h = Body(h)
<1>1. \A d \in 0 .. MaxDepth : V[d] \subseteq Made /\ FiltersOf[d] \subseteq V[d]
  <2> TAKE d \in 0 .. MaxDepth
  <2>1. CASE d < MaxDepth
    <3>1. V[d] = FiltersOf[d + 1] /\ d + 1 \in 1 .. MaxDepth /\ d + 1 - 1 = d
      BY <2>1, FiltersAssumption
    <3>2. FiltersOf[d] \subseteq FiltersOf[d + 1] /\ FiltersOf[d + 1] \subseteq AllFilters
      BY <3>1, Depths
    <3> HIDE DEF V
    <3> QED BY <3>1, <3>2
  <2>2. CASE d = MaxDepth
    BY <2>2 DEF AllFilters
  <2> QED BY <2>1, <2>2, FiltersAssumption
<1>2. \A d \in 1 .. MaxDepth : V[d - 1] = FiltersOf[d] /\ d \in 0 .. MaxDepth
  BY FiltersAssumption
<1>3. ASSUME NEW d \in 1 .. MaxDepth, NEW values \in Seq(FiltersOf[d])
      PROVE  AndingMake(values) \in V[d] /\ OringMake(values) \in V[d]
  <2>1. CASE d < MaxDepth
    <3>1. V[d] = FiltersOf[d + 1] /\ d + 1 \in 1 .. MaxDepth /\ d + 1 - 1 = d
      BY <2>1, FiltersAssumption
    <3> HIDE DEF V
    <3> QED BY <3>1, Makes
  <2>2. CASE d = MaxDepth
    <3>1. V[d] = Made /\ values \in Seq(AllFilters)
      BY <2>2 DEF AllFilters
    <3> HIDE DEF V
    <3> QED BY <3>1
  <2> QED BY <2>1, <2>2, FiltersAssumption
<1>4. /\ 0 \in 0 .. MaxDepth /\ MaxDepth \in 0 .. MaxDepth /\ V[MaxDepth] = Made
      /\ AllFilters \subseteq Made
  BY FiltersAssumption
<1>5. \A f \in ColumnFilters : column[f] \in V[0]
  <2>1. \A f \in ColumnFilters : NegatedLeaf(f) \in ColumnFilters
    BY FiltersAssumption
  <2>2. ColumnFilters \subseteq V[0]
    BY <1>1, <1>4, Levels
  <2> HIDE DEF V
  <2> QED BY <2>1, <2>2
<1> HIDE DEF V, Made, column
<1>6. StaysIn(V, column, connective)
  <2>1. \A d \in 1 .. MaxDepth : V[d - 1] \subseteq V[d]
    BY <1>1, <1>2
  <2>2. ASSUME NEW d \in 1 .. MaxDepth, NEW g \in Connectives(FiltersOf[d - 1]),
               NEW values \in Seq(V[d - 1])
        PROVE  connective[g][values] \in V[d]
    <3>1. g \in AllFilters
      BY <1>2, Depths
    <3>2. values \in Seq(FiltersOf[d])
      BY <1>2
    <3>3. FiltersOf[d] \subseteq Made
      BY <1>1, <1>2
    <3>4. values \in Seq(Made)
      BY <3>2, <3>3, SeqMonotonic
    <3>5. AndingMake(values) \in V[d] /\ OringMake(values) \in V[d]
      BY <1>3, <3>2
    <3> QED BY <3>1, <3>4, <3>5
  <2> HIDE DEF connective
  <2> QED BY <1>5, <2>1, <2>2 DEF StaysIn
<1>7. PICK h \in [AllFilters -> Made] : IsSolution(h, column, connective)
  <2> HIDE DEF connective
  <2>1. \E h \in [AllFilters -> V[MaxDepth]] : IsSolution(h, column, connective)
    BY <1>6, Recursion
  <2> QED BY <1>4, <2>1
<1>8. ASSUME NEW g \in AllFilters PROVE Step(column, connective, h, g) = Body(h)[g]
  <2>1. CASE g \in ColumnFilters
    BY <2>1, Kinds DEF Step, column
  <2>2. CASE g \notin ColumnFilters
    <3>1. g.kind \in {"and", "or"} /\ g.subs \in Seq(AllFilters)
      BY <2>2, FilterCases
    <3>2. OfSubs(h, g) \in Seq(Made)
      <4> HIDE DEF connective, Body
      <4> QED BY <3>1, OfSubsInSeq
    <3>3. Step(column, connective, h, g) = connective[g][OfSubs(h, g)]
      BY <2>2 DEF Step
    <3> QED BY <3>1, <3>2, <3>3
  <2> QED BY <2>1, <2>2
<1>9. h = Body(h)
  <2>1. \A g \in AllFilters : h[g] = Body(h)[g]
    BY <1>7, <1>8 DEF IsSolution
  <2>2. Body(h) = [g \in AllFilters |-> Body(h)[g]]
    OBVIOUS
  <2> HIDE DEF connective, Body
  <2> QED BY <1>7, <2>1, <2>2
<1>10. chosen = Body(chosen)
  <2> HIDE DEF Body
  <2> QED BY <1>9
<1>11. \A g : Negate(g) = chosen[g]
  BY DEF Negate
<1> HIDE DEF chosen, connective
<1>12. \A g \in AllFilters : OfSubs(chosen, g) = [i \in DOMAIN g.subs |-> Negate(g.subs[i])]
  BY <1>11 DEF OfSubs
<1>13. \A f \in ColumnFilters : Negate(f) = NegatedLeaf(f)
  <2> TAKE f \in ColumnFilters
  <2>1. f \in AllFilters /\ f.kind = "column"
    BY Depths, Kinds, FiltersAssumption
  <2> QED BY <1>10, <1>11, <2>1
<1>14. ASSUME NEW g \in AllFilters
       PROVE  /\ g.kind = "and" =>
                     Negate(g) = OringMake([i \in DOMAIN g.subs |-> Negate(g.subs[i])])
              /\ g.kind = "or" =>
                     Negate(g) = AndingMake([i \in DOMAIN g.subs |-> Negate(g.subs[i])])
  BY <1>10, <1>11, <1>12
<1> QED BY <1>13, <1>14

\* The partial filter of a filter by those of its subfilters.
LEMMA PartialEquations ==
  ASSUME NEW cols
  PROVE  /\ \A f \in ColumnFilters : PartialFilter(f, cols) = ColumnPartial(f, cols)
         /\ \A g \in AllFilters :
               /\ g.kind = "and" =>
                     PartialFilter(g, cols) = AndingMake([i \in DOMAIN g.subs |-> PartialFilter(g.subs[i], cols)])
               /\ g.kind = "or" =>
                     PartialFilter(g, cols) = OringMake([i \in DOMAIN g.subs |-> PartialFilter(g.subs[i], cols)])
<1> DEFINE Made == AllFilters \cup {AndingMake(subs) : subs \in Seq(AllFilters)}
                              \cup {OringMake(subs) : subs \in Seq(AllFilters)}
           V == [d \in 0 .. MaxDepth |-> IF d < MaxDepth THEN FiltersOf[d + 1] ELSE Made]
           Body(h) ==
             [g \in AllFilters |->
                 IF g.kind = "column" THEN ColumnPartial(g, cols)
                 ELSE IF g.kind = "and" THEN AndingMake(OfSubs(h, g))
                 ELSE OringMake(OfSubs(h, g))]
           column == [g \in ColumnFilters |-> ColumnPartial(g, cols)]
           connective ==
               [g \in AllFilters |->
                   [values \in Seq(Made) |->
                       IF g.kind = "and" THEN AndingMake(values) ELSE OringMake(values)]]
           chosen == CHOOSE h : h = Body(h)
<1>1. \A d \in 0 .. MaxDepth : V[d] \subseteq Made /\ FiltersOf[d] \subseteq V[d]
  <2> TAKE d \in 0 .. MaxDepth
  <2>1. CASE d < MaxDepth
    <3>1. V[d] = FiltersOf[d + 1] /\ d + 1 \in 1 .. MaxDepth /\ d + 1 - 1 = d
      BY <2>1, FiltersAssumption
    <3>2. FiltersOf[d] \subseteq FiltersOf[d + 1] /\ FiltersOf[d + 1] \subseteq AllFilters
      BY <3>1, Depths
    <3> HIDE DEF V
    <3> QED BY <3>1, <3>2
  <2>2. CASE d = MaxDepth
    BY <2>2 DEF AllFilters
  <2> QED BY <2>1, <2>2, FiltersAssumption
<1>2. \A d \in 1 .. MaxDepth : V[d - 1] = FiltersOf[d] /\ d \in 0 .. MaxDepth
  BY FiltersAssumption
<1>3. ASSUME NEW d \in 1 .. MaxDepth, NEW values \in Seq(FiltersOf[d])
      PROVE  AndingMake(values) \in V[d] /\ OringMake(values) \in V[d]
  <2>1. CASE d < MaxDepth
    <3>1. V[d] = FiltersOf[d + 1] /\ d + 1 \in 1 .. MaxDepth /\ d + 1 - 1 = d
      BY <2>1, FiltersAssumption
    <3> HIDE DEF V
    <3> QED BY <3>1, Makes
  <2>2. CASE d = MaxDepth
    <3>1. V[d] = Made /\ values \in Seq(AllFilters)
      BY <2>2 DEF AllFilters
    <3> HIDE DEF V
    <3> QED BY <3>1
  <2> QED BY <2>1, <2>2, FiltersAssumption
<1>4. /\ 0 \in 0 .. MaxDepth /\ MaxDepth \in 0 .. MaxDepth /\ V[MaxDepth] = Made
      /\ AllFilters \subseteq Made
  BY FiltersAssumption
<1>5. \A f \in ColumnFilters : column[f] \in V[0]
  <2>1. ASSUME NEW f \in ColumnFilters PROVE ColumnPartial(f, cols) \in V[0]
    <3>1. f \in V[0]
      BY <1>1, <1>4, Levels
    <3>2. AndingMake(<<>>) \in V[0]
      <4>1. 1 \in 1 .. MaxDepth /\ V[0] = FiltersOf[1] /\ <<>> \in Seq(FiltersOf[1 - 1])
        BY FiltersAssumption, FilterStackAssumption
      <4> HIDE DEF V
      <4> QED BY <4>1, Makes
    <3> QED BY <3>1, <3>2 DEF ColumnPartial
  <2> HIDE DEF V
  <2> QED BY <2>1
<1> HIDE DEF V, Made, column
<1>6. StaysIn(V, column, connective)
  <2>1. \A d \in 1 .. MaxDepth : V[d - 1] \subseteq V[d]
    BY <1>1, <1>2
  <2>2. ASSUME NEW d \in 1 .. MaxDepth, NEW g \in Connectives(FiltersOf[d - 1]),
               NEW values \in Seq(V[d - 1])
        PROVE  connective[g][values] \in V[d]
    <3>1. g \in AllFilters
      BY <1>2, Depths
    <3>2. values \in Seq(FiltersOf[d])
      BY <1>2
    <3>3. FiltersOf[d] \subseteq Made
      BY <1>1, <1>2
    <3>4. values \in Seq(Made)
      BY <3>2, <3>3, SeqMonotonic
    <3>5. AndingMake(values) \in V[d] /\ OringMake(values) \in V[d]
      BY <1>3, <3>2
    <3> QED BY <3>1, <3>4, <3>5
  <2> HIDE DEF connective
  <2> QED BY <1>5, <2>1, <2>2 DEF StaysIn
<1>7. PICK h \in [AllFilters -> Made] : IsSolution(h, column, connective)
  <2> HIDE DEF connective
  <2>1. \E h \in [AllFilters -> V[MaxDepth]] : IsSolution(h, column, connective)
    BY <1>6, Recursion
  <2> QED BY <1>4, <2>1
<1>8. ASSUME NEW g \in AllFilters PROVE Step(column, connective, h, g) = Body(h)[g]
  <2>1. CASE g \in ColumnFilters
    BY <2>1, Kinds DEF Step, column
  <2>2. CASE g \notin ColumnFilters
    <3>1. g.kind \in {"and", "or"} /\ g.subs \in Seq(AllFilters)
      BY <2>2, FilterCases
    <3>2. OfSubs(h, g) \in Seq(Made)
      <4> HIDE DEF connective, Body
      <4> QED BY <3>1, OfSubsInSeq
    <3>3. Step(column, connective, h, g) = connective[g][OfSubs(h, g)]
      BY <2>2 DEF Step
    <3> QED BY <3>1, <3>2, <3>3
  <2> QED BY <2>1, <2>2
<1>9. h = Body(h)
  <2>1. \A g \in AllFilters : h[g] = Body(h)[g]
    BY <1>7, <1>8 DEF IsSolution
  <2>2. Body(h) = [g \in AllFilters |-> Body(h)[g]]
    OBVIOUS
  <2> HIDE DEF connective, Body
  <2> QED BY <1>7, <2>1, <2>2
<1>10. chosen = Body(chosen)
  <2> HIDE DEF Body
  <2> QED BY <1>9
<1>11. \A g : PartialFilter(g, cols) = chosen[g]
  BY DEF PartialFilter
<1> HIDE DEF chosen, connective
<1>12. \A g \in AllFilters : OfSubs(chosen, g) = [i \in DOMAIN g.subs |-> PartialFilter(g.subs[i], cols)]
  BY <1>11 DEF OfSubs
<1>13. \A f \in ColumnFilters : PartialFilter(f, cols) = ColumnPartial(f, cols)
  <2> TAKE f \in ColumnFilters
  <2>1. f \in AllFilters /\ f.kind = "column"
    BY Depths, Kinds, FiltersAssumption
  <2> QED BY <1>10, <1>11, <2>1
<1>14. ASSUME NEW g \in AllFilters
       PROVE  /\ g.kind = "and" =>
                     PartialFilter(g, cols) = AndingMake([i \in DOMAIN g.subs |-> PartialFilter(g.subs[i], cols)])
              /\ g.kind = "or" =>
                     PartialFilter(g, cols) = OringMake([i \in DOMAIN g.subs |-> PartialFilter(g.subs[i], cols)])
  BY <1>10, <1>11, <1>12
<1> QED BY <1>13, <1>14

\* The values of the subfilters of a connective of filters of some depth, that are
\* also in P.
LEMMA SubsOf ==
  ASSUME NEW d \in 1 .. MaxDepth, NEW P, NEW g \in Connectives(FiltersOf[d - 1] \cap P),
         NEW e \in 0 .. MaxDepth, g \in FiltersOf[e]
  PROVE  /\ e \in 1 .. MaxDepth /\ g \in AllFilters /\ g \notin ColumnFilters
         /\ g.kind \in {"and", "or"} /\ g.subs \in Seq(FiltersOf[e - 1])
         /\ \A i \in DOMAIN g.subs : g.subs[i] \in FiltersOf[e - 1] /\ g.subs[i] \in P
<1>1. /\ g \in AllFilters \ ColumnFilters /\ g.kind \in {"and", "or"}
      /\ g.subs \in Seq(FiltersOf[d - 1] \cap P)
  BY ConnectiveOf
<1>2. e # 0
  BY <1>1, Levels
<1>3. e \in 1 .. MaxDepth
  BY <1>2
<1>4. g \in Connectives(FiltersOf[e - 1])
  BY <1>1, <1>3, Depths
<1>5. g.subs \in Seq(FiltersOf[e - 1])
  BY <1>4, Kinds
<1> QED BY <1>1, <1>3, <1>5

\* Negation keeps the depth, and accepts the other rows.
LEMMA Negates ==
  ASSUME NEW e \in 0 .. MaxDepth, NEW f \in FiltersOf[e]
  PROVE  /\ Negate(f) \in FiltersOf[e]
         /\ \A row : IsRow(row) => (Accepts(Negate(f), row) <=> ~Accepts(f, row))
<1> DEFINE Stays(g) == \A d \in 0 .. MaxDepth : g \in FiltersOf[d] => Negate(g) \in FiltersOf[d]
           Opposite(g) == \A row : IsRow(row) => (Accepts(Negate(g), row) <=> ~Accepts(g, row))
           P == {g \in AllFilters : Stays(g) /\ Opposite(g)}
<1>1. ColumnFilters \subseteq P
  <2> SUFFICES ASSUME NEW g \in ColumnFilters PROVE Stays(g) /\ Opposite(g)
    BY Depths, FiltersAssumption
  <2>1. Negate(g) = NegatedLeaf(g) /\ NegatedLeaf(g) \in ColumnFilters
    BY NegateEquations, FiltersAssumption
  <2>2. Stays(g)
    BY <2>1, Depths
  <2>3. ASSUME NEW row, IsRow(row)
        PROVE  ColumnAccepts(NegatedLeaf(g), row) <=> ~ColumnAccepts(g, row)
    <3>1. /\ g.col \in Columns /\ g.op \in OperatorsOf(ColumnType[g.col])
          /\ ColumnType[g.col] \in {"time", "int"} => g.ref \in MinInt .. MaxInt
          /\ ColumnType[g.col] \in {"time", "int", "string", "list"}
      BY FiltersAssumption DEF IsColumnFilter
    <3>2. /\ NegatedLeaf(g).col = g.col /\ NegatedLeaf(g).ref = g.ref
          /\ NegatedLeaf(g).op = Negation(g.op)
      BY FiltersAssumption DEF NegatedLeaf, IsColumnFilter
    <3>3. ColumnType[g.col] \in {"time", "int"} =>
             /\ row[g.col] \in Int /\ g.ref \in Int
             /\ row[g.col] + TimezoneOffset \in Int
      BY <2>3, <3>1, Wraps, FiltersAssumption DEF IsRow, ColumnsOf
    <3>4. ASSUME NEW x \in Int, NEW y \in Int, NEW op \in OrderOperators \cup BitOperators
          PROVE  Eval(x, Negation(op), y) <=> ~Eval(x, op, y)
      BY DEF Eval, EvalBits, Negation, OrderOperators, BitOperators
    <3>5. ASSUME NEW x, NEW y, NEW op \in {"equal", "not_equal"}
          PROVE  Eval(x, Negation(op), y) <=> ~Eval(x, op, y)
      BY DEF Eval, EvalBits, Negation
    <3>6. CASE ColumnType[g.col] = "time"
      BY <3>1, <3>2, <3>3, <3>4, <3>6 DEF ColumnAccepts, TimeAccepts, OperatorsOf
    <3>7. CASE ColumnType[g.col] = "int"
      BY <3>1, <3>2, <3>3, <3>4, <3>7 DEF ColumnAccepts, IntAccepts, OperatorsOf
    <3>8. CASE ColumnType[g.col] = "string"
      BY <3>1, <3>2, <3>5, <3>8 DEF ColumnAccepts, StringAccepts, OperatorsOf
    <3>9. CASE ColumnType[g.col] = "list"
      BY <3>1, <3>2, <3>9 DEF ColumnAccepts, ListAccepts, OperatorsOf, Negation
    <3> QED BY <3>1, <3>6, <3>7, <3>8, <3>9
  <2>4. Opposite(g)
    BY <2>1, <2>3, AcceptsEquations
  <2> QED BY <2>2, <2>4
<1>2. ASSUME NEW d \in 1 .. MaxDepth, NEW g \in Connectives(FiltersOf[d - 1] \cap P)
      PROVE  g \in P
  <2> DEFINE values == [i \in DOMAIN g.subs |-> Negate(g.subs[i])]
  <2>1. g \in FiltersOf[d] /\ d \in 0 .. MaxDepth /\ g \in AllFilters /\ g.kind \in {"and", "or"}
    <3>1. /\ g \in AllFilters \ ColumnFilters /\ g.kind \in {"and", "or"}
          /\ g.subs \in Seq(FiltersOf[d - 1] \cap P)
          /\ g \in FiltersOf[d]
      <4> HIDE DEF P
      <4> QED BY ConnectiveOf
    <3> HIDE DEF P
    <3> QED BY <3>1, FiltersAssumption
  <2>2. ASSUME NEW c \in 0 .. MaxDepth, g \in FiltersOf[c]
        PROVE  /\ Negate(g) \in FiltersOf[c]
               /\ Opposite(g)
    <3>1. /\ c \in 1 .. MaxDepth /\ g.subs \in Seq(FiltersOf[c - 1])
          /\ \A i \in DOMAIN g.subs : g.subs[i] \in FiltersOf[c - 1] /\ g.subs[i] \in P
      BY <2>2, SubsOf
    <3>2. c - 1 \in 0 .. MaxDepth
      BY <3>1, FiltersAssumption
    <3>3. \A i \in DOMAIN g.subs : Negate(g.subs[i]) \in FiltersOf[c - 1]
      BY <3>1, <3>2
    <3>4. values \in Seq(FiltersOf[c - 1])
      <4>1. DOMAIN g.subs = 1 .. Len(g.subs) /\ Len(g.subs) \in Nat
        BY <3>1
      <4> QED BY <3>3, <4>1
    <3>5. /\ DOMAIN values = DOMAIN g.subs
          /\ \A i \in DOMAIN values : values[i] = Negate(g.subs[i])
      OBVIOUS
    <3>6. \A row : IsRow(row) => \A i \in DOMAIN g.subs :
             Accepts(values[i], row) <=> ~Accepts(g.subs[i], row)
      BY <3>1, <3>5
    <3>7. CASE g.kind = "and"
      <4>1. Negate(g) = OringMake(values)
        BY <2>1, <3>7, NegateEquations
      <4> HIDE DEF values, P
      <4>2. \A row : Accepts(g, row) <=> \A i \in DOMAIN g.subs : Accepts(g.subs[i], row)
        BY <2>1, <3>7, AcceptsEquations
      <4>3. /\ OringMake(values) \in FiltersOf[c]
            /\ \A row : Accepts(OringMake(values), row) <=> SomeAccepts(values, row)
        BY <3>1, <3>4, Makes
      <4> QED BY <3>5, <3>6, <4>1, <4>2, <4>3 DEF SomeAccepts
    <3>8. CASE g.kind = "or"
      <4>1. Negate(g) = AndingMake(values)
        BY <2>1, <3>8, NegateEquations
      <4> HIDE DEF values, P
      <4>2. \A row : Accepts(g, row) <=> \E i \in DOMAIN g.subs : Accepts(g.subs[i], row)
        BY <2>1, <3>8, AcceptsEquations
      <4>3. /\ AndingMake(values) \in FiltersOf[c]
            /\ \A row : Accepts(AndingMake(values), row) <=> AllAccept(values, row)
        BY <3>1, <3>4, Makes
      <4> QED BY <3>5, <3>6, <4>1, <4>2, <4>3 DEF AllAccept
    <3> QED BY <2>1, <3>7, <3>8
  <2> HIDE DEF P, values
  <2> QED BY <2>1, <2>2 DEF P
<1>3. AllFilters \subseteq P
  <2> HIDE DEF P
  <2> QED BY <1>1, <1>2, FilterInduction
<1>4. f \in AllFilters
  BY Depths
<1> QED BY <1>3, <1>4

\* A partial filter is at most one deeper, looks only at the given columns and
\* accepts what the filter accepts.
LEMMA PartialAccepts ==
  ASSUME NEW e \in 0 .. MaxDepth, e < MaxDepth, NEW f \in FiltersOf[e], NEW cols
  PROVE  /\ PartialFilter(f, cols) \in FiltersOf[e + 1]
         /\ \A row, other :
               (\A c \in cols : row[c] = other[c]) /\ Accepts(f, row)
                   => Accepts(PartialFilter(f, cols), other)
<1> DEFINE Stays(g) == \A d \in 0 .. MaxDepth : d < MaxDepth /\ g \in FiltersOf[d]
                           => PartialFilter(g, cols) \in FiltersOf[d + 1]
           Weaker(g) == \A row, other :
                           (\A c \in cols : row[c] = other[c]) /\ Accepts(g, row)
                               => Accepts(PartialFilter(g, cols), other)
           Low(g) == \E d \in 0 .. MaxDepth : d < MaxDepth /\ g \in FiltersOf[d]
           P == {g \in AllFilters : Stays(g) /\ (Low(g) => Weaker(g))}
<1>0. \A d \in 0 .. MaxDepth : d < MaxDepth => d + 1 \in 0 .. MaxDepth /\ d + 1 \in 1 .. MaxDepth
                                                /\ d + 1 - 1 = d
  BY FiltersAssumption
<1>1. ColumnFilters \subseteq P
  <2> SUFFICES ASSUME NEW g \in ColumnFilters PROVE Stays(g) /\ Weaker(g)
    BY Depths, FiltersAssumption
  <2>1. PartialFilter(g, cols) = ColumnPartial(g, cols)
    BY PartialEquations
  <2>2. CASE g.col \in cols
    <3>1. PartialFilter(g, cols) = g
      BY <2>1, <2>2 DEF ColumnPartial
    <3>2. Stays(g)
      BY <1>0, <3>1, Depths
    <3>3. ASSUME NEW row, NEW other, row[g.col] = other[g.col]
          PROVE  ColumnAccepts(g, row) <=> ColumnAccepts(g, other)
      BY <3>3 DEF ColumnAccepts, TimeAccepts, IntAccepts, StringAccepts, ListAccepts
    <3>4. Weaker(g)
      BY <2>2, <3>1, <3>3, AcceptsEquations
    <3> QED BY <3>2, <3>4
  <2>3. CASE g.col \notin cols
    <3>1. PartialFilter(g, cols) = AndingMake(<<>>)
      BY <2>1, <2>3 DEF ColumnPartial
    <3>2. \A S : <<>> \in Seq(S)
      OBVIOUS
    <3>3. \A d \in 1 .. MaxDepth : AndingMake(<<>>) \in FiltersOf[d]
      BY <3>2, Makes
    <3>4. \A row : AllAccept(<<>>, row)
      BY DEF AllAccept
    <3>5. 1 \in 1 .. MaxDepth
      BY FiltersAssumption, FilterStackAssumption
    <3>6. \A row : Accepts(AndingMake(<<>>), row)
      BY <3>2, <3>4, <3>5, Makes
    <3> QED BY <1>0, <3>1, <3>3, <3>6
  <2> QED BY <2>2, <2>3
<1>2. ASSUME NEW d \in 1 .. MaxDepth, NEW g \in Connectives(FiltersOf[d - 1] \cap P)
      PROVE  g \in P
  <2> DEFINE values == [i \in DOMAIN g.subs |-> PartialFilter(g.subs[i], cols)]
  <2>1. g \in FiltersOf[d] /\ d \in 0 .. MaxDepth /\ g \in AllFilters /\ g.kind \in {"and", "or"}
    <3>1. /\ g \in AllFilters \ ColumnFilters /\ g.kind \in {"and", "or"}
          /\ g.subs \in Seq(FiltersOf[d - 1] \cap P)
          /\ g \in FiltersOf[d]
      <4> HIDE DEF P
      <4> QED BY ConnectiveOf
    <3> HIDE DEF P
    <3> QED BY <3>1, FiltersAssumption
  <2>2. ASSUME NEW c \in 0 .. MaxDepth, c < MaxDepth, g \in FiltersOf[c]
        PROVE  /\ PartialFilter(g, cols) \in FiltersOf[c + 1]
               /\ Weaker(g)
    <3>1. /\ c \in 1 .. MaxDepth /\ g.subs \in Seq(FiltersOf[c - 1])
          /\ \A i \in DOMAIN g.subs : g.subs[i] \in FiltersOf[c - 1] /\ g.subs[i] \in P
      BY <2>2, SubsOf
    <3>2. c - 1 \in 0 .. MaxDepth /\ c - 1 < MaxDepth /\ c - 1 + 1 = c
      BY <2>2, <3>1, FiltersAssumption
    <3>3. \A i \in DOMAIN g.subs : PartialFilter(g.subs[i], cols) \in FiltersOf[c]
      BY <3>1, <3>2
    <3>4. values \in Seq(FiltersOf[c])
      <4>1. DOMAIN g.subs = 1 .. Len(g.subs) /\ Len(g.subs) \in Nat
        BY <3>1
      <4> QED BY <3>3, <4>1
    <3>5. /\ DOMAIN values = DOMAIN g.subs
          /\ \A i \in DOMAIN values : values[i] = PartialFilter(g.subs[i], cols)
      OBVIOUS
    <3>6. \A i \in DOMAIN g.subs : Weaker(g.subs[i])
      BY <3>1, <3>2
    <3>7. c + 1 \in 1 .. MaxDepth /\ c + 1 - 1 = c
      BY <1>0, <2>2
    <3>8. /\ AndingMake(values) \in FiltersOf[c + 1] /\ OringMake(values) \in FiltersOf[c + 1]
          /\ \A row : Accepts(AndingMake(values), row) <=> AllAccept(values, row)
          /\ \A row : Accepts(OringMake(values), row) <=> SomeAccepts(values, row)
      <4> HIDE DEF values, P
      <4>1. values \in Seq(FiltersOf[c + 1 - 1])
        BY <3>4, <3>7
      <4> QED BY <3>7, <4>1, Makes
    <3>9. CASE g.kind = "and"
      <4>1. PartialFilter(g, cols) = AndingMake(values)
        BY <2>1, <3>9, PartialEquations
      <4>2. \A row : Accepts(g, row) <=> \A i \in DOMAIN g.subs : Accepts(g.subs[i], row)
        BY <2>1, <3>9, AcceptsEquations
      <4> HIDE DEF values, P
      <4> QED BY <3>5, <3>6, <3>8, <4>1, <4>2 DEF AllAccept
    <3>10. CASE g.kind = "or"
      <4>1. PartialFilter(g, cols) = OringMake(values)
        BY <2>1, <3>10, PartialEquations
      <4>2. \A row : Accepts(g, row) <=> \E i \in DOMAIN g.subs : Accepts(g.subs[i], row)
        BY <2>1, <3>10, AcceptsEquations
      <4> HIDE DEF values, P
      <4> QED BY <3>5, <3>6, <3>8, <4>1, <4>2 DEF SomeAccepts
    <3> QED BY <2>1, <3>9, <3>10
  <2> HIDE DEF P, values
  <2> QED BY <2>1, <2>2 DEF P
<1>3. AllFilters \subseteq P
  <2> HIDE DEF P
  <2> QED BY <1>1, <1>2, FilterInduction
<1>4. f \in AllFilters
  BY Depths
<1> QED BY <1>3, <1>4

------------------------------------------------------------------------------
(* The stack *)

TypeOK ==
  /\ headers \in 0 .. MaxHeaders
  /\ filters \in Seq(FiltersOf[headers])
  /\ meant \in Seq(SUBSET Rows)
  /\ failed \in BOOLEAN

\* Every filter on the stack selects what its headers mean.
Meant ==
  /\ DOMAIN meant = DOMAIN filters
  /\ \A i \in DOMAIN filters : Selected(filters[i]) = meant[i]

IInv == TypeOK /\ Meant

\* What is taken off the two stacks, and what is left, belongs together.
LEMMA MeantTakenOff ==
  ASSUME IInv, NEW n \in 0 .. Len(filters)
  PROVE  /\ Len(meant) = Len(filters) /\ Len(filters) \in Nat
         /\ Below(filters, n) \in Seq(FiltersOf[headers]) /\ Below(meant, n) \in Seq(SUBSET Rows)
         /\ Top(filters, n) \in Seq(FiltersOf[headers]) /\ Top(meant, n) \in Seq(SUBSET Rows)
         /\ DOMAIN Below(filters, n) = DOMAIN Below(meant, n)
         /\ DOMAIN Top(filters, n) = DOMAIN Top(meant, n)
         /\ \A i \in DOMAIN Below(filters, n) : Selected(Below(filters, n)[i]) = Below(meant, n)[i]
         /\ \A i \in DOMAIN Top(filters, n) : Selected(Top(filters, n)[i]) = Top(meant, n)[i]
<1>1. /\ filters \in Seq(FiltersOf[headers]) /\ meant \in Seq(SUBSET Rows)
      /\ DOMAIN filters = 1 .. Len(filters) /\ DOMAIN meant = 1 .. Len(meant)
      /\ Len(filters) \in Nat /\ Len(meant) \in Nat
  BY DEF IInv, TypeOK
<1>2. Len(meant) = Len(filters)
  BY <1>1 DEF IInv, Meant
<1>3. n \in Nat /\ n <= Len(filters)
  BY <1>1
<1>4. \A i \in 1 .. Len(filters) : Selected(filters[i]) = meant[i]
  BY <1>1 DEF IInv, Meant
<1>5. ASSUME NEW S, NEW stack \in Seq(S), Len(stack) = Len(filters)
      PROVE  /\ Below(stack, n) \in Seq(S) /\ DOMAIN Below(stack, n) = 1 .. Len(filters) - n
             /\ \A i \in 1 .. Len(filters) - n : Below(stack, n)[i] = stack[i]
             /\ Top(stack, n) \in Seq(S) /\ DOMAIN Top(stack, n) = 1 .. n
             /\ \A i \in 1 .. n : Top(stack, n)[i] = stack[Len(filters) - n + i]
  BY <1>1, <1>3, <1>5 DEF Below, Top
<1>6. /\ \A i \in 1 .. Len(filters) - n : i \in 1 .. Len(filters)
      /\ \A i \in 1 .. n : Len(filters) - n + i \in 1 .. Len(filters)
  BY <1>1, <1>3
<1>7. /\ Below(filters, n) \in Seq(FiltersOf[headers])
      /\ DOMAIN Below(filters, n) = 1 .. Len(filters) - n
      /\ \A i \in 1 .. Len(filters) - n : Below(filters, n)[i] = filters[i]
      /\ Top(filters, n) \in Seq(FiltersOf[headers]) /\ DOMAIN Top(filters, n) = 1 .. n
      /\ \A i \in 1 .. n : Top(filters, n)[i] = filters[Len(filters) - n + i]
  BY <1>1, <1>5
<1>8. /\ Below(meant, n) \in Seq(SUBSET Rows)
      /\ DOMAIN Below(meant, n) = 1 .. Len(filters) - n
      /\ \A i \in 1 .. Len(filters) - n : Below(meant, n)[i] = meant[i]
      /\ Top(meant, n) \in Seq(SUBSET Rows) /\ DOMAIN Top(meant, n) = 1 .. n
      /\ \A i \in 1 .. n : Top(meant, n)[i] = meant[Len(filters) - n + i]
  BY <1>1, <1>2, <1>5
<1> QED BY <1>1, <1>2, <1>4, <1>6, <1>7, <1>8

\* What AndingMake and OringMake select.
LEMMA MakesSelect ==
  ASSUME NEW d \in 1 .. MaxDepth, NEW subs \in Seq(FiltersOf[d - 1]),
         NEW sets \in Seq(SUBSET Rows), DOMAIN sets = DOMAIN subs,
         \A i \in DOMAIN subs : Selected(subs[i]) = sets[i]
  PROVE  /\ AndingMake(subs) \in FiltersOf[d] /\ OringMake(subs) \in FiltersOf[d]
         /\ Selected(AndingMake(subs)) = AllOf(Range(sets))
         /\ Selected(OringMake(subs)) = UNION Range(sets)
<1>1. \A row \in Rows : \A i \in DOMAIN subs : Accepts(subs[i], row) <=> row \in sets[i]
  BY DEF Selected
<1>2. Selected(AndingMake(subs)) = {row \in Rows : AllAccept(subs, row)}
  BY Makes DEF Selected
<1>3. Selected(OringMake(subs)) = {row \in Rows : SomeAccepts(subs, row)}
  BY Makes DEF Selected
<1>4. \A row \in Rows : /\ AllAccept(subs, row) <=> \A s \in Range(sets) : row \in s
                        /\ SomeAccepts(subs, row) <=> \E s \in Range(sets) : row \in s
  BY <1>1 DEF AllAccept, SomeAccepts, Range
<1>5. UNION Range(sets) \subseteq Rows
  BY DEF Range
<1>6. Selected(AndingMake(subs)) = AllOf(Range(sets))
  BY <1>2, <1>4 DEF AllOf
<1>7. Selected(OringMake(subs)) = UNION Range(sets)
  BY <1>3, <1>4, <1>5
<1> QED BY <1>6, <1>7, Makes

\* Pushing a filter of the next depth.
LEMMA MeantPushed ==
  ASSUME IInv, headers' = headers + 1, headers' \in 1 .. MaxHeaders,
         NEW below \in Seq(FiltersOf[headers]), NEW rows \in Seq(SUBSET Rows),
         DOMAIN below = DOMAIN rows,
         \A i \in DOMAIN below : Selected(below[i]) = rows[i],
         NEW f \in FiltersOf[headers'], NEW set \in SUBSET Rows, Selected(f) = set,
         filters' = Append(below, f), meant' = Append(rows, set), failed' = failed
  PROVE  IInv'
<1>1. headers' \in 1 .. MaxDepth /\ headers' - 1 = headers /\ headers \in Nat
  BY FiltersAssumption, FilterStackAssumption DEF IInv, TypeOK
<1>2. FiltersOf[headers] \subseteq FiltersOf[headers']
  BY <1>1, Depths
<1>3. below \in Seq(FiltersOf[headers'])
  BY <1>2, SeqMonotonic
<1>4. TypeOK'
  <2>1. filters' \in Seq(FiltersOf[headers'])
    BY <1>3, AppendProperties
  <2>2. meant' \in Seq(SUBSET Rows)
    BY AppendProperties
  <2> QED BY <2>1, <2>2, FilterStackAssumption DEF IInv, TypeOK
<1>5. Len(below) = Len(rows) /\ Len(below) \in Nat
  <2>1. /\ DOMAIN below = 1 .. Len(below) /\ Len(below) \in Nat
        /\ DOMAIN rows = 1 .. Len(rows) /\ Len(rows) \in Nat
    OBVIOUS
  <2>2. ASSUME NEW m \in Nat, NEW n \in Nat, 1 .. m = 1 .. n PROVE m = n
    <3>1. (m = 0 \/ m \in 1 .. n) /\ (n = 0 \/ n \in 1 .. m)
      BY <2>2
    <3> QED BY <3>1
  <2> QED BY <2>1, <2>2
<1>6. /\ DOMAIN filters' = 1 .. Len(below) + 1 /\ DOMAIN meant' = 1 .. Len(below) + 1
      /\ \A i \in 1 .. Len(below) : filters'[i] = below[i] /\ meant'[i] = rows[i]
      /\ filters'[Len(below) + 1] = f /\ meant'[Len(below) + 1] = set
  BY <1>3, <1>5
<1>7. \A i \in 1 .. Len(below) + 1 : Selected(filters'[i]) = meant'[i]
  BY <1>5, <1>6
<1>8. Meant'
  BY <1>6, <1>7 DEF Meant, Selected
<1> QED BY <1>4, <1>8 DEF IInv

\* The invariant holds at first, and every header keeps it.
LEMMA InitHolds == Init => IInv
<1> SUFFICES ASSUME Init PROVE IInv
  OBVIOUS
<1>1. /\ filters = <<>> /\ meant = <<>> /\ failed = FALSE /\ headers = 0
  BY DEF Init
<1>2. 0 \in 0 .. MaxHeaders
  BY FilterStackAssumption
<1>3. \A S : <<>> \in Seq(S)
  OBVIOUS
<1>4. \A i : i \notin DOMAIN <<>>
  OBVIOUS
<1> QED BY <1>1, <1>2, <1>3, <1>4 DEF IInv, TypeOK, Meant

\* Every header keeps the invariant.
LEMMA StepHolds == IInv /\ [Next]_vars => IInv'
<1> SUFFICES ASSUME IInv, [Next]_vars PROVE IInv'
  OBVIOUS
<1>1. CASE UNCHANGED vars
  BY <1>1 DEF vars, IInv, TypeOK, Meant, Selected
<1>2. ASSUME ReadHeader
      PROVE  /\ headers' = headers + 1 /\ headers' \in 1 .. MaxHeaders /\ headers \in 0 .. MaxHeaders
             /\ headers' \in 1 .. MaxDepth /\ headers' - 1 = headers
             /\ headers' \in 0 .. MaxDepth /\ headers \in 0 .. MaxDepth
  BY <1>2, FilterStackAssumption, FiltersAssumption DEF ReadHeader, IInv, TypeOK
<1>3. ASSUME NEW f \in Leaves, FilterLine(f) PROVE IInv'
  <2>1. ReadHeader
    BY <1>3 DEF FilterLine
  <2>2. f \in ColumnFilters /\ f \in FiltersOf[headers']
    BY <1>2, <2>1, Depths, FilterStackAssumption
  <2>3. Selected(f) = {row \in Rows : ColumnAccepts(f, row)}
    BY <2>2, AcceptsEquations DEF Selected
  <2> DEFINE set == {row \in Rows : ColumnAccepts(f, row)}
  <2>4. /\ filters' = Append(filters, f) /\ meant' = Append(meant, set) /\ failed' = failed
    BY <1>3 DEF FilterLine
  <2>5. /\ filters \in Seq(FiltersOf[headers]) /\ meant \in Seq(SUBSET Rows)
        /\ DOMAIN filters = DOMAIN meant
        /\ \A i \in DOMAIN filters : Selected(filters[i]) = meant[i]
    BY DEF IInv, TypeOK, Meant
  <2>6. set \in SUBSET Rows
    OBVIOUS
  <2> HIDE DEF set
  <2> QED BY <1>2, <2>1, <2>2, <2>3, <2>4, <2>5, <2>6, MeantPushed DEF set
<1>4. ASSUME NEW n \in 0 .. MaxStack + 1, NEW filter, NEW rows, Combine(n, filter, rows),
             n <= Len(filters) => /\ filter \in FiltersOf[headers'] /\ rows \in SUBSET Rows
                                  /\ Selected(filter) = rows
      PROVE  IInv'
  <2>1. ReadHeader
    BY <1>4 DEF Combine
  <2>2. CASE n <= Len(filters)
    <3>1. n \in 0 .. Len(filters)
      BY <2>2, FilterStackAssumption DEF IInv, TypeOK
    <3>2. /\ filters' = Append(Below(filters, n), filter)
          /\ meant' = Append(Below(meant, n), rows) /\ failed' = failed
      BY <1>4, <2>2 DEF Combine
    <3>3. /\ Below(filters, n) \in Seq(FiltersOf[headers]) /\ Below(meant, n) \in Seq(SUBSET Rows)
          /\ DOMAIN Below(filters, n) = DOMAIN Below(meant, n)
          /\ \A i \in DOMAIN Below(filters, n) :
                Selected(Below(filters, n)[i]) = Below(meant, n)[i]
      BY <3>1, MeantTakenOff
    <3> QED BY <1>2, <1>4, <2>1, <2>2, <3>2, <3>3, MeantPushed
  <2>3. CASE ~(n <= Len(filters))
    <3>1. filters' = <<>> /\ meant' = <<>> /\ failed' = TRUE
      BY <1>4, <2>3 DEF Combine
    <3>2. \A S : <<>> \in Seq(S)
      OBVIOUS
    <3>3. \A i : i \notin DOMAIN <<>>
      OBVIOUS
    <3> QED BY <1>2, <2>1, <3>1, <3>2, <3>3 DEF IInv, TypeOK, Meant
  <2> QED BY <2>2, <2>3
<1>5. ASSUME NEW n \in 0 .. MaxStack + 1, n <= Len(filters), ReadHeader
      PROVE  /\ AndingMake(Top(filters, n)) \in FiltersOf[headers']
             /\ OringMake(Top(filters, n)) \in FiltersOf[headers']
             /\ Selected(AndingMake(Top(filters, n))) = AllOf(Range(Top(meant, n)))
             /\ Selected(OringMake(Top(filters, n))) = UNION Range(Top(meant, n))
             /\ AllOf(Range(Top(meant, n))) \in SUBSET Rows
             /\ UNION Range(Top(meant, n)) \in SUBSET Rows
  <2>1. n \in 0 .. Len(filters)
    BY <1>5, FilterStackAssumption DEF IInv, TypeOK
  <2>2. /\ Top(filters, n) \in Seq(FiltersOf[headers' - 1]) /\ Top(meant, n) \in Seq(SUBSET Rows)
        /\ DOMAIN Top(filters, n) = DOMAIN Top(meant, n)
        /\ \A i \in DOMAIN Top(filters, n) : Selected(Top(filters, n)[i]) = Top(meant, n)[i]
    BY <1>2, <1>5, <2>1, MeantTakenOff
  <2>3. AllOf(Range(Top(meant, n))) \in SUBSET Rows
    BY DEF AllOf
  <2>4. UNION Range(Top(meant, n)) \in SUBSET Rows
    BY <2>2 DEF Range
  <2> QED BY <1>2, <1>5, <2>2, <2>3, <2>4, MakesSelect
<1>6. ASSUME NEW n \in 0 .. MaxStack + 1, AndLine(n) PROVE IInv'
  <2>1. ReadHeader
    BY <1>6 DEF AndLine, Combine
  <2> QED BY <1>4, <1>5, <1>6, <2>1 DEF AndLine
<1>7. ASSUME NEW n \in 0 .. MaxStack + 1, OrLine(n) PROVE IInv'
  <2>1. ReadHeader
    BY <1>7 DEF OrLine, Combine
  <2> QED BY <1>4, <1>5, <1>7, <2>1 DEF OrLine
<1>8. ASSUME NegateLine PROVE IInv'
  <2>1. ReadHeader
    BY <1>8 DEF NegateLine
  <2>2. CASE filters = <<>>
    <3>1. failed' = TRUE /\ filters' = filters /\ meant' = meant
      BY <1>8, <2>2 DEF NegateLine
    <3>2. FiltersOf[headers] \subseteq FiltersOf[headers']
      BY <1>2, <2>1, Depths
    <3>3. filters \in Seq(FiltersOf[headers'])
      BY <3>2, SeqMonotonic DEF IInv, TypeOK
    <3> QED BY <1>2, <2>1, <3>1, <3>3 DEF IInv, TypeOK, Meant, Selected
  <2>3. CASE filters # <<>>
    <3>1. filters \in Seq(FiltersOf[headers]) /\ Len(filters) \in Nat /\ Len(filters) # 0
      BY <2>3 DEF IInv, TypeOK
    <3>2. 1 \in 0 .. Len(filters) /\ Len(meant) = Len(filters)
      BY <3>1, MeantTakenOff
    <3>3. /\ Below(filters, 1) \in Seq(FiltersOf[headers]) /\ Below(meant, 1) \in Seq(SUBSET Rows)
          /\ DOMAIN Below(filters, 1) = DOMAIN Below(meant, 1)
          /\ \A i \in DOMAIN Below(filters, 1) :
                Selected(Below(filters, 1)[i]) = Below(meant, 1)[i]
      BY <3>2, MeantTakenOff
    <3>4. Front(filters) = Below(filters, 1) /\ Front(meant) = Below(meant, 1)
      BY DEF Front, Below
    <3>5. /\ Last(filters) \in FiltersOf[headers] /\ Last(meant) \in SUBSET Rows
          /\ Selected(Last(filters)) = Last(meant)
      <4>1. Len(filters) \in DOMAIN filters
        BY <3>1
      <4>2. filters[Len(filters)] \in FiltersOf[headers]
        BY <3>1
      <4>3. Selected(filters[Len(filters)]) = meant[Len(filters)]
        BY <4>1 DEF IInv, Meant
      <4>4. meant[Len(filters)] \in SUBSET Rows
        BY <4>3 DEF Selected
      <4> QED BY <3>2, <4>2, <4>3, <4>4 DEF Last
    <3>6. Negate(Last(filters)) \in FiltersOf[headers]
      BY <1>2, <2>1, <3>5, Negates
    <3>7. Selected(Negate(Last(filters))) = Rows \ Last(meant)
      <4>1. \A row \in Rows : Accepts(Negate(Last(filters)), row) <=> ~Accepts(Last(filters), row)
        BY <1>2, <2>1, <3>5, Negates, FiltersAssumption
      <4> QED BY <3>5, <4>1 DEF Selected
    <3>8. Negate(Last(filters)) \in FiltersOf[headers']
      BY <1>2, <2>1, <3>6, Depths
    <3>9. /\ filters' = Append(Below(filters, 1), Negate(Last(filters)))
          /\ meant' = Append(Below(meant, 1), Rows \ Last(meant)) /\ failed' = failed
      BY <1>8, <2>3, <3>4 DEF NegateLine
    <3>10. Rows \ Last(meant) \in SUBSET Rows
      OBVIOUS
    <3> QED BY <1>2, <2>1, <3>3, <3>7, <3>8, <3>9, <3>10, MeantPushed
  <2> QED BY <2>2, <2>3
<1> QED BY <1>1, <1>3, <1>6, <1>7, <1>8 DEF Next

\* The filter of the query selects the rows that all filters on the stack select.
LEMMA FilterSelects ==
  ASSUME IInv
  PROVE  /\ Filter \in FiltersOf[headers + 1] /\ headers + 1 \in 1 .. MaxDepth
         /\ headers + 1 < MaxDepth /\ Filter \in AllFilters
         /\ Selected(Filter) = AllOf(Range(meant))
<1>1. headers + 1 \in 1 .. MaxDepth /\ headers + 1 - 1 = headers /\ headers + 1 < MaxDepth
  BY FilterStackAssumption, FiltersAssumption DEF IInv, TypeOK
<1>2. /\ filters \in Seq(FiltersOf[headers]) /\ meant \in Seq(SUBSET Rows)
      /\ DOMAIN meant = DOMAIN filters
      /\ \A i \in DOMAIN filters : Selected(filters[i]) = meant[i]
  BY DEF IInv, TypeOK, Meant
<1>3. Filter \in FiltersOf[headers + 1] /\ Selected(Filter) = AllOf(Range(meant))
  <2>0. headers \in Nat
    BY FilterStackAssumption DEF IInv, TypeOK
  <2>1. PICK d \in 1 .. MaxDepth : d = headers + 1 /\ d - 1 = headers
    BY <1>1, <2>0
  <2>2. filters \in Seq(FiltersOf[d - 1])
    BY <1>2, <2>1
  <2> QED BY <1>2, <2>1, <2>2, MakesSelect DEF Filter
<1> QED BY <1>1, <1>3, Depths

\* The stack holds filters, as deep at most as headers have been read, and a set
\* of rows for each.
THEOREM StackTypeCorrect == Spec => []TypeOK
<1>1. IInv => TypeOK
  BY DEF IInv
<1> QED BY <1>1, InitHolds, StepHolds, PTL DEF Spec

\* Through Filter, And, Or and Negate headers in whatever order, every filter
\* on the stack, and the filter of the query, selects exactly the rows that its
\* headers mean: flattening, the shortcuts of AndingFilter::make and
\* OringFilter::make, and negation down to the columns change no answer.
THEOREM QuerySelectsWhatWasMeant == Spec => []SelectsWhatWasMeant
<1>1. IInv => SelectsWhatWasMeant
  BY FilterSelects DEF IInv, Meant, SelectsWhatWasMeant
<1> QED BY <1>1, InitHolds, StepHolds, PTL DEF Spec

\* The partial filter of a query looks only at the columns that it is made for,
\* and accepts every row that the query selects.
THEOREM PartialFilterNeverExcludes == Spec => []PartialFilterIsWeaker
<1>1. IInv => PartialFilterIsWeaker
  <2> SUFFICES ASSUME IInv, NEW cols \in SUBSET Columns, NEW row \in Selected(Filter),
                      NEW other \in Rows, \A c \in cols : row[c] = other[c]
               PROVE  Accepts(PartialFilter(Filter, cols), other)
    BY DEF PartialFilterIsWeaker
  <2>1. Filter \in FiltersOf[headers + 1] /\ headers + 1 \in 0 .. MaxDepth /\ headers + 1 < MaxDepth
    BY FilterSelects, FiltersAssumption
  <2>2. Accepts(Filter, row)
    BY DEF Selected
  <2> QED BY <2>1, <2>2, PartialAccepts
<1> QED BY <1>1, InitHolds, StepHolds, PTL DEF Spec

\* What the filter of a query restricts a column to, the rows it selects have:
\* looking only into that host group or service group loses none.
THEOREM RestrictionLosesNoRow == Spec => []StringRestrictionSound
<1>1. IInv => StringRestrictionSound
  <2> SUFFICES ASSUME IInv, NEW row \in Selected(Filter)
               PROVE  /\ \A col \in ColumnsOf("string") :
                            \A v \in StringValueRestrictionFor(Filter, col) : row[col] = v
                      /\ \A col \in ColumnsOf("list") :
                            \A v \in StringValueRestrictionFor(Filter, col) : v \in row[col]
    BY DEF StringRestrictionSound
  <2>1. Filter \in AllFilters /\ Accepts(Filter, row)
    BY FilterSelects DEF Selected
  <2> QED BY <2>1, RestrictionsHold DEF ColumnsOf
<1> QED BY <1>1, InitHolds, StepHolds, PTL DEF Spec

\* The times and classes that a log query looks at contain every row it selects,
\* if its disjunctions are even and no reference time wraps around with the
\* offset of the time zone.
THEOREM BoundsLoseNoRow ==
  ASSUME RefsFit
  PROVE  Spec => []EvenBoundsSound
<1>1. IInv => EvenBoundsSound
  <2> SUFFICES ASSUME IInv, EvenOrs(Filter), NEW row \in Selected(Filter)
               PROVE  WithinBounds(Filter, row)
    BY DEF EvenBoundsSound, SoundFor, WithinBounds
  <2>1. Filter \in AllFilters /\ Accepts(Filter, row) /\ row \in Rows
    BY FilterSelects DEF Selected
  <2>2. IsLogRow(row)
    BY <2>1, FiltersAssumption, FilterStackAssumption DEF IsLogRow
  <2> QED BY <2>1, <2>2, BoundsHold
<1> QED BY <1>1, InitHolds, StepHolds, PTL DEF Spec

------------------------------------------------------------------------------
(* Sequences *)

\* A set of sequences with the empty one and all that its members can be
\* continued to has all of them.
LEMMA AllSequences ==
  ASSUME NEW T, NEW P \in SUBSET Seq(T), <<>> \in P,
         \A s \in P : \A x \in T : Append(s, x) \in P
  PROVE  P = Seq(T)
<1> DEFINE N == {n \in Nat : \A s \in Seq(T) : Len(s) = n => s \in P}
<1>1. 0 \in N
  BY EmptySeq
<1>2. ASSUME NEW n \in N PROVE n + 1 \in N
  <2> SUFFICES ASSUME NEW s \in Seq(T), Len(s) = n + 1 PROVE s \in P
    OBVIOUS
  <2>1. n \in Nat /\ s # <<>>
    OBVIOUS
  <2>2. PICK t \in Seq(T), x \in T : s = Append(t, x)
    BY <2>1, SequenceEmptyOrAppend
  <2>3. Len(t) = n
    BY <2>1, <2>2
  <2> QED BY <2>2, <2>3
<1> HIDE DEF N
<1>3. N \subseteq Nat
  BY DEF N
<1>4. N = Nat
  BY <1>1, <1>2, <1>3, AllNumbers
<1>5. \A s \in Seq(T) : Len(s) \in Nat
  OBVIOUS
<1> QED BY <1>4, <1>5 DEF N

\* To flatten one sequence more is to put it at the end.
LEMMA FlattenAppend ==
  ASSUME NEW S, NEW ss \in Seq(Seq(S)), NEW s \in Seq(S)
  PROVE  FlattenSeq(Append(ss, s)) = FlattenSeq(ss) \o s
<1> DEFINE tt == Append(ss, s)
           n == Len(ss)
<1>1. /\ tt \in Seq(Seq(S)) /\ n \in Nat /\ Len(tt) = n + 1 /\ tt[n + 1] = s
      /\ \A i \in 1 .. n : tt[i] = ss[i]
  OBVIOUS
<1> HIDE DEF tt
<1>2. PICK h \in [1 .. Len(tt) -> Seq(S)] : Flattened(h, tt, Len(tt))
  BY <1>1, FlattenedExists
<1>3. FlattenSeq(tt) = h[n + 1]
  BY <1>1, <1>2, FlattenSeqIs
<1>4. \A i \in 1 .. n + 1 : h[i] = IF i = 1 THEN tt[i] ELSE h[i - 1] \o tt[i]
  BY <1>1, <1>2 DEF Flattened
<1>5. CASE n = 0
  <2>1. h[1] = s /\ FlattenSeq(ss) = <<>>
    BY <1>1, <1>4, <1>5 DEF FlattenSeq
  <2> QED BY <1>3, <1>5, <2>1, ConcatEmptySeq DEF tt
<1>6. CASE n > 0
  <2>1. Flattened(h, ss, n)
    <3>1. \A i \in 1 .. n : i \in 1 .. n + 1 /\ tt[i] = ss[i]
      BY <1>1
    <3>2. \A i \in 1 .. n : h[i] = IF i = 1 THEN ss[i] ELSE h[i - 1] \o ss[i]
      BY <1>4, <3>1
    <3> QED BY <3>2 DEF Flattened
  <2>2. FlattenSeq(ss) = h[n]
    BY <1>6, <2>1, FlattenSeqIs
  <2>3. PICK k \in 1 .. n + 1 : k = n + 1 /\ k # 1 /\ k - 1 = n
    BY <1>1, <1>6
  <2>4. h[k] = h[k - 1] \o tt[k]
    BY <1>4, <2>3
  <2>5. h[n + 1] = h[n] \o s
    BY <1>1, <2>3, <2>4
  <2> QED BY <1>3, <2>2, <2>5 DEF tt
<1> QED BY <1>1, <1>5, <1>6

\* Parts can be flattened one by one.
LEMMA FlattenConcat ==
  ASSUME NEW S, NEW ss \in Seq(Seq(S)), NEW tt \in Seq(Seq(S))
  PROVE  FlattenSeq(ss \o tt) = FlattenSeq(ss) \o FlattenSeq(tt)
<1> DEFINE P == {u \in Seq(Seq(S)) : FlattenSeq(ss \o u) = FlattenSeq(ss) \o FlattenSeq(u)}
<1>0. \A u \in Seq(Seq(S)) : FlattenSeq(u) \in Seq(S)
  BY Flattens
<1>1. <<>> \in P
  <2>1. <<>> \in Seq(Seq(S)) /\ ss \o <<>> = ss /\ FlattenSeq(<<>>) = <<>>
    BY EmptySeq, ConcatEmptySeq DEF FlattenSeq
  <2>2. FlattenSeq(ss) \o <<>> = FlattenSeq(ss)
    BY <1>0, ConcatEmptySeq
  <2> QED BY <2>1, <2>2
<1>2. ASSUME NEW u \in P, NEW s \in Seq(S) PROVE Append(u, s) \in P
  <2>1. u \in Seq(Seq(S)) /\ FlattenSeq(ss \o u) = FlattenSeq(ss) \o FlattenSeq(u)
    OBVIOUS
  <2> HIDE DEF P
  <2>2. ss \o Append(u, s) = Append(ss \o u, s) /\ ss \o u \in Seq(Seq(S)) /\ Append(u, s) \in Seq(Seq(S))
    BY <2>1
  <2>3. FlattenSeq(Append(ss \o u, s)) = FlattenSeq(ss \o u) \o s
    BY <2>2, FlattenAppend
  <2>4. FlattenSeq(Append(u, s)) = FlattenSeq(u) \o s
    BY <2>1, FlattenAppend
  <2>5. (FlattenSeq(ss) \o FlattenSeq(u)) \o s = FlattenSeq(ss) \o (FlattenSeq(u) \o s)
    <3>1. FlattenSeq(ss) \in Seq(S) /\ FlattenSeq(u) \in Seq(S)
      BY <1>0, <2>1
    <3>2. \A a, b, c \in Seq(S) : (a \o b) \o c = a \o (b \o c)
      BY ConcatAssociative
    <3> QED BY <3>1, <3>2, Zenon
  <2> QED BY <2>1, <2>2, <2>3, <2>4, <2>5 DEF P
<1> HIDE DEF P
<1>3. P \subseteq Seq(Seq(S))
  BY DEF P
<1>4. P = Seq(Seq(S))
  BY <1>1, <1>2, <1>3, AllSequences
<1> QED BY <1>4 DEF P

\* The elements of two sequences one after the other are those of both.
LEMMA RangeConcat ==
  ASSUME NEW T, NEW s \in Seq(T), NEW t \in Seq(T)
  PROVE  Range(s \o t) = Range(s) \cup Range(t)
<1>1. Range(s \o t) \subseteq Range(s) \cup Range(t)
  BY ConcatProperties DEF Range
<1>2. ASSUME NEW x \in Range(s) PROVE x \in Range(s \o t)
  <2>1. PICK i \in DOMAIN s : x = s[i]
    BY DEF Range
  <2>2. i \in DOMAIN (s \o t) /\ (s \o t)[i] = x
    BY <2>1
  <2> QED BY <2>2 DEF Range
<1>3. ASSUME NEW x \in Range(t) PROVE x \in Range(s \o t)
  <2>1. PICK i \in DOMAIN t : x = t[i]
    BY DEF Range
  <2>2. PICK k \in DOMAIN (s \o t) : k = Len(s) + i
    OBVIOUS
  <2>3. (s \o t)[k] = t[i]
    BY <2>2
  <2> QED BY <2>1, <2>3 DEF Range
<1> QED BY <1>1, <1>2, <1>3

\* What is left of one element.
Bit(x, S) == IF x \in S THEN <<x>> ELSE <<>>

\* Those of a sequence are a sequence of the same kind, bit by bit.
LEMMA ThoseInSeq ==
  ASSUME NEW T, NEW S, NEW s \in Seq(T)
  PROVE  /\ [i \in DOMAIN s |-> Bit(s[i], S)] \in Seq(Seq(T))
         /\ Those(s, S) = FlattenSeq([i \in DOMAIN s |-> Bit(s[i], S)])
         /\ Those(s, S) \in Seq(T)
<1> DEFINE bits == [i \in DOMAIN s |-> Bit(s[i], S)]
<1>1. \A x \in T : Bit(x, S) \in Seq(T)
  BY DEF Bit
<1>2. Len(s) \in Nat /\ DOMAIN s = 1 .. Len(s) /\ \A i \in 1 .. Len(s) : s[i] \in T
  OBVIOUS
<1>3. \A i \in 1 .. Len(s) : Bit(s[i], S) \in Seq(T)
  BY <1>1, <1>2
<1>4. bits \in Seq(Seq(T))
  BY <1>2, <1>3
<1>5. Those(s, S) = FlattenSeq(bits)
  BY DEF Those, Bit
<1> HIDE DEF bits
<1>6. FlattenSeq(bits) \in Seq(T)
  BY <1>4, Flattens
<1> QED BY <1>4, <1>5, <1>6 DEF bits

\* Those, one element after the other.
LEMMA ThoseAppend ==
  ASSUME NEW T, NEW S, NEW s \in Seq(T), NEW x \in T
  PROVE  Those(Append(s, x), S) = Those(s, S) \o Bit(x, S)
<1> DEFINE bits == [i \in DOMAIN s |-> Bit(s[i], S)]
           longer == [i \in DOMAIN Append(s, x) |-> Bit(Append(s, x)[i], S)]
<1>1. Append(s, x) \in Seq(T)
  OBVIOUS
<1>2. bits \in Seq(Seq(T)) /\ Those(s, S) = FlattenSeq(bits)
  BY ThoseInSeq
<1>3. longer = Append(bits, Bit(x, S))
  OBVIOUS
<1>4. Those(Append(s, x), S) = FlattenSeq(longer)
  BY <1>1, ThoseInSeq
<1>5. Bit(x, S) \in Seq(T)
  BY DEF Bit
<1> HIDE DEF bits, longer
<1> QED BY <1>2, <1>3, <1>4, <1>5, FlattenAppend

\* Of nothing there is nothing left.
LEMMA ThoseOfNothing ==
  ASSUME NEW S PROVE Those(<<>>, S) = <<>>
<1>1. [i \in DOMAIN <<>> |-> Bit(<<>>[i], S)] = <<>>
  OBVIOUS
<1> QED BY <1>1 DEF Those, Bit, FlattenSeq

\* Those that are in S, of two sequences one after the other.
LEMMA ThoseConcat ==
  ASSUME NEW T, NEW S, NEW s \in Seq(T), NEW t \in Seq(T)
  PROVE  Those(s \o t, S) = Those(s, S) \o Those(t, S)
<1> DEFINE P == {u \in Seq(T) : Those(s \o u, S) = Those(s, S) \o Those(u, S)}
<1>0. \A u \in Seq(T) : Those(u, S) \in Seq(T)
  BY ThoseInSeq
<1>1. <<>> \in P
  <2>1. <<>> \in Seq(T) /\ s \o <<>> = s /\ Those(<<>>, S) = <<>>
    BY EmptySeq, ConcatEmptySeq, ThoseOfNothing
  <2> QED BY <1>0, <2>1, ConcatEmptySeq
<1>2. ASSUME NEW u \in P, NEW x \in T PROVE Append(u, x) \in P
  <2>1. u \in Seq(T) /\ Those(s \o u, S) = Those(s, S) \o Those(u, S)
    OBVIOUS
  <2> HIDE DEF P
  <2>2. s \o Append(u, x) = Append(s \o u, x) /\ s \o u \in Seq(T) /\ Append(u, x) \in Seq(T)
    BY <2>1
  <2>3. Bit(x, S) \in Seq(T)
    BY DEF Bit
  <2>4. Those(Append(s \o u, x), S) = Those(s \o u, S) \o Bit(x, S)
    BY <2>2, ThoseAppend
  <2>5. Those(Append(u, x), S) = Those(u, S) \o Bit(x, S)
    BY <2>1, ThoseAppend
  <2>6. (Those(s, S) \o Those(u, S)) \o Bit(x, S) = Those(s, S) \o (Those(u, S) \o Bit(x, S))
    BY <1>0, <2>1, <2>3, ConcatAssociative
  <2> QED BY <2>1, <2>2, <2>4, <2>5, <2>6 DEF P
<1> HIDE DEF P
<1>3. P \subseteq Seq(T)
  BY DEF P
<1>4. P = Seq(T)
  BY <1>1, <1>2, <1>3, AllSequences
<1> QED BY <1>4 DEF P

\* Only membership of the elements of s matters.
LEMMA ThoseAgree ==
  ASSUME NEW s, NEW A, NEW B, \A x \in Range(s) : x \in A <=> x \in B
  PROVE  Those(s, A) = Those(s, B)
<1>1. \A i \in DOMAIN s : s[i] \in A <=> s[i] \in B
  BY DEF Range
<1> QED BY <1>1 DEF Those

\* The elements left are those in the set.
LEMMA ThoseRange ==
  ASSUME NEW T, NEW S, NEW s \in Seq(T)
  PROVE  Range(Those(s, S)) = Range(s) \cap S
<1> DEFINE bits == [i \in DOMAIN s |-> Bit(s[i], S)]
<1>1. bits \in Seq(Seq(T)) /\ Those(s, S) = FlattenSeq(bits)
  BY ThoseInSeq
<1>2. DOMAIN bits = DOMAIN s
  OBVIOUS
<1>3. \A i \in DOMAIN s : Range(bits[i]) = {s[i]} \cap S
  BY DEF Range, Bit
<1> HIDE DEF bits
<1>5. \A x : x \in Range(Those(s, S)) <=> \E i \in DOMAIN s : x \in Range(bits[i])
  BY <1>1, <1>2, Flattens
<1>6. \A x : x \in Range(s) <=> \E i \in DOMAIN s : x = s[i]
  BY DEF Range
<1> QED BY <1>3, <1>5, <1>6

\* All are left if all are in the set, and none if none is.
LEMMA ThoseAllOrNone ==
  ASSUME NEW T, NEW s \in Seq(T), NEW S
  PROVE  /\ Range(s) \subseteq S => Those(s, S) = s
         /\ Range(s) \cap S = {} => Those(s, S) = <<>>
<1> DEFINE P == {u \in Seq(T) : Those(u, T) = u /\ Those(u, {}) = <<>>}
<1>1. <<>> \in P
  BY EmptySeq, ThoseOfNothing
<1>2. ASSUME NEW u \in P, NEW x \in T PROVE Append(u, x) \in P
  <2>1. u \in Seq(T) /\ Those(u, T) = u /\ Those(u, {}) = <<>>
    OBVIOUS
  <2> HIDE DEF P
  <2>2. Those(Append(u, x), T) = Those(u, T) \o Bit(x, T)
    BY <2>1, ThoseAppend
  <2>3. Those(Append(u, x), {}) = Those(u, {}) \o Bit(x, {})
    BY <2>1, ThoseAppend
  <2>4. Append(u, x) = u \o <<x>>
    BY <2>1
  <2>5. Bit(x, T) = <<x>> /\ Bit(x, {}) = <<>> /\ Append(u, x) \in Seq(T)
    BY <2>1 DEF Bit
  <2>6. Those(Append(u, x), T) = Append(u, x)
    BY <2>1, <2>2, <2>4, <2>5
  <2>7. <<>> \o <<>> = <<>>
    OBVIOUS
  <2>8. Those(Append(u, x), {}) = <<>>
    BY <2>1, <2>3, <2>5, <2>7
  <2> QED BY <2>5, <2>6, <2>8 DEF P
<1> HIDE DEF P
<1>3. P \subseteq Seq(T)
  BY DEF P
<1>4. P = Seq(T)
  BY <1>1, <1>2, <1>3, AllSequences
<1>5. Those(s, T) = s /\ Those(s, {}) = <<>>
  BY <1>4 DEF P
<1>6. Range(s) \subseteq T
  BY DEF Range
<1>7. Range(s) \subseteq S => Those(s, S) = Those(s, T)
  <2> SUFFICES ASSUME Range(s) \subseteq S PROVE Those(s, S) = Those(s, T)
    OBVIOUS
  <2> QED BY <1>6, ThoseAgree
<1>8. Range(s) \cap S = {} => Those(s, S) = Those(s, {})
  <2> SUFFICES ASSUME Range(s) \cap S = {} PROVE Those(s, S) = Those(s, {})
    OBVIOUS
  <2>1. \A x \in Range(s) : x \in S <=> x \in {}
    OBVIOUS
  <2> QED BY <2>1, ThoseAgree
<1> QED BY <1>5, <1>7, <1>8

\* Those of those are those in both sets.
LEMMA ThoseOfThose ==
  ASSUME NEW T, NEW s \in Seq(T), NEW A, NEW B
  PROVE  Those(Those(s, A), B) = Those(s, A \cap B)
<1> DEFINE P == {u \in Seq(T) : Those(Those(u, A), B) = Those(u, A \cap B)}
<1>1. <<>> \in P
  BY EmptySeq, ThoseOfNothing
<1>2. ASSUME NEW u \in P, NEW x \in T PROVE Append(u, x) \in P
  <2>1. u \in Seq(T) /\ Those(Those(u, A), B) = Those(u, A \cap B)
    OBVIOUS
  <2> HIDE DEF P
  <2>2. \A S : Bit(x, S) \in Seq(T)
    BY DEF Bit
  <2>3. \A S : Those(u, S) \in Seq(T)
    BY <2>1, ThoseInSeq
  <2>4. \A S : Those(Append(u, x), S) = Those(u, S) \o Bit(x, S)
    BY <2>1, ThoseAppend
  <2>5. Those(Those(u, A) \o Bit(x, A), B) = Those(Those(u, A), B) \o Those(Bit(x, A), B)
    BY <2>2, <2>3, ThoseConcat
  <2>6. Those(Bit(x, A), B) = Bit(x, A \cap B)
    <3>1. <<x>> \in Seq(T) /\ <<>> \in Seq(T) /\ Range(<<x>>) = {x}
      BY DEF Range
    <3>2. x \in B => Those(<<x>>, B) = <<x>>
      <4> SUFFICES ASSUME x \in B PROVE Those(<<x>>, B) = <<x>>
        OBVIOUS
      <4>1. Range(<<x>>) \subseteq B
        BY <3>1
      <4> QED BY <3>1, <4>1, ThoseAllOrNone
    <3>3. x \notin B => Those(<<x>>, B) = <<>>
      <4> SUFFICES ASSUME x \notin B PROVE Those(<<x>>, B) = <<>>
        OBVIOUS
      <4>1. Range(<<x>>) \cap B = {}
        BY <3>1
      <4> QED BY <3>1, <4>1, ThoseAllOrNone
    <3>4. Those(<<>>, B) = <<>>
      BY ThoseOfNothing
    <3> QED BY <3>2, <3>3, <3>4 DEF Bit
  <2>7. Append(u, x) \in Seq(T)
    BY <2>1
  <2> QED BY <2>1, <2>4, <2>5, <2>6, <2>7 DEF P
<1> HIDE DEF P
<1>3. P \subseteq Seq(T)
  BY DEF P
<1>4. P = Seq(T)
  BY <1>1, <1>2, <1>3, AllSequences
<1> QED BY <1>4 DEF P

------------------------------------------------------------------------------
(* Reversed sequences and sequences in the order of time *)

\* A reversed sequence has the same elements from the other end.
LEMMA Reverses ==
  ASSUME NEW T, NEW s \in Seq(T)
  PROVE  /\ Reverse(s) \in Seq(T) /\ Len(Reverse(s)) = Len(s)
         /\ \A i, j \in 1 .. Len(s) : i + j = Len(s) + 1 => Reverse(s)[i] = s[j]
         /\ Range(Reverse(s)) = Range(s)
<1>1. Len(s) \in Nat /\ DOMAIN s = 1 .. Len(s) /\ \A i \in 1 .. Len(s) : s[i] \in T
  OBVIOUS
<1>2. \A i \in 1 .. Len(s) : Len(s) - i + 1 \in 1 .. Len(s)
  BY <1>1
<1>3. Reverse(s) = [i \in 1 .. Len(s) |-> s[Len(s) - i + 1]]
  BY DEF Reverse
<1>4. \A i \in 1 .. Len(s) : s[Len(s) - i + 1] \in T
  BY <1>1, <1>2
<1>5. Reverse(s) \in Seq(T) /\ Len(Reverse(s)) = Len(s) /\ DOMAIN Reverse(s) = 1 .. Len(s)
  BY <1>1, <1>3, <1>4
<1>6. \A i \in 1 .. Len(s) : Reverse(s)[i] = s[Len(s) - i + 1]
  BY <1>3
<1>7. ASSUME NEW x PROVE x \in Range(Reverse(s)) <=> x \in Range(s)
  <2>1. ASSUME NEW i \in 1 .. Len(s), x = Reverse(s)[i] PROVE x \in Range(s)
    BY <1>1, <1>2, <1>6, <2>1 DEF Range
  <2>2. ASSUME NEW i \in 1 .. Len(s), x = s[i] PROVE x \in Range(Reverse(s))
    <3>1. Len(s) - (Len(s) - i + 1) + 1 = i
      BY <1>1
    <3>2. x = Reverse(s)[Len(s) - i + 1]
      BY <1>2, <1>6, <2>2, <3>1
    <3> QED BY <1>2, <1>5, <3>2 DEF Range
  <2>3. x \in Range(Reverse(s)) => \E i \in 1 .. Len(s) : x = Reverse(s)[i]
    BY <1>5 DEF Range
  <2>4. x \in Range(s) => \E i \in 1 .. Len(s) : x = s[i]
    BY <1>1 DEF Range
  <2> QED BY <2>1, <2>2, <2>3, <2>4
<1>8. \A i, j \in 1 .. Len(s) : i + j = Len(s) + 1 => j = Len(s) - i + 1
  BY <1>1
<1>9. \A i, j \in 1 .. Len(s) : i + j = Len(s) + 1 => Reverse(s)[i] = s[j]
  BY <1>6, <1>8
<1> QED BY <1>5, <1>7, <1>9

\* Two sequences are reversed by reversing each and the two.
LEMMA ReverseConcat ==
  ASSUME NEW T, NEW s \in Seq(T), NEW t \in Seq(T)
  PROVE  Reverse(s \o t) = Reverse(t) \o Reverse(s)
<1> DEFINE st == s \o t
           rs == Reverse(s)
           rt == Reverse(t)
           m == Len(s)
           n == Len(t)
<1>1. m \in Nat /\ n \in Nat
  OBVIOUS
<1>2. /\ st \in Seq(T) /\ Len(st) = m + n
      /\ \A i \in 1 .. m + n : st[i] = IF i <= m THEN s[i] ELSE t[i - m]
  BY ConcatProperties
<1>3. rs \in Seq(T) /\ Len(rs) = m /\ \A i, j \in 1 .. m : i + j = m + 1 => rs[i] = s[j]
  BY Reverses
<1>4. rt \in Seq(T) /\ Len(rt) = n /\ \A i, j \in 1 .. n : i + j = n + 1 => rt[i] = t[j]
  BY Reverses
<1> HIDE DEF st, rs, rt
<1>5. /\ Reverse(st) \in Seq(T) /\ Len(Reverse(st)) = Len(st)
      /\ \A i, j \in 1 .. Len(st) : i + j = Len(st) + 1 => Reverse(st)[i] = st[j]
  BY <1>2, Reverses
<1>6. /\ rt \o rs \in Seq(T) /\ Len(rt \o rs) = Len(rt) + Len(rs)
      /\ \A i \in 1 .. Len(rt) + Len(rs) :
            (rt \o rs)[i] = IF i <= Len(rt) THEN rt[i] ELSE rs[i - Len(rt)]
  <2>1. rt \in Seq(T)
    BY <1>4
  <2>2. rs \in Seq(T)
    BY <1>3
  <2> QED BY ONLY <2>1, <2>2, ConcatProperties
<1> HIDE DEF m, n
<1>7. n + m = m + n
  BY <1>1
<1>8. \A i, j \in 1 .. m + n : i + j = m + n + 1 => Reverse(st)[i] = st[j]
  BY <1>2, <1>5
<1>9. /\ rt \o rs \in Seq(T) /\ Len(rt \o rs) = m + n
      /\ \A i \in 1 .. m + n : (rt \o rs)[i] = IF i <= n THEN rt[i] ELSE rs[i - n]
  BY <1>3, <1>4, <1>6, <1>7
<1>10. ASSUME NEW i \in 1 .. m + n PROVE Reverse(st)[i] = (rt \o rs)[i]
  <2>1. PICK j \in 1 .. m + n : i + j = m + n + 1
    <3>1. m + n + 1 - i \in 1 .. m + n /\ i + (m + n + 1 - i) = m + n + 1
      BY <1>1
    <3> QED BY <3>1
  <2>2. Reverse(st)[i] = st[j]
    BY <1>8, <2>1
  <2>3. (rt \o rs)[i] = IF i <= n THEN rt[i] ELSE rs[i - n]
    BY <1>9
  <2>4. CASE i <= n
    <3>1. PICK k \in 1 .. n : k = j - m /\ i + k = n + 1 /\ i \in 1 .. n /\ ~(j <= m)
      BY <1>1, <2>1, <2>4
    <3> QED BY <1>2, <1>4, <2>2, <2>3, <2>4, <3>1
  <2>5. CASE ~(i <= n)
    <3>1. PICK k \in 1 .. m : k = i - n /\ k + j = m + 1 /\ j \in 1 .. m
      BY <1>1, <2>1, <2>5
    <3> QED BY <1>2, <1>3, <2>2, <2>3, <2>5, <3>1
  <2> QED BY <2>4, <2>5
<1>11. Reverse(st) = rt \o rs
  BY <1>2, <1>5, <1>9, <1>10, SeqEqual
<1> QED BY <1>11 DEF st, rs, rt

\* Those of a reversed sequence are those of the sequence, reversed.
LEMMA ThoseReverse ==
  ASSUME NEW T, NEW S, NEW s \in Seq(T)
  PROVE  Those(Reverse(s), S) = Reverse(Those(s, S))
<1> DEFINE P == {u \in Seq(T) : Those(Reverse(u), S) = Reverse(Those(u, S))}
<1>1. <<>> \in P
  <2>1. Reverse(<<>>) = <<>>
    BY DEF Reverse
  <2> QED BY <2>1, EmptySeq, ThoseOfNothing
<1>2. ASSUME NEW u \in P, NEW x \in T PROVE Append(u, x) \in P
  <2>1. u \in Seq(T) /\ Those(Reverse(u), S) = Reverse(Those(u, S))
    OBVIOUS
  <2> HIDE DEF P
  <2>2. /\ Append(u, x) = u \o <<x>> /\ <<x>> \in Seq(T) /\ Append(u, x) \in Seq(T)
        /\ Bit(x, S) \in Seq(T) /\ Those(u, S) \in Seq(T) /\ Reverse(u) \in Seq(T)
    <3>1. Append(u, x) = u \o <<x>> /\ <<x>> \in Seq(T) /\ Append(u, x) \in Seq(T)
      BY <2>1
    <3>2. Bit(x, S) \in Seq(T)
      BY DEF Bit
    <3>3. Those(u, S) \in Seq(T)
      BY <2>1, ThoseInSeq
    <3>4. Reverse(u) \in Seq(T)
      BY <2>1, Reverses
    <3> QED BY <3>1, <3>2, <3>3, <3>4
  <2>3. Reverse(<<x>>) = <<x>> /\ Reverse(Bit(x, S)) = Bit(x, S)
    BY DEF Bit, Reverse
  <2>4. Reverse(Append(u, x)) = <<x>> \o Reverse(u)
    BY <2>1, <2>2, <2>3, ReverseConcat
  <2>5. Those(<<x>> \o Reverse(u), S) = Those(<<x>>, S) \o Those(Reverse(u), S)
    BY <2>2, ThoseConcat
  <2>6. Those(<<x>>, S) = Bit(x, S)
    <3>1. <<>> \in Seq(T) /\ <<x>> = Append(<<>>, x)
      OBVIOUS
    <3>2. Those(Append(<<>>, x), S) = Those(<<>>, S) \o Bit(x, S)
      BY <3>1, ThoseAppend
    <3> QED BY <2>2, <3>1, <3>2, ThoseOfNothing, ConcatEmptySeq
  <2>7. Reverse(Those(u, S) \o Bit(x, S)) = Reverse(Bit(x, S)) \o Reverse(Those(u, S))
    BY <2>2, ReverseConcat
  <2>8. Those(Append(u, x), S) = Those(u, S) \o Bit(x, S)
    BY <2>1, ThoseAppend
  <2> QED BY <2>1, <2>2, <2>3, <2>4, <2>5, <2>6, <2>7, <2>8 DEF P
<1> HIDE DEF P
<1>3. P \subseteq Seq(T)
  BY DEF P
<1>4. P = Seq(T)
  BY <1>1, <1>2, <1>3, AllSequences
<1> QED BY <1>4 DEF P

Ordered(s) == \A i, j \in DOMAIN s : i < j => s[i].time <= s[j].time

\* Two sequences one after the other are ordered if each is and no element of the
\* first is later than one of the second.
LEMMA OrderedConcat ==
  ASSUME NEW T, NEW s \in Seq(T), NEW t \in Seq(T)
  PROVE  Ordered(s \o t) <=>
            /\ Ordered(s) /\ Ordered(t)
            /\ \A x \in Range(s), y \in Range(t) : x.time <= y.time
<1> DEFINE st == s \o t
           m == Len(s)
           n == Len(t)
<1>1. /\ m \in Nat /\ n \in Nat /\ DOMAIN s = 1 .. m /\ DOMAIN t = 1 .. n
      /\ Range(s) = {s[i] : i \in 1 .. m} /\ Range(t) = {t[i] : i \in 1 .. n}
  BY DEF Range
<1>2. /\ st \in Seq(T) /\ Len(st) = m + n
      /\ \A i \in 1 .. m + n : st[i] = IF i <= m THEN s[i] ELSE t[i - m]
  BY ConcatProperties
<1>3. DOMAIN st = 1 .. m + n
  BY <1>2, LenProperties
<1> HIDE DEF st, m, n
<1>4. \A i \in 1 .. m : i \in 1 .. m + n /\ st[i] = s[i]
  BY <1>1, <1>2
<1>5. \A i \in 1 .. n : m + i \in 1 .. m + n /\ st[m + i] = t[i]
  <2> TAKE i \in 1 .. n
  <2>1. PICK j \in 1 .. m + n : j = m + i /\ ~(j <= m) /\ j - m = i
    BY <1>1
  <2>2. st[j] = t[j - m]
    BY <1>2, <2>1
  <2> QED BY <2>1, <2>2
<1>6. ASSUME Ordered(st)
      PROVE  Ordered(s) /\ Ordered(t) /\ \A x \in Range(s), y \in Range(t) : x.time <= y.time
  <2>1. \A i, j \in 1 .. m + n : i < j => st[i].time <= st[j].time
    BY <1>3, <1>6 DEF Ordered
  <2>2. Ordered(s)
    BY <1>1, <1>4, <2>1 DEF Ordered
  <2>3. Ordered(t)
    <3> SUFFICES ASSUME NEW i \in 1 .. n, NEW j \in 1 .. n, i < j PROVE t[i].time <= t[j].time
      BY <1>1 DEF Ordered
    <3>1. m + i < m + j
      BY <1>1
    <3> QED BY <1>5, <2>1, <3>1
  <2>4. ASSUME NEW i \in 1 .. m, NEW j \in 1 .. n PROVE s[i].time <= t[j].time
    <3>1. i < m + j
      BY <1>1
    <3> QED BY <1>4, <1>5, <2>1, <3>1
  <2> QED BY <1>1, <2>2, <2>3, <2>4
<1>7. ASSUME Ordered(s), Ordered(t), \A x \in Range(s), y \in Range(t) : x.time <= y.time
      PROVE  Ordered(st)
  <2> SUFFICES ASSUME NEW i \in 1 .. m + n, NEW j \in 1 .. m + n, i < j
               PROVE  st[i].time <= st[j].time
    BY <1>3 DEF Ordered
  <2>1. CASE j <= m
    <3>1. i \in 1 .. m /\ j \in 1 .. m
      BY <1>1, <2>1
    <3> QED BY <1>1, <1>4, <1>7, <3>1 DEF Ordered
  <2>2. CASE i <= m /\ ~(j <= m)
    <3>1. PICK k \in 1 .. n : k = j - m /\ i \in 1 .. m
      BY <1>1, <2>2
    <3>2. st[j] = t[k] /\ st[i] = s[i]
      BY <1>2, <1>4, <2>2, <3>1
    <3> QED BY <1>1, <1>7, <3>1, <3>2
  <2>3. CASE ~(i <= m) /\ ~(j <= m)
    <3>1. PICK k \in 1 .. n : k = i - m
      BY <1>1, <2>3
    <3>2. PICK l \in 1 .. n : l = j - m
      BY <1>1, <2>3
    <3>3. st[i] = t[k] /\ st[j] = t[l] /\ k < l
      BY <1>1, <1>2, <2>3, <3>1, <3>2
    <3> QED BY <1>1, <1>7, <3>3 DEF Ordered
  <2>4. i <= m => i \in 1 .. m
    BY <1>1
  <2>5. j <= m => i <= m
    BY <1>1
  <2> QED BY <2>1, <2>2, <2>3, <2>5
<1> QED BY <1>6, <1>7 DEF st

\* Those of an ordered sequence are ordered.
LEMMA ThoseOrdered ==
  ASSUME NEW T, NEW S, NEW s \in Seq(T), Ordered(s)
  PROVE  Ordered(Those(s, S))
<1> DEFINE P == {u \in Seq(T) : Ordered(u) => Ordered(Those(u, S))}
<1>1. <<>> \in P
  BY EmptySeq, ThoseOfNothing
<1>2. ASSUME NEW u \in P, NEW x \in T PROVE Append(u, x) \in P
  <2>1. u \in Seq(T) /\ (Ordered(u) => Ordered(Those(u, S)))
    OBVIOUS
  <2> HIDE DEF P
  <2>2. Append(u, x) = u \o <<x>> /\ Append(u, x) \in Seq(T) /\ <<x>> \in Seq(T)
    BY <2>1
  <2>3. Bit(x, S) \in Seq(T) /\ Range(Bit(x, S)) \subseteq {x} /\ Range(<<x>>) = {x}
    BY DEF Bit, Range
  <2>4. Ordered(Bit(x, S))
    BY DEF Bit, Ordered
  <2>5. Those(u, S) \in Seq(T) /\ Range(Those(u, S)) = Range(u) \cap S
    BY <2>1, ThoseInSeq, ThoseRange
  <2>6. Those(Append(u, x), S) = Those(u, S) \o Bit(x, S)
    BY <2>1, ThoseAppend
  <2>7. Ordered(u \o <<x>>) => Ordered(u) /\ \A y \in Range(u) : y.time <= x.time
    BY <2>1, <2>2, <2>3, OrderedConcat
  <2>8. Ordered(Those(u, S)) /\ (\A y \in Range(u) : y.time <= x.time)
           => Ordered(Those(u, S) \o Bit(x, S))
    <3> SUFFICES ASSUME Ordered(Those(u, S)), \A y \in Range(u) : y.time <= x.time
                 PROVE  Ordered(Those(u, S) \o Bit(x, S))
      OBVIOUS
    <3>1. \A y \in Range(Those(u, S)), z \in Range(Bit(x, S)) : y.time <= z.time
      BY <2>3, <2>5
    <3> QED BY <2>3, <2>4, <2>5, <3>1, OrderedConcat
  <2> QED BY <2>1, <2>2, <2>6, <2>7, <2>8 DEF P
<1> HIDE DEF P
<1>3. P \subseteq Seq(T)
  BY DEF P
<1>4. P = Seq(T)
  BY <1>1, <1>2, <1>3, AllSequences
<1> QED BY <1>4 DEF P

\* Elements that are not wanted can be cut off.
LEMMA ThoseOfPrefix ==
  ASSUME NEW T, NEW S, NEW s \in Seq(T), NEW k \in 0 .. Len(s),
         \A i \in DOMAIN s : i > k => s[i] \notin S
  PROVE  /\ SubSeq(s, 1, k) \in Seq(T) /\ SubSeq(s, k + 1, Len(s)) \in Seq(T)
         /\ s = SubSeq(s, 1, k) \o SubSeq(s, k + 1, Len(s))
         /\ Those(SubSeq(s, 1, k), S) = Those(s, S)
<1> DEFINE u == SubSeq(s, 1, k)
           v == SubSeq(s, k + 1, Len(s))
<1>1. Len(s) \in Nat /\ DOMAIN s = 1 .. Len(s) /\ 1 \in 1 .. Len(s) + 1 /\ k \in 0 .. Len(s) /\ Len(s) \in k .. Len(s)
  OBVIOUS
<1>2. u \in Seq(T)
  OBVIOUS
<1>3. v \in Seq(T) /\ \A i \in DOMAIN v : k + i \in DOMAIN s /\ k + i > k /\ v[i] = s[k + i]
  OBVIOUS
<1>4. s = u \o v
  <2>1. \A i \in 1 .. Len(s) + 1 : \A j \in i - 1 .. Len(s) : \A l \in j .. Len(s) :
           SubSeq(s, i, j) \o SubSeq(s, j + 1, l) = SubSeq(s, i, l)
    BY ConcatAdjacentSubSeq
  <2>2. 1 \in 1 .. Len(s) + 1 /\ k \in 1 - 1 .. Len(s) /\ Len(s) \in k .. Len(s)
    BY <1>1
  <2>3. SubSeq(s, 1, k) \o SubSeq(s, k + 1, Len(s)) = SubSeq(s, 1, Len(s))
    BY <2>1, <2>2
  <2> QED BY <2>3, SubSeqFull
<1> HIDE DEF u, v
<1>5. Range(v) \cap S = {}
  BY <1>3 DEF Range
<1>6. Those(v, S) = <<>>
  BY <1>3, <1>5, ThoseAllOrNone
<1>7. Those(u \o v, S) = Those(u, S) \o Those(v, S)
  BY <1>2, <1>3, ThoseConcat
<1>8. Those(u, S) \o <<>> = Those(u, S)
  BY <1>2, ThoseInSeq, ConcatEmptySeq
<1> QED BY <1>2, <1>3, <1>4, <1>6, <1>7, <1>8 DEF u, v

------------------------------------------------------------------------------
(* The entries of a log *)

\* A function by recursion over the first numbers exists.
Steps(V, n) == [1 .. n -> [V -> V]]
Iterates(h, V, n, base, step) ==
  /\ h \in [0 .. n -> V] /\ h[0] = base
  /\ \A k \in 1 .. n : h[k] = step[k][h[k - 1]]

\* The values of a step taken again and again exist as a function.
LEMMA Iteration ==
  ASSUME NEW V, NEW n \in Nat, NEW base \in V, NEW step, step \in Steps(V, n)
  PROVE  \E h : Iterates(h, V, n, base, step)
<1> USE DEF Steps, Iterates
<1> DEFINE Good(h, m) == h[0] = base /\ \A k \in 1 .. m : h[k] = step[k][h[k - 1]]
           P == {m \in Nat : m <= n => \E h \in [0 .. m -> V] : Good(h, m)}
<1>1. 0 \in P
  <2> DEFINE h == [k \in 0 .. 0 |-> base]
  <2>1. h \in [0 .. 0 -> V] /\ Good(h, 0)
    OBVIOUS
  <2> HIDE DEF h, Good
  <2> QED BY <2>1
<1>2. ASSUME NEW m \in P PROVE m + 1 \in P
  <2> HIDE DEF Good
  <2>1. m \in Nat
    OBVIOUS
  <2> SUFFICES ASSUME m + 1 <= n PROVE \E h \in [0 .. m + 1 -> V] : Good(h, m + 1)
    BY <2>1
  <2>2. PICK h \in [0 .. m -> V] : Good(h, m)
    BY <2>1
  <2> USE DEF Good
  <2> DEFINE next == step[m + 1][h[m]]
             k == [i \in 0 .. m + 1 |-> IF i = m + 1 THEN next ELSE h[i]]
  <2>3. next \in V
    <3>1. m + 1 \in 1 .. n /\ h[m] \in V
      BY <2>1, <2>2
    <3>2. step[m + 1] \in [V -> V]
      BY <3>1
    <3> QED BY <3>1, <3>2
  <2> HIDE DEF next
  <2>4. /\ k \in [0 .. m + 1 -> V] /\ k[m + 1] = next
        /\ \A i \in 0 .. m : k[i] = h[i]
    BY <2>1, <2>2, <2>3
  <2> HIDE DEF k
  <2>5. k[0] = base
    BY <2>1, <2>2, <2>4
  <2>6. ASSUME NEW i \in 1 .. m + 1 PROVE k[i] = step[i][k[i - 1]]
    <3>1. CASE i = m + 1
      <4>1. i - 1 = m /\ m \in 0 .. m
        BY <2>1, <3>1
      <4> QED BY <2>4, <3>1, <4>1 DEF next
    <3>2. CASE i # m + 1
      <4>1. i \in 1 .. m /\ i \in 0 .. m /\ i - 1 \in 0 .. m
        BY <2>1, <3>2
      <4> QED BY <2>2, <2>4, <4>1
    <3> QED BY <3>1, <3>2
  <2> HIDE DEF P
  <2> QED BY <2>4, <2>5, <2>6
<1> HIDE DEF P
<1>3. P \subseteq Nat
  BY DEF P
<1>4. P = Nat
  BY <1>1, <1>2, <1>3, AllNumbers
<1> QED BY <1>4 DEF P

\* The entries there may be.
LogEntries == {Entry(line, n) : line \in Lines, n \in Nat}

\* An entry has the time of its line, which is no later than now.
LEMMA EntryTimes ==
  /\ \A line \in Lines, n \in Nat : Entry(line, n) \in LogEntries /\ Entry(line, n).time = line.time
  /\ \A e \in LogEntries : e.time \in 0 .. Now /\ e.time \in Int
<1>1. \A line \in Lines, n \in Nat : Entry(line, n).time = line.time
  BY DEF Entry
<1>2. \A line \in Lines : line.time \in 0 .. Now /\ line.time \in Int
  BY TableLogAssumption
<1> QED BY <1>1, <1>2 DEF LogEntries

\* An entry gets into the right place.
LEMMA Inserts ==
  ASSUME NEW entries \in Seq(LogEntries), Ordered(entries), NEW e \in LogEntries
  PROVE  /\ Insert(entries, e) \in Seq(LogEntries)
         /\ Ordered(Insert(entries, e))
         /\ Range(Insert(entries, e)) = Range(entries) \cup {e}
<1> DEFINE before == {x \in Range(entries) : Precedes(x, e)}
           after == Range(entries) \ before
           front == Those(entries, before)
           back == Those(entries, after)
           one == <<e>>
<1>1. Range(entries) \subseteq LogEntries
  BY DEF Range
<1>2. /\ \A x \in before : x.time <= e.time
      /\ \A x \in after : e.time <= x.time
  BY <1>1, EntryTimes DEF Precedes
<1> HIDE DEF before
<1>3. front \in Seq(LogEntries) /\ Ordered(front) /\ Range(front) = Range(entries) \cap before
  BY ThoseInSeq, ThoseOrdered, ThoseRange
<1>4. back \in Seq(LogEntries) /\ Ordered(back) /\ Range(back) = Range(entries) \cap after
  BY ThoseInSeq, ThoseOrdered, ThoseRange
<1>5. one \in Seq(LogEntries) /\ Ordered(one) /\ Range(one) = {e}
  BY DEF Ordered, Range
<1>6. Insert(entries, e) = front \o one \o back
  BY DEF Insert, before
<1> HIDE DEF front, back, one
<1>7. /\ front \o one \in Seq(LogEntries)
      /\ Range(front \o one) = Range(front) \cup {e}
  <2>1. front \o one \in Seq(LogEntries)
    BY ONLY <1>3, <1>5, ConcatProperties
  <2>2. Range(front \o one) = Range(front) \cup Range(one)
    BY ONLY <1>3, <1>5, RangeConcat
  <2> QED BY <1>5, <2>1, <2>2
<1>8. Ordered(front \o one)
  BY <1>2, <1>3, <1>5, OrderedConcat
<1>9. \A x \in Range(front) \cup {e}, y \in Range(back) : x.time <= y.time
  <2> SUFFICES ASSUME NEW x \in Range(front) \cup {e}, NEW y \in Range(back) PROVE x.time <= y.time
    OBVIOUS
  <2>1. x \in LogEntries /\ y \in LogEntries /\ x.time <= e.time /\ e.time <= y.time
    BY <1>1, <1>2, <1>3, <1>4, EntryTimes
  <2> QED BY <2>1, EntryTimes
<1> DEFINE most == front \o one
<1>10. most \in Seq(LogEntries) /\ Range(most) = Range(front) \cup {e} /\ Ordered(most)
  BY <1>7, <1>8
<1>11. Insert(entries, e) = most \o back
  BY <1>6
<1> HIDE DEF most
<1>12. most \o back \in Seq(LogEntries)
  BY ONLY <1>4, <1>10, ConcatProperties
<1>13. Range(most \o back) = Range(most) \cup Range(back)
  BY ONLY <1>4, <1>10, RangeConcat
<1>14. Ordered(most \o back)
  BY <1>4, <1>9, <1>10, OrderedConcat
<1>15. Range(entries) = before \cup after
  BY DEF before
<1> QED BY <1>3, <1>4, <1>10, <1>11, <1>12, <1>13, <1>14, <1>15

\* A log is good for the entries of its lines.
IsLog(log) ==
  /\ Len(log) \in Nat /\ DOMAIN log = 1 .. Len(log)
  /\ \A n \in 1 .. Len(log) : Entry(log[n], n) \in LogEntries

\* A sequence of lines is a log.
LEMMA LinesMakeLogs ==
  ASSUME NEW log \in Seq(Lines)
  PROVE  IsLog(log)
<1>1. Len(log) \in Nat /\ DOMAIN log = 1 .. Len(log) /\ \A n \in 1 .. Len(log) : log[n] \in Lines /\ n \in Nat
  OBVIOUS
<1> QED BY <1>1, EntryTimes DEF IsLog

\* The entries line by line.
Collects(es, log) ==
  /\ es[0] = <<>>
  /\ \A n \in 1 .. Len(log) :
        es[n] = IF log[n].stamped THEN Insert(es[n - 1], Entry(log[n], n)) ELSE es[n - 1]

\* Of a log come the entries of its lines with a time stamp, in the order of time.
LEMMA EntriesOfLog ==
  ASSUME NEW log, IsLog(log)
  PROVE  /\ \E es : Collects(es, log) /\ Entries(log) = es[Len(log)]
         /\ Entries(log) \in Seq(LogEntries) /\ Ordered(Entries(log))
         /\ \A e \in Range(Entries(log)) :
               \E n \in DOMAIN log : log[n].stamped /\ e = Entry(log[n], n)
<1> DEFINE From(e) == \E n \in DOMAIN log : log[n].stamped /\ e = Entry(log[n], n)
           V == {es \in Seq(LogEntries) : Ordered(es) /\ \A e \in Range(es) : From(e)}
           Moved(es, n) == IF log[n].stamped THEN Insert(es, Entry(log[n], n)) ELSE es
           Body(f) == [n \in 0 .. Len(log) |->
                          IF n = 0 THEN <<>>
                          ELSE IF log[n].stamped THEN Insert(f[n - 1], Entry(log[n], n))
                          ELSE f[n - 1]]
           chosen == CHOOSE f : f = Body(f)
           step == [n \in 1 .. Len(log) |-> [es \in V |-> Moved(es, n)]]
<1>1. Len(log) \in Nat /\ DOMAIN log = 1 .. Len(log)
  BY DEF IsLog
<1>2. <<>> \in V
  BY DEF Ordered, Range
<1>3. ASSUME NEW es \in V, NEW n \in 1 .. Len(log) PROVE Moved(es, n) \in V
  <2>1. CASE log[n].stamped
    <3>1. Entry(log[n], n) \in LogEntries /\ From(Entry(log[n], n))
      <4>1. n \in DOMAIN log
        BY <1>1
      <4> QED BY <2>1, <4>1 DEF IsLog
    <3> HIDE DEF From
    <3>2. /\ Insert(es, Entry(log[n], n)) \in Seq(LogEntries)
          /\ Ordered(Insert(es, Entry(log[n], n)))
          /\ Range(Insert(es, Entry(log[n], n))) = Range(es) \cup {Entry(log[n], n)}
      BY <3>1, Inserts
    <3> QED BY <2>1, <3>1, <3>2
  <2>2. CASE ~log[n].stamped
    BY <2>2
  <2> QED BY <2>1, <2>2
<1> HIDE DEF V, From
<1>4. step \in [1 .. Len(log) -> [V -> V]]
  <2> HIDE DEF Moved
  <2> QED BY <1>3
<1>5. PICK h \in [0 .. Len(log) -> V] :
         h[0] = <<>> /\ \A n \in 1 .. Len(log) : h[n] = step[n][h[n - 1]]
  <2> DEFINE m == Len(log)
             base == <<>>
  <2>1. m \in Nat /\ base \in V /\ step \in Steps(V, m)
    BY <1>1, <1>2, <1>4 DEF Steps
  <2> HIDE DEF step, m, base
  <2>2. PICK h : Iterates(h, V, m, base, step)
    BY ONLY <2>1, Iteration
  <2> QED BY ONLY <2>2 DEF m, base, Iterates
<1>6. \A n \in 1 .. Len(log) : n - 1 \in 0 .. Len(log) /\ h[n - 1] \in V
  BY <1>1, <1>5
<1>7. \A n \in 1 .. Len(log) : h[n] = Moved(h[n - 1], n)
  <2> HIDE DEF Moved
  <2> QED BY <1>5, <1>6
<1>8. h = Body(h)
  <2>1. \A n \in 0 .. Len(log) : h[n] = Body(h)[n]
    <3> TAKE n \in 0 .. Len(log)
    <3>1. n = 0 \/ n \in 1 .. Len(log)
      BY <1>1
    <3> QED BY <1>5, <1>7, <3>1
  <2>2. Body(h) = [n \in 0 .. Len(log) |-> Body(h)[n]]
    OBVIOUS
  <2> HIDE DEF Body
  <2> QED BY <1>5, <2>1, <2>2
<1>9. chosen = Body(chosen)
  <2> HIDE DEF Body
  <2> QED BY <1>8
<1>10. Entries(log) = chosen[Len(log)]
  BY DEF Entries
<1> HIDE DEF chosen
<1>11. chosen[0] = <<>> /\ \A n \in 1 .. Len(log) : chosen[n] = Moved(chosen[n - 1], n)
  <2>1. 0 \in 0 .. Len(log) /\ \A n \in 1 .. Len(log) : n \in 0 .. Len(log) /\ n # 0
    BY <1>1
  <2> QED BY <1>9, <2>1
<1> DEFINE P == {n \in Nat : n <= Len(log) => chosen[n] \in V}
<1>12. 0 \in P
  BY <1>2, <1>11
<1>13. ASSUME NEW n \in P PROVE n + 1 \in P
  <2> HIDE DEF Moved
  <2>1. n \in Nat
    OBVIOUS
  <2> SUFFICES ASSUME n + 1 <= Len(log) PROVE chosen[n + 1] \in V
    BY <2>1
  <2>2. chosen[n] \in V
    BY <1>1, <2>1
  <2>3. PICK k \in 1 .. Len(log) : k = n + 1 /\ k - 1 = n
    BY <1>1, <2>1
  <2> QED BY <1>3, <1>11, <2>2, <2>3
<1> HIDE DEF P
<1>14. P \subseteq Nat
  BY DEF P
<1>15. P = Nat
  BY <1>12, <1>13, <1>14, AllNumbers
<1>16. Entries(log) \in V
  BY <1>1, <1>10, <1>15 DEF P
<1>17. Collects(chosen, log)
  BY <1>11 DEF Collects
<1> QED BY <1>10, <1>16, <1>17 DEF V, From

\* The logs of an archive, as the cache knows them.
LEMMA LogsOfArchive ==
  ASSUME NEW archive \in Seq(Seq(Lines))
  PROVE  /\ DOMAIN Logs(archive) = 1 .. Len(archive) /\ Len(Logs(archive)) = Len(archive)
         /\ Len(archive) \in Nat
         /\ \A i \in 1 .. Len(archive) :
               /\ archive[i] \in Seq(Lines) /\ Logs(archive)[i].first = archive[i][1].time
               /\ Logs(archive)[i].entries = Entries(archive[i])
               /\ Logs(archive)[i].entries \in Seq(LogEntries)
               /\ Ordered(Logs(archive)[i].entries)
<1>1. Len(archive) \in Nat /\ DOMAIN archive = 1 .. Len(archive)
  OBVIOUS
<1>2. \A i \in 1 .. Len(archive) : archive[i] \in Seq(Lines)
  OBVIOUS
<1>3. /\ DOMAIN Logs(archive) = 1 .. Len(archive)
      /\ \A i \in 1 .. Len(archive) :
            /\ Logs(archive)[i].first = archive[i][1].time
            /\ Logs(archive)[i].entries = Entries(archive[i])
  BY <1>1 DEF Logs
<1>4. Len(Logs(archive)) = Len(archive)
  BY <1>1, <1>3
<1>5. \A i \in 1 .. Len(archive) :
         Logs(archive)[i].entries \in Seq(LogEntries) /\ Ordered(Logs(archive)[i].entries)
  BY <1>2, <1>3, LinesMakeLogs, EntriesOfLog
<1> QED BY <1>1, <1>2, <1>3, <1>4, <1>5

------------------------------------------------------------------------------
(* The time frame and the classes of a query *)

Classes == {"info", "alert", "program", "hs_notification", "passivecheck", "ext_command",
            "state", "text", "alert_handlers"}

\* Every text and every phrase stands for a class that there is.
LEMMA ClassesOfLines ==
  ASSUME NEW line
  PROVE  /\ DefinitionOf(line).class \in Classes
         /\ DefinitionOf(line).class \in HostClasses \/ DefinitionOf(line).params = <<>>
<1>1. \A def \in LogDefinitions :
         def.class \in Classes /\ (def.class \in HostClasses \/ def.params = <<>>)
  <2> DEFINE Good(def) == def.class \in Classes /\ (def.class \in HostClasses \/ def.params = <<>>)
  <2>1. \A text, type, params : \A class \in HostClasses : Good(LogDef(text, class, type, params))
    BY DEF LogDef, HostClasses, Classes
  <2>2. Good(LogDef("EXTERNAL COMMAND", "ext_command", "none", <<>>))
    BY DEF LogDef, Classes
  <2>3. /\ "alert" \in HostClasses /\ "hs_notification" \in HostClasses
        /\ "passivecheck" \in HostClasses /\ "alert_handlers" \in HostClasses
        /\ "state" \in HostClasses
    BY DEF HostClasses
  <2> HIDE DEF Good
  <2>4. \A def \in LogDefinitions : Good(def)
    BY ZenonT(60), <2>1, <2>2, <2>3 DEF LogDefinitions
  <2> QED BY <2>4 DEF Good
<1>2. ClassifyPhrases(line).class \in Classes /\ ClassifyPhrases(line).params = <<>>
  BY DEF ClassifyPhrases, LogDef, Classes
<1> DEFINE known == {def \in LogDefinitions : def.text = line.text}
<1>3. CASE known = {}
  BY <1>2, <1>3 DEF DefinitionOf
<1>4. CASE known # {}
  <2>1. DefinitionOf(line) \in known
    BY <1>4 DEF DefinitionOf
  <2> QED BY <1>1, <2>1
<1> QED BY <1>3, <1>4

\* Every entry is a row of the log.
LEMMA EntriesAreRows ==
  ASSUME NEW e \in LogEntries
  PROVE  IsLogRow(Row(e)) /\ e.class \in MessageClasses /\ Row(e).time = e.time /\ Row(e).class = e.class
<1>1. Row(e).time = e.time /\ Row(e).class = e.class
  BY DEF Row
<1>2. e.class \in MessageClasses
  <2>1. PICK line \in Lines, n \in Nat : e = Entry(line, n)
    BY DEF LogEntries
  <2>2. Entry(line, n).class = ClassNumber[DefinitionOf(line).class]
    BY DEF Entry
  <2>3. \A class \in Classes : ClassNumber[class] \in Range(ClassNumber)
    BY DEF Classes, ClassNumber, Range
  <2> QED BY <2>1, <2>2, <2>3, ClassesOfLines, TableLogAssumption
<1>3. e.time \in 0 .. Now
  BY EntryTimes
<1>4. /\ e.time \in MinInt .. MaxInt /\ e.time + TimezoneOffset \in MinInt .. MaxInt
      /\ e.class \in MinInt .. MaxInt
  <2>1. e.class \in 0 .. MaxInt /\ Now \in Nat /\ Now < MaxInt
    BY <1>2, TableLogAssumption
  <2>2. MaxInt \in Nat /\ TimezoneOffset \in Int /\ MinInt = -MaxInt - 1
    BY FiltersAssumption DEF MinInt
  <2>3. TimezoneOffset \in MinInt .. MaxInt /\ Now + TimezoneOffset \in MinInt .. MaxInt
    BY TableLogAssumption
  <2> QED BY <1>3, <2>1, <2>2, <2>3
<1>5. ColumnsOf("time") = {"time"} /\ ColumnsOf("int") = {"class"}
  <2>1. ColumnType = [time |-> "time", class |-> "int", name |-> "string", groups |-> "list"]
    BY TableLogAssumption
  <2> QED BY <2>1 DEF ColumnsOf, Columns
<1>6. IsRow(Row(e))
  BY <1>1, <1>4, <1>5 DEF IsRow
<1> QED BY <1>1, <1>2, <1>6 DEF IsLogRow

\* A filter bounds a column from above to one value, if to any.
LEMMA UpperBoundsAreSingle ==
  ASSUME NEW f \in AllFilters, NEW b \in LeastUpperBoundFor(f, "time")
  PROVE  LeastUpperBoundFor(f, "time") = {b} /\ b \in MinInt .. MaxInt
<1>0. "time" \in NumberColumns
  BY FilterStackAssumption DEF NumberColumns
<1>1. \A values : /\ \A x \in AndingUpperBound(values) : AndingUpperBound(values) = {x}
                  /\ \A x \in OringUpperBound(values) : OringUpperBound(values) = {x}
  BY DEF AndingUpperBound, OringUpperBound, Combined, None
<1>2. ASSUME f \in ColumnFilters PROVE LeastUpperBoundFor(f, "time") = {b}
  <2>1. LeastUpperBoundFor(f, "time") = ColumnLeastUpperBound(f, "time")
    BY <1>0, <1>2, UpperBoundEquations
  <2>2. \A x \in ColumnLeastUpperBound(f, "time") : ColumnLeastUpperBound(f, "time") = {x}
    BY DEF ColumnLeastUpperBound, None
  <2> QED BY <2>1, <2>2
<1>3. ASSUME f \notin ColumnFilters PROVE LeastUpperBoundFor(f, "time") = {b}
  <2>1. f.kind \in {"and", "or"}
    BY <1>3, FilterCases
  <2>2. \/ \E values : LeastUpperBoundFor(f, "time") = AndingUpperBound(values)
        \/ \E values : LeastUpperBoundFor(f, "time") = OringUpperBound(values)
    BY <1>0, <2>1, UpperBoundEquations
  <2> QED BY <1>1, <2>2
<1>4. LeastUpperBoundFor(f, "time") \in Bounds
  BY <1>0, UpperBoundEquations
<1> QED BY <1>2, <1>3, <1>4 DEF Bounds

\* The time frame is a pair of numbers, which come from the bounds or the defaults.
LEMMA FrameIs ==
  ASSUME NEW f \in AllFilters
  PROVE  /\ Since(f) \in Int /\ Until(f) \in Int
         /\ GreatestLowerBoundFor(f, "time") # None => Since(f) \in GreatestLowerBoundFor(f, "time")
         /\ GreatestLowerBoundFor(f, "time") = None => Since(f) = 0
         /\ LeastUpperBoundFor(f, "time") # {MaxInt} =>
               IF LeastUpperBoundFor(f, "time") = None THEN Until(f) = Now + 1
               ELSE \E b \in LeastUpperBoundFor(f, "time") : b \in Int /\ Until(f) = b + 1
<1>0. "time" \in NumberColumns
  BY FilterStackAssumption DEF NumberColumns
<1>1. GreatestLowerBoundFor(f, "time") \in Bounds /\ LeastUpperBoundFor(f, "time") \in Bounds
  BY <1>0, LowerBoundEquations, UpperBoundEquations
<1> DEFINE low == GreatestLowerBoundFor(f, "time")
           high == LeastUpperBoundFor(f, "time")
<1>2. low \subseteq MinInt .. MaxInt /\ high \subseteq MinInt .. MaxInt
  BY <1>1 DEF Bounds
<1>3. \A bounds, default : /\ bounds # None => ValueOr(bounds, default) \in bounds
                           /\ bounds = None => ValueOr(bounds, default) = default
  BY DEF ValueOr, None
<1>4. Since(f) = ValueOr(low, 0) /\ Until(f) = Wrap(ValueOr(high, Now) + 1)
  BY DEF Since, Until
<1>5. \A b \in high : high = {b}
  BY UpperBoundsAreSingle
<1> HIDE DEF low, high
<1>6. Since(f) \in Int
  <2>1. CASE low = None
    BY <1>3, <1>4, <2>1
  <2>2. CASE low # None
    <3>1. Since(f) \in low
      BY <1>3, <1>4, <2>2
    <3>2. Since(f) \in MinInt .. MaxInt
      BY <1>2, <3>1
    <3> QED BY <3>2, Wraps
  <2> QED BY <2>1, <2>2
<1>7. ValueOr(high, Now) \in MinInt .. MaxInt /\ (high # {MaxInt} => ValueOr(high, Now) + 1 \in MinInt .. MaxInt)
  <2>1. Now \in MinInt .. MaxInt /\ Now + 1 \in MinInt .. MaxInt
    BY TableLogAssumption, FiltersAssumption DEF MinInt
  <2>2. CASE high = None
    BY <1>3, <2>1, <2>2
  <2>3. CASE high # None
    <3>1. PICK b \in high : ValueOr(high, Now) = b
      BY <1>3, <2>3
    <3>2. b \in MinInt .. MaxInt /\ (high # {MaxInt} => b # MaxInt)
      BY <1>2, <1>5
    <3> QED BY <3>1, <3>2, Wraps
  <2> QED BY <2>2, <2>3
<1>8. Until(f) \in Int
  <2>1. ValueOr(high, Now) + 1 \in Int
    BY <1>7, Wraps
  <2>2. Wrap(ValueOr(high, Now) + 1) \in MinInt .. MaxInt
    BY <2>1, Wraps
  <2> QED BY <1>4, <2>2, Wraps
<1>9. ASSUME high # {MaxInt}
      PROVE  IF high = None THEN Until(f) = Now + 1
             ELSE \E b \in high : b \in Int /\ Until(f) = b + 1
  <2> DEFINE v == ValueOr(high, Now)
  <2>1. v + 1 \in MinInt .. MaxInt /\ v \in Int
    BY <1>7, <1>9, Wraps
  <2>2. Until(f) = Wrap(v + 1)
    BY <1>4
  <2>3. Until(f) = v + 1
    BY <2>1, <2>2, Wraps
  <2>4. (high = None => v = Now) /\ (high # None => v \in high)
    BY <1>3
  <2> HIDE DEF v
  <2> QED BY <2>1, <2>3, <2>4
<1>10. low # None => Since(f) \in low
  BY <1>3, <1>4
<1>11. low = None => Since(f) = 0
  BY <1>3, <1>4
<1> QED BY <1>6, <1>8, <1>9, <1>10, <1>11 DEF low, high

\* The entries that a query wants.
WantedBy(f, authUser) == {e \in LogEntries : Wanted(f, authUser, e)}

\* They are in its time frame and of the classes that are loaded for it.
LEMMA FrameHolds ==
  ASSUME RefsFit, NEW f \in AllFilters, EvenOrs(f), LeastUpperBoundFor(f, "time") # {MaxInt},
         NEW authUser, NEW e \in WantedBy(f, authUser)
  PROVE  Since(f) <= e.time /\ e.time < Until(f) /\ e.class \in ClassMask(f)
<1>1. e \in LogEntries /\ Accepts(f, Row(e))
  BY DEF WantedBy, Wanted
<1>2. IsLogRow(Row(e)) /\ e.class \in MessageClasses /\ Row(e).time = e.time /\ Row(e).class = e.class
  BY <1>1, EntriesAreRows
<1>3. WithinBounds(f, Row(e))
  BY <1>1, <1>2, BoundsHold
<1>4. /\ \A b \in GreatestLowerBoundFor(f, "time") : e.time >= b
      /\ \A b \in LeastUpperBoundFor(f, "time") : e.time <= b
      /\ \A s \in ValueSetFor(f, "class") : e.class \in s
  BY <1>2, <1>3 DEF WithinBounds
<1>5. e.time \in 0 .. Now
  BY <1>1, EntryTimes
<1>6. Since(f) <= e.time
  BY <1>4, <1>5, FrameIs
<1>7. e.time < Until(f)
  <2>1. CASE LeastUpperBoundFor(f, "time") = None
    <3>1. Until(f) = Now + 1 /\ Now \in Int
      BY <2>1, FrameIs, TableLogAssumption
    <3> QED BY <1>5, <3>1
  <2>2. CASE LeastUpperBoundFor(f, "time") # None
    <3>1. PICK b \in LeastUpperBoundFor(f, "time") : b \in Int /\ Until(f) = b + 1
      BY <2>2, FrameIs
    <3>2. e.time <= b /\ e.time \in Int
      BY <1>4, <1>5
    <3> QED BY <3>1, <3>2
  <2> QED BY <2>1, <2>2
<1>8. e.class \in ClassMask(f)
  <2>1. ClassMask(f) = ValueOr(ValueSetFor(f, "class"), MessageClasses)
    BY TableLogAssumption DEF ClassMask
  <2> QED BY <1>2, <1>4, <2>1 DEF ValueOr, None
<1> QED BY <1>6, <1>7, <1>8

------------------------------------------------------------------------------
(* The walk from log to log *)

\* The number of elements before the first one at which a walk ends.
EndOf(s, ends) == Min({Len(s)} \cup {i - 1 : i \in ends})

\* A walk ends before the first place where it must, or with the sequence.
LEMMA EndsThere ==
  ASSUME NEW T, NEW s \in Seq(T), NEW ends \in SUBSET DOMAIN s
  PROVE  /\ EndOf(s, ends) \in 0 .. Len(s)
         /\ \A i \in 1 .. EndOf(s, ends) : i \notin ends
         /\ EndOf(s, ends) = Len(s) \/ EndOf(s, ends) + 1 \in ends
<1> DEFINE S == {Len(s)} \cup {i - 1 : i \in ends}
           k == EndOf(s, ends)
<1>1. Len(s) \in Nat /\ DOMAIN s = 1 .. Len(s)
  OBVIOUS
<1>2. S \in SUBSET (0 .. Len(s)) /\ S # {} /\ 0 \in Int /\ Len(s) \in Int
  BY <1>1
<1>3. k = Min(S)
  BY DEF EndOf
<1> DEFINE m == Min(S)
<1>4. m \in S /\ \A x \in S : m <= x
  <2> HIDE DEF S
  <2> QED BY <1>2, MinAndMax
<1> HIDE DEF m
<1>5. m \in 0 .. Len(s) /\ (m = Len(s) \/ m + 1 \in ends)
  BY <1>1, <1>2, <1>4
<1>6. \A i \in 1 .. m : i \notin ends
  BY <1>1, <1>4, <1>5
<1> QED BY <1>3, <1>5, <1>6 DEF m

\* What is in a part of a sequence is in the sequence.
LEMMA PartOf ==
  ASSUME NEW T, NEW s \in Seq(T), NEW k \in 0 .. Len(s)
  PROVE  /\ SubSeq(s, 1, k) \in Seq(T) /\ Range(SubSeq(s, 1, k)) \subseteq Range(s)
         /\ SubSeq(s, k + 1, Len(s)) \in Seq(T)
         /\ s = SubSeq(s, 1, k) \o SubSeq(s, k + 1, Len(s))
<1>1. /\ SubSeq(s, 1, k) \in Seq(T) /\ SubSeq(s, k + 1, Len(s)) \in Seq(T)
      /\ s = SubSeq(s, 1, k) \o SubSeq(s, k + 1, Len(s))
  <2> DEFINE none == {}
  <2>1. \A i \in DOMAIN s : i > k => s[i] \notin none
    OBVIOUS
  <2> HIDE DEF none
  <2>2. /\ SubSeq(s, 1, k) \in Seq(T) /\ SubSeq(s, k + 1, Len(s)) \in Seq(T)
        /\ s = SubSeq(s, 1, k) \o SubSeq(s, k + 1, Len(s))
        /\ Those(SubSeq(s, 1, k), none) = Those(s, none)
    BY <2>1, ThoseOfPrefix
  <2> QED BY <2>2
<1> DEFINE u == SubSeq(s, 1, k)
           v == SubSeq(s, k + 1, Len(s))
<1>2. u \in Seq(T) /\ v \in Seq(T) /\ s = u \o v
  BY <1>1
<1> HIDE DEF u, v
<1>3. Range(u \o v) = Range(u) \cup Range(v)
  BY ONLY <1>2, RangeConcat
<1> QED BY <1>1, <1>2, <1>3 DEF u, v

\* The elements of the two parts of a sequence.
LEMMA PartElements ==
  ASSUME NEW T, NEW s \in Seq(T), NEW k \in 0 .. Len(s)
  PROVE  /\ DOMAIN SubSeq(s, 1, k) = 1 .. k /\ Len(SubSeq(s, 1, k)) = k
         /\ \A i \in 1 .. k : SubSeq(s, 1, k)[i] = s[i]
         /\ DOMAIN SubSeq(s, k + 1, Len(s)) = 1 .. Len(s) - k
         /\ \A i \in 1 .. Len(s) - k : SubSeq(s, k + 1, Len(s))[i] = s[k + i]
<1>1. Len(s) \in Nat /\ k \in Nat /\ k <= Len(s)
  OBVIOUS
<1>2. /\ DOMAIN SubSeq(s, 1, k) = 1 .. k /\ Len(SubSeq(s, 1, k)) = k
      /\ \A i \in 1 .. k : SubSeq(s, 1, k)[i] = s[i]
  BY <1>1
<1>3. DOMAIN SubSeq(s, k + 1, Len(s)) = 1 .. Len(s) - k
  BY <1>1
<1>4. \A i \in 1 .. Len(s) - k : SubSeq(s, k + 1, Len(s))[i] = s[k + i]
  BY <1>1
<1> QED BY <1>2, <1>3, <1>4

\* What the walk through a file has to do with.
Truth == BOOLEAN
Answers == [rows : Seq(LogEntries), more : Truth]

\* A filter that keeps to its time frame and classes.
Keeps(f, loaded, wanted) ==
  \A e \in wanted : Since(f) <= e.time /\ e.time < Until(f) /\ e.class \in loaded

\* Through a file the walk finds what the query wants, from the end, and what
\* is not looked at is too old.
LEMMA AnswersOfFile ==
  ASSUME NEW f \in AllFilters, NEW authUser, NEW loaded,
         NEW log, log.entries \in Seq(LogEntries), Ordered(log.entries), NEW a \in Answers
  PROVE  LET W == WantedBy(f, authUser)
             b == AnswerFile(log, f, authUser, loaded, a)
         IN  /\ b \in Answers
             /\ Range(b.rows) \subseteq Range(a.rows) \cup (Range(log.entries) \cap W)
             /\ Keeps(f, loaded, W) =>
                   /\ b.rows = a.rows \o Reverse(Those(log.entries, W))
                   /\ b.more \/ \E e \in Range(log.entries) : e.time < Since(f)
<1> DEFINE W == WantedBy(f, authUser)
           b == AnswerFile(log, f, authUser, loaded, a)
           entries == log.entries
           held == {e \in Range(entries) : e.class \in loaded /\ e.time <= Until(f)}
           seen == Those(entries, held)
           visible == Reverse(seen)
           tooOld == {i \in DOMAIN visible : visible[i].time < Since(f)}
           k == EndOf(visible, tooOld)
           inRange == SubSeq(visible, 1, k)
           rows == Those(inRange, W)
<1>1. b = [rows |-> a.rows \o Chosen(f, authUser, inRange), more |-> tooOld = {}]
  BY DEF AnswerFile, EndOf
<1>2. a.rows \in Seq(LogEntries)
  BY DEF Answers
<1>3. /\ seen \in Seq(LogEntries) /\ Ordered(seen) /\ Range(seen) = Range(entries) \cap held
  <2> HIDE DEF held
  <2> QED BY ThoseInSeq, ThoseOrdered, ThoseRange
<1> HIDE DEF seen
<1>4. /\ visible \in Seq(LogEntries) /\ Len(visible) = Len(seen) /\ Range(visible) = Range(seen)
      /\ \A i, j \in 1 .. Len(seen) : i + j = Len(seen) + 1 => visible[i] = seen[j]
  BY <1>3, Reverses
<1> HIDE DEF visible
<1>5. /\ k \in 0 .. Len(visible) /\ \A i \in 1 .. k : i \notin tooOld
      /\ k = Len(visible) \/ k + 1 \in tooOld
  BY <1>4, EndsThere
<1> HIDE DEF k
<1>6. inRange \in Seq(LogEntries) /\ Range(inRange) \subseteq Range(visible)
  BY <1>4, <1>5, PartOf
<1> HIDE DEF inRange
<1>7. Range(inRange) \subseteq LogEntries
  BY <1>6 DEF Range
<1>8. Chosen(f, authUser, inRange) = rows
  <2> DEFINE C == {e \in Range(inRange) : Wanted(f, authUser, e)}
  <2>1. \A x \in Range(inRange) : x \in C <=> x \in W
    BY <1>7 DEF WantedBy
  <2> HIDE DEF C, W
  <2>2. Those(inRange, C) = Those(inRange, W)
    BY <2>1, ThoseAgree
  <2> QED BY <2>2 DEF C, Chosen
<1>9. rows \in Seq(LogEntries) /\ Range(rows) = Range(inRange) \cap W
  BY <1>6, ThoseInSeq, ThoseRange
<1>10. b.rows = a.rows \o rows /\ b.more = (tooOld = {}) /\ b = [rows |-> b.rows, more |-> b.more]
  BY <1>1, <1>8
<1> HIDE DEF rows, b, W
<1>11. a.rows \o rows \in Seq(LogEntries) /\ Range(a.rows \o rows) = Range(a.rows) \cup Range(rows)
  BY <1>2, <1>9, RangeConcat, ConcatProperties
<1>12. b \in Answers
  <2>1. b.more \in Truth
    BY <1>10 DEF Truth
  <2>2. b.rows \in Seq(LogEntries)
    BY <1>10, <1>11
  <2> HIDE DEF tooOld
  <2> QED BY <1>10, <2>1, <2>2 DEF Answers
<1>13. Range(b.rows) \subseteq Range(a.rows) \cup (Range(log.entries) \cap W)
  BY <1>3, <1>4, <1>6, <1>9, <1>10, <1>11
<1>14. ASSUME Keeps(f, loaded, W)
       PROVE  /\ b.rows = a.rows \o Reverse(Those(log.entries, W))
              /\ b.more \/ \E e \in Range(log.entries) : e.time < Since(f)
  <2>1. \A i \in DOMAIN visible : i > k => visible[i] \notin W
    <3> SUFFICES ASSUME NEW i \in DOMAIN visible, i > k PROVE visible[i] \notin W
      OBVIOUS
    <3> DEFINE n == Len(seen)
    <3>1. n \in Nat /\ DOMAIN visible = 1 .. n /\ Len(visible) = n /\ i \in 1 .. n /\ i > k
      BY <1>3, <1>4
    <3>2. k \in 0 .. n /\ (k = n \/ k + 1 \in tooOld)
      BY <1>4, <1>5
    <3> HIDE DEF n
    <3>3. PICK j \in 1 .. n : j <= i /\ visible[j].time < Since(f)
      <4>1. k # n /\ k + 1 <= i /\ k + 1 \in 1 .. n
        BY ONLY <3>1, <3>2
      <4>2. \A j \in tooOld : visible[j].time < Since(f)
        OBVIOUS
      <4> HIDE DEF tooOld
      <4> QED BY <3>2, <4>1, <4>2
    <3>4. PICK p \in 1 .. n : p = n + 1 - i
      BY ONLY <3>1
    <3>5. PICK q \in 1 .. n : q = n + 1 - j
      BY ONLY <3>1, <3>3
    <3>6. i + p = n + 1 /\ j + q = n + 1 /\ p <= q
      BY ONLY <3>1, <3>3, <3>4, <3>5
    <3>7. visible[i] = seen[p] /\ visible[j] = seen[q]
      BY <1>4, <3>1, <3>6 DEF n
    <3>8. seen[p] \in LogEntries /\ seen[q] \in LogEntries
      BY <1>3 DEF n
    <3>9. seen[p].time <= seen[q].time
      <4>1. CASE p = q
        BY <3>8, <4>1, EntryTimes
      <4>2. CASE p < q
        BY <1>3, <4>2 DEF Ordered, n
      <4> QED BY <3>6, <4>1, <4>2
    <3>10. visible[i].time < Since(f)
      BY <3>3, <3>7, <3>9, <3>8, EntryTimes, FrameIs
    <3> QED BY <1>14, <3>7, <3>8, <3>10, EntryTimes, FrameIs DEF Keeps
  <2>2. rows = Those(visible, W)
    BY <1>4, <1>5, <2>1, ThoseOfPrefix DEF rows, inRange
  <2>3. Those(visible, W) = Reverse(Those(seen, W))
    BY <1>3, ThoseReverse DEF visible
  <2>4. Those(seen, W) = Those(entries, held \cap W)
    <3> HIDE DEF held
    <3> QED BY ThoseOfThose DEF seen
  <2>5. Those(entries, held \cap W) = Those(entries, W)
    <3>1. \A x \in Range(entries) : x \in held \cap W <=> x \in W
      <4> SUFFICES ASSUME NEW x \in Range(entries), x \in W PROVE x \in held
        OBVIOUS
      <4>1. x \in LogEntries
        BY DEF Range
      <4>2. x.time < Until(f) /\ x.class \in loaded
        BY <1>14 DEF Keeps
      <4> QED BY <4>1, <4>2, EntryTimes, FrameIs
    <3> DEFINE HW == held \cap W
    <3>2. \A x \in Range(entries) : x \in HW <=> x \in W
      BY <3>1
    <3> HIDE DEF HW
    <3>3. Those(entries, HW) = Those(entries, W)
      BY ONLY <3>2, ThoseAgree
    <3> QED BY <3>3 DEF HW
  <2>6. b.more \/ \E e \in Range(log.entries) : e.time < Since(f)
    <3> SUFFICES ASSUME NEW i \in tooOld PROVE \E e \in Range(log.entries) : e.time < Since(f)
      BY <1>10
    <3>1. visible[i] \in Range(visible) /\ visible[i].time < Since(f)
      BY DEF Range
    <3> QED BY <1>3, <1>4, <3>1
  <2> QED BY <1>10, <2>2, <2>3, <2>4, <2>5, <2>6
<1> QED BY <1>12, <1>13, <1>14 DEF b, W

\* Logs of entries in the order of time.
GoodLogs(logs) ==
  /\ Len(logs) \in Nat /\ DOMAIN logs = 1 .. Len(logs)
  /\ \A i \in 1 .. Len(logs) : logs[i].entries \in Seq(LogEntries) /\ Ordered(logs[i].entries)

\* Logs that follow each other in time.
GoodOrder(logs) ==
  \A j \in 1 .. Len(logs) :
      /\ logs[j].first \in Int
      /\ \A d \in Range(logs[j].entries) : logs[j].first <= d.time
      /\ \A i \in 1 .. Len(logs) : i < j =>
            /\ logs[i].first <= logs[j].first
            /\ \A e \in Range(logs[i].entries) : e.time <= logs[j].first

\* The logs of an archive have ordered entries, and follow each other as the
\* archive does.
LEMMA ArchiveIsGood ==
  ASSUME NEW archive \in Seq(Seq(Lines))
  PROVE  /\ GoodLogs(Logs(archive)) /\ (Logs(archive) = <<>> <=> archive = <<>>)
         /\ InOrder(archive) => GoodOrder(Logs(archive))
<1> DEFINE logs == Logs(archive)
           n == Len(archive)
<1>1. /\ DOMAIN logs = 1 .. n /\ Len(logs) = n /\ n \in Nat
      /\ \A i \in 1 .. n :
            /\ archive[i] \in Seq(Lines) /\ logs[i].first = archive[i][1].time
            /\ logs[i].entries = Entries(archive[i])
            /\ logs[i].entries \in Seq(LogEntries)
            /\ Ordered(logs[i].entries)
  BY LogsOfArchive
<1> HIDE DEF logs
<1>2. GoodLogs(logs)
  BY <1>1 DEF GoodLogs
<1>3. logs = <<>> <=> archive = <<>>
  <2>1. archive = <<>> <=> n = 0
    BY EmptySeq
  <2>2. logs = <<>> => n = 0
    BY <1>1
  <2>3. archive = <<>> => logs = <<>>
    BY DEF logs, Logs
  <2> QED BY <2>1, <2>2, <2>3
<1>4. ASSUME InOrder(archive) PROVE GoodOrder(logs)
  <2>1. DOMAIN archive = 1 .. n
    OBVIOUS
  <2>2. ASSUME NEW i \in 1 .. n
        PROVE  /\ logs[i].first \in Int
               /\ \A e \in Range(logs[i].entries) :
                     \E line \in Range(archive[i]) : line.stamped /\ e.time = line.time
    <3>1. archive[i] \in Seq(Lines) /\ archive[i] # <<>>
      BY <1>1, <1>4, <2>1 DEF InOrder
    <3>2. archive[i][1] \in Lines
      BY <3>1
    <3>3. \A line \in Lines : line.time \in 0 .. Now
      BY TableLogAssumption
    <3>4. archive[i][1].time \in Int
      BY <3>2, <3>3
    <3>5. logs[i].first \in Int
      BY <1>1, <3>4
    <3>6. ASSUME NEW e \in Range(logs[i].entries)
          PROVE  \E line \in Range(archive[i]) : line.stamped /\ e.time = line.time
      <4> DEFINE log == archive[i]
      <4>1. log \in Seq(Lines) /\ e \in Range(Entries(log))
        BY <1>1, <3>1, <3>6
      <4> HIDE DEF log
      <4>2. PICK k \in DOMAIN log : log[k].stamped /\ e = Entry(log[k], k)
        BY <4>1, LinesMakeLogs, EntriesOfLog
      <4>3. log[k] \in Lines /\ k \in Nat /\ log[k] \in Range(log)
        BY <4>1 DEF Range
      <4> QED BY <4>2, <4>3, EntryTimes DEF log
    <3> QED BY <3>5, <3>6
  <2>3. ASSUME NEW i \in 1 .. n, NEW j \in 1 .. n, NEW e \in Range(logs[i].entries)
        PROVE  logs[i].first <= e.time /\ (i < j => e.time <= logs[j].first)
    <3>1. PICK line \in Range(archive[i]) : line.stamped /\ e.time = line.time
      BY <2>2
    <3> QED BY <1>1, <1>4, <2>1, <3>1 DEF InOrder
  <2>4. ASSUME NEW i \in 1 .. n, NEW j \in 1 .. n, i < j PROVE logs[i].first <= logs[j].first
    <3> DEFINE log == archive[i]
    <3>1. log \in Seq(Lines) /\ log # <<>> /\ log[1].stamped
      BY <1>1, <1>4, <2>1 DEF InOrder
    <3> HIDE DEF log
    <3>2. log[1] \in Range(log)
      BY <3>1 DEF Range
    <3>3. log[1].time <= archive[j][1].time
      BY <1>4, <2>1, <2>4, <3>1, <3>2 DEF InOrder, log
    <3> QED BY <1>1, <3>3 DEF log
  <2> QED BY <1>1, <2>2, <2>3, <2>4 DEF GoodOrder
<1> QED BY <1>2, <1>3, <1>4 DEF logs

\* The walk, from its first log to the oldest one.
IsWalk(h, logs, f, authUser, loaded, start) ==
  /\ h[0] = [rows |-> <<>>, more |-> TRUE]
  /\ \A k \in 0 .. start : h[k] \in Answers
  /\ \A k \in 1 .. start :
        h[k] = IF ~h[k - 1].more THEN h[k - 1]
               ELSE AnswerFile(logs[start - k + 1], f, authUser, loaded, h[k - 1])

\* The answer is that of a walk.
IsAnswer(h, logs, f, authUser, limit, extra, start) ==
  /\ IsWalk(h, logs, f, authUser, ClassMask(f) \cup extra, start)
  /\ AnswerQuery(logs, f, authUser, limit, extra)
        = IF ClassMask(f) = {} \/ logs[start].first > Until(f) THEN <<>>
          ELSE FirstOf(h[start].rows, limit)

\* A query walks, and begins at the newest log that begins no later than its frame
\* ends.
LEMMA Walks ==
  ASSUME NEW f \in AllFilters, NEW authUser, NEW limit, NEW extra,
         NEW logs, GoodLogs(logs), logs # <<>>, Len(logs) > 0
  PROVE  LET start == NewestFor(logs, Until(f))
         IN  /\ start \in 1 .. Len(logs)
             /\ \A i \in 1 .. Len(logs) : logs[i].first <= Until(f) => i <= start
             /\ start = 1 \/ logs[start].first <= Until(f)
             /\ \E h : IsAnswer(h, logs, f, authUser, limit, extra, start)
<1> DEFINE start == NewestFor(logs, Until(f))
           loaded == ClassMask(f) \cup extra
           nothing == [rows |-> <<>>, more |-> TRUE]
           Moved(a, k) == IF ~a.more THEN a
                         ELSE AnswerFile(logs[start - k + 1], f, authUser, loaded, a)
           Body(h) == [k \in 0 .. start |->
                          IF k = 0 THEN nothing
                          ELSE IF ~h[k - 1].more THEN h[k - 1]
                          ELSE AnswerFile(logs[start - k + 1], f, authUser, loaded, h[k - 1])]
           chosen == CHOOSE h : h = Body(h)
           step == [k \in 1 .. start |-> [a \in Answers |-> Moved(a, k)]]
<1>1. /\ start \in 1 .. Len(logs)
      /\ \A i \in 1 .. Len(logs) : logs[i].first <= Until(f) => i <= start
      /\ start = 1 \/ logs[start].first <= Until(f)
  <2> DEFINE S == {1} \cup {i \in DOMAIN logs : logs[i].first <= Until(f)}
  <2>1. S \in SUBSET (1 .. Len(logs)) /\ S # {} /\ 1 \in Int /\ Len(logs) \in Int
    BY DEF GoodLogs
  <2>2. start = Max(S)
    BY DEF NewestFor
  <2> HIDE DEF S, start
  <2>3. start \in S /\ \A x \in S : x <= start
    BY <2>1, <2>2, MinAndMax
  <2> QED BY <2>1, <2>3 DEF S, GoodLogs
<1>2. AnswerQuery(logs, f, authUser, limit, extra)
        = IF ClassMask(f) = {} \/ logs[start].first > Until(f) THEN <<>>
          ELSE FirstOf(chosen[start].rows, limit)
  BY DEF AnswerQuery
<1> HIDE DEF start, loaded
<1>3. nothing \in Answers
  BY DEF Answers, Truth
<1>4. ASSUME NEW a \in Answers, NEW k \in 1 .. start PROVE Moved(a, k) \in Answers
  <2>1. PICK m \in 1 .. Len(logs) : m = start - k + 1
    BY <1>1
  <2> DEFINE log == logs[m]
  <2>2. log.entries \in Seq(LogEntries) /\ Ordered(log.entries)
    BY DEF GoodLogs
  <2> HIDE DEF log
  <2>3. AnswerFile(log, f, authUser, loaded, a) \in Answers
    BY <2>2, AnswersOfFile
  <2> QED BY <2>1, <2>3 DEF log
<1> HIDE DEF nothing
<1>5. step \in Steps(Answers, start)
  <2> HIDE DEF Moved
  <2> QED BY <1>4 DEF Steps
<1>6. PICK h : Iterates(h, Answers, start, nothing, step)
  <2> HIDE DEF step
  <2>1. start \in Nat
    BY <1>1
  <2> QED BY <1>3, <1>5, <2>1, Iteration
<1>7. \A k \in 1 .. start : k - 1 \in 0 .. start /\ h[k - 1] \in Answers /\ k \in 0 .. start /\ k # 0
  BY <1>1, <1>6 DEF Iterates
<1>8. \A k \in 1 .. start : h[k] = Moved(h[k - 1], k)
  <2> HIDE DEF Moved
  <2> QED BY <1>6, <1>7 DEF Iterates
<1>9. h = Body(h)
  <2>1. \A k \in 0 .. start : h[k] = Body(h)[k]
    <3> TAKE k \in 0 .. start
    <3>1. k = 0 \/ k \in 1 .. start
      BY <1>1
    <3> QED BY <1>6, <1>8, <3>1 DEF Iterates
  <2>2. Body(h) = [k \in 0 .. start |-> Body(h)[k]]
    OBVIOUS
  <2> HIDE DEF Body
  <2> QED BY <1>6, <2>1, <2>2 DEF Iterates
<1>10. chosen = Body(chosen)
  <2> HIDE DEF Body
  <2> QED BY <1>9
<1> HIDE DEF chosen
<1>11. chosen[0] = nothing /\ \A k \in 1 .. start : chosen[k] = Moved(chosen[k - 1], k)
  <2>1. 0 \in 0 .. start /\ \A k \in 1 .. start : k \in 0 .. start /\ k # 0
    BY <1>1
  <2> QED BY <1>10, <2>1
<1> DEFINE P == {k \in Nat : k <= start => chosen[k] \in Answers}
<1>12. 0 \in P
  BY <1>3, <1>11
<1>13. ASSUME NEW k \in P PROVE k + 1 \in P
  <2> HIDE DEF Moved
  <2>1. k \in Nat
    OBVIOUS
  <2> SUFFICES ASSUME k + 1 <= start PROVE chosen[k + 1] \in Answers
    BY <2>1
  <2>2. chosen[k] \in Answers
    BY <1>1, <2>1
  <2>3. PICK m \in 1 .. start : m = k + 1 /\ m - 1 = k
    BY <1>1, <2>1
  <2> QED BY <1>4, <1>11, <2>2, <2>3
<1> HIDE DEF P
<1>14. P \subseteq Nat
  BY DEF P
<1>15. P = Nat
  BY <1>12, <1>13, <1>14, AllNumbers
<1>16. IsWalk(chosen, logs, f, authUser, loaded, start)
  <2>1. \A k \in 0 .. start : chosen[k] \in Answers
    BY <1>15 DEF P
  <2> QED BY <1>11, <2>1 DEF IsWalk, nothing
<1>17. IsAnswer(chosen, logs, f, authUser, limit, extra, start)
  BY <1>2, <1>16 DEF IsAnswer, loaded
<1> QED BY <1>1, <1>17 DEF start

\* A walk finds nothing but what is wanted.
LEMMA WalkFindsWanted ==
  ASSUME NEW f \in AllFilters, NEW authUser, NEW loaded, NEW logs, GoodLogs(logs),
         NEW start \in 1 .. Len(logs), NEW h, IsWalk(h, logs, f, authUser, loaded, start)
  PROVE  /\ h[start].rows \in Seq(LogEntries)
         /\ Range(h[start].rows) \subseteq WantedBy(f, authUser)
<1> DEFINE W == WantedBy(f, authUser)
           P == {k \in Nat : k <= start => Range(h[k].rows) \subseteq W}
<1> HIDE DEF W
<1>1. 0 \in P
  <2>1. h[0].rows = <<>> /\ Range(<<>>) = {}
    BY DEF IsWalk, Range
  <2> QED BY <2>1
<1>2. ASSUME NEW k \in P PROVE k + 1 \in P
  <2>1. k \in Nat
    OBVIOUS
  <2> SUFFICES ASSUME k + 1 <= start PROVE Range(h[k + 1].rows) \subseteq W
    BY <2>1
  <2>2. Range(h[k].rows) \subseteq W /\ h[k] \in Answers
    BY <2>1 DEF IsWalk
  <2>3. PICK m \in 1 .. start : m = k + 1 /\ m - 1 = k
    BY <2>1
  <2>4. PICK i \in 1 .. Len(logs) : i = start - m + 1
    BY DEF GoodLogs
  <2> DEFINE log == logs[i]
             b == AnswerFile(log, f, authUser, loaded, h[k])
  <2>5. h[m] = IF ~h[k].more THEN h[k] ELSE b
    BY <2>3, <2>4 DEF IsWalk
  <2>6. log.entries \in Seq(LogEntries) /\ Ordered(log.entries)
    BY DEF GoodLogs
  <2> HIDE DEF log
  <2>7. Range(b.rows) \subseteq Range(h[k].rows) \cup (Range(log.entries) \cap W)
    BY <2>2, <2>6, AnswersOfFile DEF W
  <2> QED BY <2>2, <2>3, <2>5, <2>7
<1> HIDE DEF P
<1>3. P \subseteq Nat
  BY DEF P
<1>4. P = Nat
  BY <1>1, <1>2, <1>3, AllNumbers
<1>5. start \in Nat /\ start \in 0 .. start
  BY DEF GoodLogs
<1>6. h[start] \in Answers
  BY <1>5 DEF IsWalk
<1> QED BY <1>4, <1>5, <1>6 DEF P, W, Answers

\* The entries of all logs, and of those up to one.
EntriesOf(logs) == [i \in DOMAIN logs |-> logs[i].entries]
UpTo(logs, m) == FlattenSeq(SubSeq(EntriesOf(logs), 1, m))
Behind(logs, m) == FlattenSeq(SubSeq(EntriesOf(logs), m + 1, Len(logs)))

\* The entries of all logs are those up to one and those behind it.
LEMMA LogsInParts ==
  ASSUME NEW logs, GoodLogs(logs), NEW m \in 0 .. Len(logs)
  PROVE  /\ EntriesOf(logs) \in Seq(Seq(LogEntries))
         /\ UpTo(logs, m) \in Seq(LogEntries) /\ Behind(logs, m) \in Seq(LogEntries)
         /\ FlattenSeq(EntriesOf(logs)) = UpTo(logs, m) \o Behind(logs, m)
         /\ \A x : x \in Range(UpTo(logs, m)) <=> \E i \in 1 .. m : x \in Range(logs[i].entries)
         /\ \A x \in Range(Behind(logs, m)) :
               \E i \in 1 .. Len(logs) : i > m /\ x \in Range(logs[i].entries)
<1> DEFINE E == EntriesOf(logs)
           n == Len(logs)
           u == SubSeq(E, 1, m)
           v == SubSeq(E, m + 1, n)
           T == Seq(LogEntries)
<1>1. n \in Nat /\ DOMAIN logs = 1 .. n /\ \A i \in 1 .. n : logs[i].entries \in T
  BY DEF GoodLogs
<1>2. E \in Seq(T) /\ Len(E) = n /\ \A i \in 1 .. n : E[i] = logs[i].entries
  <2>1. E = [i \in 1 .. n |-> logs[i].entries]
    BY <1>1 DEF EntriesOf
  <2> HIDE DEF T
  <2> QED BY <1>1, <2>1
<1> HIDE DEF E, T
<1>3. u \in Seq(T) /\ v \in Seq(T) /\ E = u \o v
  BY <1>1, <1>2, PartOf
<1>4. /\ \A i \in DOMAIN u : i \in 1 .. m /\ u[i] = E[i]
      /\ \A i \in 1 .. m : i \in DOMAIN u
      /\ \A i \in DOMAIN v : m + i \in 1 .. n /\ m + i > m /\ v[i] = E[m + i]
  <2>1. m \in 0 .. Len(E)
    BY <1>2
  <2>2. /\ DOMAIN u = 1 .. m /\ \A i \in 1 .. m : u[i] = E[i]
        /\ DOMAIN v = 1 .. n - m /\ \A i \in 1 .. n - m : v[i] = E[m + i]
    BY <1>2, <2>1, PartElements
  <2> HIDE DEF u, v, n
  <2> QED BY <1>1, <2>2
<1> HIDE DEF u, v
<1>5. FlattenSeq(E) = FlattenSeq(u) \o FlattenSeq(v)
  BY <1>3, FlattenConcat DEF T
<1>6. /\ FlattenSeq(u) \in T /\ FlattenSeq(v) \in T
      /\ \A x : x \in Range(FlattenSeq(u)) <=> \E i \in DOMAIN u : x \in Range(u[i])
      /\ \A x : x \in Range(FlattenSeq(v)) <=> \E i \in DOMAIN v : x \in Range(v[i])
  BY <1>3, Flattens DEF T
<1>7. \A x : x \in Range(FlattenSeq(u)) <=> \E i \in 1 .. m : x \in Range(logs[i].entries)
  <2>1. \A i \in 1 .. m : i \in 1 .. n
    BY <1>1
  <2> QED BY <1>2, <1>4, <1>6, <2>1
<1>8. \A x \in Range(FlattenSeq(v)) : \E i \in 1 .. n : i > m /\ x \in Range(logs[i].entries)
  <2> SUFFICES ASSUME NEW x \in Range(FlattenSeq(v))
               PROVE  \E i \in 1 .. n : i > m /\ x \in Range(logs[i].entries)
    OBVIOUS
  <2>1. PICK i \in DOMAIN v : x \in Range(v[i])
    BY <1>6
  <2>2. PICK k \in 1 .. n : k = m + i /\ k > m
    BY <1>4
  <2>3. v[i] = logs[k].entries
    BY <1>2, <1>4, <2>2
  <2> QED BY <2>1, <2>2, <2>3
<1> QED BY <1>2, <1>3, <1>5, <1>6, <1>7, <1>8 DEF u, v, E, T, UpTo, Behind

\* The entries up to a log are those before it and its own.
LEMMA UpToNext ==
  ASSUME NEW logs, GoodLogs(logs), NEW m \in 1 .. Len(logs)
  PROVE  UpTo(logs, m) = UpTo(logs, m - 1) \o logs[m].entries
<1> DEFINE E == EntriesOf(logs)
           n == Len(logs)
           u == SubSeq(E, 1, m)
           v == SubSeq(E, 1, m - 1)
           last == logs[m].entries
           T == Seq(LogEntries)
<1>1. n \in Nat /\ m - 1 \in 0 .. n /\ last \in T
  BY DEF GoodLogs
<1>2. E \in Seq(T) /\ Len(E) = n /\ E[m] = last
  <2>1. E \in Seq(T)
    BY <1>1, LogsInParts
  <2>2. E = [i \in 1 .. n |-> logs[i].entries]
    BY DEF EntriesOf, GoodLogs
  <2> HIDE DEF T
  <2> QED BY <1>1, <2>1, <2>2
<1> HIDE DEF E, T, last
<1>3. v \in Seq(T) /\ Len(v) = m - 1 /\ \A i \in 1 .. m - 1 : v[i] = E[i]
  <2>1. m - 1 \in 0 .. Len(E)
    BY <1>1, <1>2
  <2> QED BY <1>2, <2>1, PartOf, PartElements
<1>4. u \in Seq(T) /\ Len(u) = m /\ \A i \in 1 .. m : u[i] = E[i]
  <2>1. m \in 0 .. Len(E)
    BY <1>1, <1>2
  <2> QED BY <1>2, <2>1, PartOf, PartElements
<1> HIDE DEF u, v
<1>5. u = Append(v, last)
  <2> DEFINE w == Append(v, last)
  <2>0. last \in T
    BY <1>1 DEF T
  <2>1. w \in Seq(T) /\ Len(w) = m /\ (\A i \in 1 .. m - 1 : w[i] = v[i]) /\ w[m] = last
    BY <1>3, <2>0
  <2> HIDE DEF w
  <2>2. \A i \in 1 .. m : u[i] = w[i]
    <3> SUFFICES ASSUME NEW i \in 1 .. m PROVE u[i] = w[i]
      OBVIOUS
    <3>1. i = m \/ i \in 1 .. m - 1
      OBVIOUS
    <3> QED BY <1>2, <1>3, <1>4, <2>1, <3>1
  <2>3. u = w
    BY <1>4, <2>1, <2>2, SeqEqual
  <2> QED BY <2>3 DEF w
<1>6. FlattenSeq(Append(v, last)) = FlattenSeq(v) \o last
  BY <1>1, <1>3, FlattenAppend DEF T
<1> QED BY <1>5, <1>6 DEF UpTo, u, v, E, last

\* It does not matter in which order three sequences of entries are joined.
LEMMA EntriesJoin ==
  \A a, b, c \in Seq(LogEntries) : (a \o b) \o c = a \o (b \o c)
BY ConcatAssociative

\* What a walk through a file that keeps to the frame adds.
Found(b, a, f, authUser, log) ==
  b.rows = a.rows \o Reverse(Those(log.entries, WantedBy(f, authUser)))

\* Through a file a walk whose frame keeps all that is wanted finds it all.
LEMMA FileIsSearched ==
  ASSUME NEW f \in AllFilters, NEW authUser, NEW loaded, Keeps(f, loaded, WantedBy(f, authUser)),
         NEW log, log.entries \in Seq(LogEntries), Ordered(log.entries), NEW a \in Answers
  PROVE  Found(AnswerFile(log, f, authUser, loaded, a), a, f, authUser, log)
BY AnswersOfFile DEF Found

\* A query with the bounds of a filter that keeps to them finds all that is
\* wanted.
LEMMA WalkFindsAll ==
  ASSUME NEW f \in AllFilters, NEW authUser, NEW loaded, NEW logs, GoodLogs(logs), GoodOrder(logs),
         Keeps(f, loaded, WantedBy(f, authUser)),
         NEW start \in 1 .. Len(logs), NEW h, IsWalk(h, logs, f, authUser, loaded, start)
  PROVE  h[start].rows = Reverse(Those(UpTo(logs, start), WantedBy(f, authUser)))
<1> DEFINE W == WantedBy(f, authUser)
           Left(m) == Those(UpTo(logs, m), W)
           Done(k, m) == /\ h[k].rows \o Reverse(Left(m)) = Reverse(Left(start))
                         /\ ~h[k].more => Left(m) = <<>>
           P == {k \in Nat : \A m \in 0 .. start : k + m = start => Done(k, m)}
<1>0. Keeps(f, loaded, W)
  OBVIOUS
<1> HIDE DEF W
<1>1. Len(logs) \in Nat /\ start \in Nat /\ \A m \in 0 .. start : m \in 0 .. Len(logs)
  BY DEF GoodLogs
<1>2. ASSUME NEW m \in 0 .. start
      PROVE  /\ UpTo(logs, m) \in Seq(LogEntries) /\ Left(m) \in Seq(LogEntries)
             /\ Reverse(Left(m)) \in Seq(LogEntries)
  <2>1. UpTo(logs, m) \in Seq(LogEntries)
    BY <1>1, LogsInParts
  <2>2. Left(m) \in Seq(LogEntries)
    BY <2>1, ThoseInSeq
  <2> HIDE DEF Left
  <2> QED BY <2>1, <2>2, Reverses
<1>3. 0 \in P
  <2> SUFFICES ASSUME NEW m \in 0 .. start, m = start PROVE Done(0, m)
    OBVIOUS
  <2>1. h[0].rows = <<>> /\ h[0].more = TRUE
    BY DEF IsWalk
  <2> DEFINE r == Reverse(Left(m))
  <2>2. r \in Seq(LogEntries)
    BY <1>2
  <2> HIDE DEF r, Left
  <2>3. <<>> \o r = r
    BY <2>2, ConcatEmptySeq
  <2> QED BY <2>1, <2>3 DEF r
<1>4. ASSUME NEW k \in P PROVE k + 1 \in P
  <2>1. k \in Nat
    OBVIOUS
  <2> SUFFICES ASSUME NEW m \in 0 .. start, k + 1 + m = start PROVE Done(k + 1, m)
    BY <2>1
  <2>2. PICK i \in 1 .. Len(logs) : i = m + 1
    BY <1>1, <2>1
  <2>3. k + i = start /\ i \in 0 .. start /\ m = i - 1 /\ k \in 0 .. start
    BY <1>1, <2>1, <2>2
  <2>4. Done(k, i)
    BY <2>3
  <2>5. PICK j \in 1 .. start : j = k + 1 /\ j - 1 = k /\ start - j + 1 = i
    BY <1>1, <2>1, <2>2
  <2> DEFINE log == logs[i]
             b == AnswerFile(log, f, authUser, loaded, h[k])
             found == Reverse(Those(log.entries, W))
  <2>6. h[j] = IF ~h[k].more THEN h[k] ELSE b
    BY <2>5 DEF IsWalk
  <2>7. h[k] \in Answers
    BY <2>3 DEF IsWalk
  <2>8. log.entries \in Seq(LogEntries) /\ Ordered(log.entries)
    BY DEF GoodLogs
  <2> HIDE DEF log
  <2>9. Left(i) = Left(m) \o Those(log.entries, W)
    <3>1. UpTo(logs, i) = UpTo(logs, m) \o log.entries
      BY <2>3, UpToNext DEF log
    <3> DEFINE older == UpTo(logs, m)
               newest == log.entries
    <3>2. older \in Seq(LogEntries) /\ newest \in Seq(LogEntries)
      BY <1>2, <2>8
    <3> HIDE DEF older, newest
    <3>3. Those(older \o newest, W) = Those(older, W) \o Those(newest, W)
      BY ONLY <3>2, ThoseConcat
    <3> QED BY <3>1, <3>3 DEF older, newest
  <2>10. Those(log.entries, W) \in Seq(LogEntries)
    BY <2>8, ThoseInSeq
  <2> DEFINE l == Left(m)
             r == Reverse(Left(m))
             li == Left(i)
             ls == Left(start)
             t == Those(log.entries, W)
  <2>11. l \in Seq(LogEntries) /\ t \in Seq(LogEntries) /\ r \in Seq(LogEntries) /\ li = l \o t
    BY <1>2, <2>9, <2>10
  <2>12. found \in Seq(LogEntries) /\ r = Reverse(l) /\ found = Reverse(t)
    BY <2>10, Reverses
  <2>13. /\ h[k].rows \o Reverse(li) = Reverse(ls) /\ (~h[k].more => li = <<>>)
         /\ h[k].rows \in Seq(LogEntries)
    BY <2>4, <2>7 DEF Answers
  <2>14. Done(j, m) <=> h[j].rows \o r = Reverse(ls) /\ (~h[j].more => l = <<>>)
    OBVIOUS
  <2>15. ASSUME b.more = FALSE PROVE l = <<>>
    <3>1. PICK e \in Range(log.entries) : e.time < Since(f)
      BY <1>0, <2>7, <2>8, <2>15, AnswersOfFile DEF W
    <3>2. \A x \in Range(UpTo(logs, m)) : x \notin W
      <4> SUFFICES ASSUME NEW x \in Range(UpTo(logs, m)) PROVE x \notin W
        OBVIOUS
      <4>1. PICK p \in 1 .. m : x \in Range(logs[p].entries)
        BY <1>1, LogsInParts
      <4>2. p \in 1 .. Len(logs) /\ p < i
        BY <1>1, <2>2
      <4>3. x.time <= logs[i].first /\ logs[i].first <= e.time /\ logs[i].first \in Int
        BY <3>1, <4>1, <4>2 DEF GoodOrder, log
      <4>4. e \in LogEntries /\ x \in LogEntries
        <5>1. e \in LogEntries
          BY <2>8, <3>1 DEF Range
        <5>2. logs[p].entries \in Seq(LogEntries)
          BY <4>2 DEF GoodLogs
        <5>3. \A s \in Seq(LogEntries) : Range(s) \subseteq LogEntries
          BY DEF Range
        <5> QED BY <4>1, <5>1, <5>2, <5>3
      <4>5. x.time < Since(f)
        BY <3>1, <4>3, <4>4, EntryTimes, FrameIs
      <4> QED BY <1>0, <4>4, <4>5, EntryTimes, FrameIs DEF Keeps
    <3> DEFINE older == UpTo(logs, m)
    <3>3. older \in Seq(LogEntries) /\ Range(older) \cap W = {}
      BY <1>2, <3>2
    <3> HIDE DEF older
    <3>4. Those(older, W) = <<>>
      BY <3>3, ThoseAllOrNone
    <3> QED BY <3>4 DEF older
  <2>16. b.rows = h[k].rows \o found
    <3>1. b.rows = h[k].rows \o Reverse(Those(log.entries, W))
      <4> HIDE DEF b
      <4>1. Found(b, h[k], f, authUser, log)
        BY <1>0, <2>7, <2>8, FileIsSearched DEF b, W
      <4> QED BY <4>1 DEF Found, W
    <3> QED BY <3>1
  <2> DEFINE a == h[k].rows
  <2> HIDE DEF Left, l, r, li, ls, t, found, b, Done, a
  <2>17. Reverse(li) = found \o r
    BY <2>11, <2>12, ReverseConcat
  <2>18. (a \o found) \o r = Reverse(ls) /\ (~h[k].more => li = <<>>)
    <3>1. a \in Seq(LogEntries) /\ a \o (found \o r) = Reverse(ls)
      BY <2>13, <2>17 DEF a
    <3>2. a \in Seq(LogEntries) /\ found \in Seq(LogEntries) /\ r \in Seq(LogEntries)
      BY <2>11, <2>12, <3>1
    <3>3. (a \o found) \o r = a \o (found \o r)
      BY ONLY <3>2, EntriesJoin, Zenon
    <3> QED BY <2>13, <3>1, <3>3
  <2>19. CASE ~h[k].more
    <3>1. h[j] = h[k] /\ li = <<>>
      BY <2>6, <2>18, <2>19
    <3>2. l = <<>> /\ t = <<>>
      <4>1. l \in Seq(LogEntries) /\ t \in Seq(LogEntries) /\ l \o t = <<>>
        BY <2>11, <3>1
      <4> QED BY ONLY <4>1, ConcatEqualIffEmpty
    <3>3. r = li
      <4>1. Reverse(<<>>) = <<>>
        BY DEF Reverse
      <4> QED BY <2>12, <3>1, <3>2, <4>1
    <3>4. Reverse(li) = li
      <4>1. Reverse(<<>>) = <<>>
        BY DEF Reverse
      <4> QED BY <3>1, <4>1
    <3>5. h[j].rows \o r = Reverse(ls)
      BY <2>13, <3>1, <3>3, <3>4
    <3> QED BY <2>5, <2>14, <3>2, <3>5
  <2>20. CASE h[k].more
    <3>1. h[j] = b
      BY <2>6, <2>20
    <3>2. h[j].rows \o r = Reverse(ls)
      BY <2>16, <2>18, <3>1 DEF a
    <3>3. b \in Answers
      BY <2>7, <2>8, AnswersOfFile DEF b
    <3>4. ~b.more => l = <<>>
      BY <2>15, <3>3 DEF Answers, Truth
    <3> QED BY <2>5, <2>14, <3>1, <3>2, <3>4
  <2> QED BY <2>19, <2>20
<1> HIDE DEF P
<1>5. P \subseteq Nat
  BY DEF P
<1>6. P = Nat
  BY <1>3, <1>4, <1>5, AllNumbers
<1>7. Done(start, 0)
  <2> HIDE DEF Done
  <2>1. start \in P /\ 0 \in 0 .. start /\ start + 0 = start
    BY <1>1, <1>6
  <2> QED BY <2>1 DEF P
<1>8. Left(0) = <<>>
  <2>1. UpTo(logs, 0) = <<>>
    <3>1. SubSeq(EntriesOf(logs), 1, 0) = <<>>
      BY SubSeqEmpty
    <3> QED BY <3>1 DEF UpTo, FlattenSeq
  <2> QED BY <2>1, ThoseOfNothing
<1>9. Reverse(Left(0)) = <<>>
  <2>1. Reverse(<<>>) = <<>>
    BY DEF Reverse
  <2> QED BY <1>8, <2>1
<1>10. start \in 0 .. start /\ h[start] \in Answers
  BY <1>1 DEF IsWalk
<1>11. h[start].rows \in Seq(LogEntries)
  BY <1>10 DEF Answers
<1> HIDE DEF Left
<1>12. h[start].rows \o <<>> = h[start].rows
  BY <1>11, ConcatEmptySeq
<1> QED BY <1>7, <1>9, <1>12 DEF Left, W

\* No rows are no rows with a limit, too.
LEMMA LimitOfNothing ==
  ASSUME NEW limit \in Limits
  PROVE  FirstOf(<<>>, limit) = <<>>
<1>1. limit = NoLimit \/ limit \in Nat
  BY TableLogAssumption
<1>2. CASE limit = NoLimit
  BY <1>2 DEF FirstOf
<1>3. CASE limit # NoLimit
  <2> DEFINE S == {limit, Len(<<>>)}
  <2>1. S \in SUBSET (0 .. limit) /\ S # {} /\ 0 \in Int /\ limit \in Int /\ 0 \in S
    BY <1>1, <1>3
  <2> DEFINE m == Min(S)
  <2>2. m \in S /\ m <= 0
    <3> HIDE DEF S
    <3> QED BY <2>1, MinAndMax
  <2>3. m = 0
    BY <2>1, <2>2
  <2>4. FirstOf(<<>>, limit) = SubSeq(<<>>, 1, m)
    BY <1>3 DEF FirstOf
  <2> HIDE DEF m
  <2>5. SubSeq(<<>>, 1, 0) = <<>>
    BY SubSeqEmpty
  <2> QED BY <2>3, <2>4, <2>5
<1> QED BY <1>2, <1>3

\* The answer is what the client expects.
LEMMA AnswerIsExpected ==
  ASSUME RefsFit, NEW f \in AllFilters, EvenOrs(f), LeastUpperBoundFor(f, "time") # {MaxInt},
         NEW authUser, NEW limit \in Limits, NEW extra,
         NEW logs, GoodLogs(logs), GoodOrder(logs)
  PROVE  AnswerQuery(logs, f, authUser, limit, extra) = Expected(logs, f, authUser, limit)
<1> DEFINE W == WantedBy(f, authUser)
           loaded == ClassMask(f) \cup extra
           all == FlattenSeq(EntriesOf(logs))
           found == Reverse(Those(all, W))
<1>1. Keeps(f, loaded, W)
  BY FrameHolds DEF Keeps
<1>2. all \in Seq(LogEntries)
  <2>1. Len(logs) \in 0 .. Len(logs)
    BY DEF GoodLogs
  <2>2. EntriesOf(logs) \in Seq(Seq(LogEntries))
    BY <2>1, LogsInParts
  <2> QED BY <2>2, Flattens
<1> HIDE DEF loaded, W
<1>3. Expected(logs, f, authUser, limit) = FirstOf(found, limit)
  <2> DEFINE r == Reverse(all)
             C == {e \in Range(r) : Wanted(f, authUser, e)}
  <2>1. Expected(logs, f, authUser, limit) = FirstOf(Those(r, C), limit)
    BY DEF Expected, Chosen, EntriesOf
  <2>2. r \in Seq(LogEntries)
    BY <1>2, Reverses
  <2> HIDE DEF r
  <2>3. \A x \in Range(r) : x \in LogEntries
    BY <2>2 DEF Range
  <2>4. \A x \in Range(r) : x \in C <=> x \in W
    BY <2>3 DEF W, WantedBy
  <2> HIDE DEF C
  <2>5. Those(r, C) = Those(r, W)
    BY <2>4, ThoseAgree
  <2> HIDE DEF all
  <2>6. Those(r, W) = Reverse(Those(all, W))
    BY <1>2, ThoseReverse DEF r
  <2> QED BY <2>1, <2>5, <2>6
<1> HIDE DEF all
<1>4. ASSUME \A x \in Range(all) : x \notin W PROVE found = <<>>
  <2>1. Range(all) \cap W = {}
    BY <1>4
  <2>2. Those(all, W) = <<>>
    BY <1>2, <2>1, ThoseAllOrNone
  <2>3. Reverse(<<>>) = <<>>
    BY DEF Reverse
  <2> QED BY <2>2, <2>3
<1>5. CASE logs = <<>>
  <2>1. AnswerQuery(logs, f, authUser, limit, extra) = <<>>
    BY <1>5 DEF AnswerQuery
  <2>2. EntriesOf(logs) = <<>>
    BY <1>5 DEF EntriesOf
  <2>3. all = <<>> /\ Range(<<>>) = {}
    BY <2>2 DEF all, FlattenSeq, Range
  <2> QED BY <1>3, <1>4, <2>1, <2>3, LimitOfNothing
<1>6. CASE logs # <<>>
  <2> DEFINE start == NewestFor(logs, Until(f))
  <2>1. Len(logs) > 0
    BY <1>6 DEF GoodLogs
  <2>2. /\ start \in 1 .. Len(logs)
        /\ \A i \in 1 .. Len(logs) : logs[i].first <= Until(f) => i <= start
        /\ start = 1 \/ logs[start].first <= Until(f)
    BY <1>6, <2>1, Walks
  <2>3. PICK h : /\ IsWalk(h, logs, f, authUser, loaded, start)
                 /\ AnswerQuery(logs, f, authUser, limit, extra)
                       = IF ClassMask(f) = {} \/ logs[start].first > Until(f) THEN <<>>
                         ELSE FirstOf(h[start].rows, limit)
    <3>1. PICK h : IsAnswer(h, logs, f, authUser, limit, extra, start)
      BY <1>6, <2>1, Walks
    <3> HIDE DEF start
    <3> QED BY <3>1 DEF IsAnswer, loaded
  <2> HIDE DEF start
  <2>4. start \in 0 .. Len(logs)
    BY <2>2
  <2>5. \A x \in Range(all) : \E i \in 1 .. Len(logs) : x \in Range(logs[i].entries)
    <3>1. Len(logs) \in 0 .. Len(logs)
      BY DEF GoodLogs
    <3> DEFINE E == EntriesOf(logs)
    <3>2. E \in Seq(Seq(LogEntries))
      BY <3>1, LogsInParts
    <3>3. DOMAIN E = 1 .. Len(logs) /\ \A i \in 1 .. Len(logs) : E[i] = logs[i].entries
      BY DEF EntriesOf, GoodLogs
    <3> HIDE DEF E
    <3>4. \A x : x \in Range(FlattenSeq(E)) <=> \E i \in DOMAIN E : x \in Range(E[i])
      BY <3>2, Flattens
    <3> QED BY <3>3, <3>4 DEF all, E
  <2>6. \A i \in 1 .. Len(logs) : logs[i].first > Until(f) =>
           \A x \in Range(logs[i].entries) : x \notin W
    <3> SUFFICES ASSUME NEW i \in 1 .. Len(logs), logs[i].first > Until(f),
                        NEW x \in Range(logs[i].entries), x \in W
                 PROVE  FALSE
      OBVIOUS
    <3>1. x.time < Until(f)
      BY <1>1 DEF Keeps
    <3>2. logs[i].first <= x.time /\ logs[i].first \in Int
      BY DEF GoodOrder
    <3>3. x \in LogEntries
      BY DEF W, WantedBy
    <3> QED BY <3>1, <3>2, <3>3, EntryTimes, FrameIs
  <2>7. CASE ClassMask(f) = {}
    <3>1. \A x : x \notin W
      BY <2>7, FrameHolds DEF W
    <3> QED BY <1>3, <1>4, <2>3, <2>7, <3>1, LimitOfNothing
  <2>8. CASE logs[start].first > Until(f)
    <3>1. logs[start].first \in Int /\ \A i \in 1 .. Len(logs) : logs[i].first \in Int
      BY <2>2 DEF GoodOrder
    <3>2. ~(logs[start].first <= Until(f))
      BY <2>8, <3>1, FrameIs
    <3>3. start = 1
      BY <2>2, <3>2
    <3>4. \A i \in 1 .. Len(logs) : logs[i].first > Until(f)
      <4> SUFFICES ASSUME NEW i \in 1 .. Len(logs), ~(logs[i].first > Until(f)) PROVE FALSE
        OBVIOUS
      <4>1. logs[i].first <= Until(f)
        BY <3>1, FrameIs
      <4>2. i = start
        BY <2>2, <3>3, <4>1
      <4> QED BY <3>2, <4>1, <4>2
    <3>5. \A x \in Range(all) : x \notin W
      BY <2>5, <2>6, <3>4
    <3> QED BY <1>3, <1>4, <2>3, <2>8, <3>5, LimitOfNothing
  <2>9. CASE ~(ClassMask(f) = {} \/ logs[start].first > Until(f))
    <3>1. h[start].rows = Reverse(Those(UpTo(logs, start), W))
      BY <1>1, <2>2, <2>3, WalkFindsAll DEF W
    <3> DEFINE older == UpTo(logs, start)
               newer == Behind(logs, start)
    <3>2. /\ older \in Seq(LogEntries) /\ newer \in Seq(LogEntries) /\ all = older \o newer
          /\ \A x \in Range(newer) : \E i \in 1 .. Len(logs) : i > start /\ x \in Range(logs[i].entries)
      BY <2>4, LogsInParts DEF all
    <3> HIDE DEF older, newer
    <3>3. Those(newer, W) = <<>>
      <4>1. \A i \in 1 .. Len(logs) : i > start => logs[i].first > Until(f)
        <5>1. \A i \in 1 .. Len(logs) : logs[i].first \in Int
          BY DEF GoodOrder
        <5> QED BY <2>2, <5>1, FrameIs
      <4>2. Range(newer) \cap W = {}
        BY <2>6, <3>2, <4>1
      <4> QED BY <3>2, <4>2, ThoseAllOrNone
    <3>4. Those(older \o newer, W) = Those(older, W) \o Those(newer, W)
      BY ONLY <3>2, ThoseConcat
    <3>5. Those(older, W) \o <<>> = Those(older, W)
      BY <3>2, ThoseInSeq, ConcatEmptySeq
    <3>6. Those(all, W) = Those(older, W)
      BY <3>2, <3>3, <3>4, <3>5
    <3> QED BY <1>3, <2>3, <2>9, <3>1, <3>6 DEF older
  <2> QED BY <2>7, <2>8, <2>9
<1> QED BY <1>5, <1>6

\* What a user sees of the lines that name a host is theirs.
LEMMA HostsAreTheirs ==
  ASSUME NEW f, NEW user \in Users, NEW e \in WantedBy(f, user), e.name # NoName
  PROVE  MayBeSeen(e, user)
<1>1. PICK line \in Lines, n \in Nat : e = Entry(line, n)
  BY DEF WantedBy, LogEntries
<1> DEFINE def == DefinitionOf(line)
<1>2. IsAuthorized(user, e)
  BY TableLogAssumption DEF WantedBy, Wanted
<1>3. CASE e.name \in KnownHosts
  <2>1. IsAuthorizedFor(user, e)
    BY <1>2, <1>3 DEF IsAuthorized
  <2>2. user.authorization = "strict" => user.authorization # "loose"
    OBVIOUS
  <2>3. CASE ServiceOf(e) \in KnownServices
    BY <1>3, <2>1, <2>2, <2>3 DEF IsAuthorizedFor, MayBeSeen
  <2>4. CASE ServiceOf(e) \notin KnownServices
    BY <1>3, <2>1, <2>4 DEF IsAuthorizedFor, MayBeSeen
  <2> QED BY <2>3, <2>4
<1>4. CASE e.name \notin KnownHosts
  <2> HIDE DEF def
  <2>1. Entry(line, n).class = ClassNumber[def.class] /\ Entry(line, n).name = Field(def, line, "host", NoName)
    BY DEF Entry, def
  <2>2. e.class = ClassNumber[def.class] /\ e.name = Field(def, line, "host", NoName)
    BY ONLY <1>1, <2>1
  <2>3. e.class \notin {ClassNumber[class] : class \in HostClasses}
    BY <1>2, <1>4 DEF IsAuthorized
  <2>4. def.class \notin HostClasses
    BY <2>2, <2>3
  <2>5. def.params = <<>>
    BY <2>4, ClassesOfLines DEF def
  <2>6. Field(def, line, "host", NoName) = NoName
    BY <2>5 DEF Field
  <2>7. e.name = NoName
    BY ONLY <2>2, <2>6
  <2> QED BY <2>7
<1> QED BY <1>3, <1>4

\* The fields of a notification in the other order make the same entry.
LEMMA OrderOfFields ==
  ASSUME NEW line \in Lines, NotifiesByCheckMk(line), NEW n
  PROVE  /\ Entry(OtherOrder(line), n) = Entry(line, n)
         /\ OtherOrder(line).stamped = line.stamped /\ OtherOrder(line).time = line.time
<1> DEFINE def == DefinitionOf(line)
           other == OtherOrder(line)
           command == Field(def, line, "command", NoState)
           type == Field(def, line, "statetype", NoState)
           checkMk == <<"check-mk-notify">>
           At(i) == CASE def.params[i] = "statetype" -> command
                      [] def.params[i] = "command" -> type
                      [] OTHER -> line.fields[i]
           fields == [i \in DOMAIN def.params |-> At(i)]
<1>1. CASE def.class # "hs_notification"
  <2>1. other = line
    BY <1>1 DEF OtherOrder
  <2> QED BY <2>1
<1>2. CASE def.class = "hs_notification"
  <2>1. DOMAIN line.fields = DOMAIN def.params /\ command = checkMk /\ type # checkMk
    BY <1>2 DEF NotifiesByCheckMk
  <2>2. other = [line EXCEPT !.fields = fields]
    BY <1>2 DEF OtherOrder
  <2>3. DOMAIN line = {"stamped", "time", "text", "fields", "phrases"}
    BY TableLogAssumption
  <2> HIDE DEF other, fields, def
  <2>4. /\ other.fields = fields /\ other.text = line.text /\ other.phrases = line.phrases
        /\ other.time = line.time /\ other.stamped = line.stamped
    BY <2>2, <2>3
  <2>5. DefinitionOf(other) = def
    BY <2>4 DEF DefinitionOf, ClassifyPhrases, Has, def
  <2> DEFINE Places(par) == {i \in DOMAIN def.params : def.params[i] = par}
             Place(par) == CHOOSE i \in Places(par) : TRUE
  <2>6. DOMAIN fields = DOMAIN def.params /\ \A i \in DOMAIN def.params : fields[i] = At(i)
    BY DEF fields
  <2>7. ASSUME NEW par, NEW empty
        PROVE  /\ Field(def, line, par, empty) = IF Places(par) = {} THEN empty ELSE line.fields[Place(par)]
               /\ Field(def, other, par, empty) = IF Places(par) = {} THEN empty ELSE fields[Place(par)]
    <3> DEFINE F(l) == {i \in DOMAIN def.params : def.params[i] = par /\ i \in DOMAIN l.fields}
               Choice(S) == CHOOSE i \in S : TRUE
    <3>1. F(line) = Places(par)
      BY <2>1
    <3>2. F(other) = Places(par)
      BY <2>4, <2>6
    <3>3. \A l : Field(def, l, par, empty) = IF F(l) = {} THEN empty ELSE l.fields[Choice(F(l))]
      BY DEF Field
    <3>4. Place(par) = Choice(Places(par))
      OBVIOUS
    <3> HIDE DEF Places, Place, F, Choice
    <3> QED BY <2>4, <3>1, <3>2, <3>3, <3>4
  <2>8. \A par : Places(par) # {} => Place(par) \in DOMAIN def.params /\ def.params[Place(par)] = par
    OBVIOUS
  <2>9. ASSUME NEW par, NEW empty, par # "statetype", par # "command"
        PROVE  Field(def, other, par, empty) = Field(def, line, par, empty)
    <3> HIDE DEF Places, Place
    <3> QED BY <2>6, <2>7, <2>8, <2>9
  <2>10. Field(def, other, "statetype", NoState) = IF Places("statetype") = {} THEN NoState ELSE command
    <3> HIDE DEF Places, Place, command, type
    <3> QED BY <2>6, <2>7, <2>8
  <2>11. Field(def, other, "command", NoState) = IF Places("command") = {} THEN NoState ELSE type
    <3> HIDE DEF Places, Place, command, type
    <3> QED BY <2>6, <2>7, <2>8
  <2>12. NoState # checkMk
    <3>1. NoName # "check-mk-notify"
      BY Zenon DEF NoName
    <3> QED BY <3>1 DEF NoState
  <2>13. (Places("command") = {} => command = NoState) /\ (Places("statetype") = {} => type = NoState)
    <3> HIDE DEF Places, Place
    <3> QED BY <2>7
  <2> HIDE DEF Places, Place, command, type, checkMk
  <2>14. StateType(def, other) = StateType(def, line)
    <3>1. StateType(def, line) = IF type = checkMk THEN command ELSE type
      BY <1>2 DEF StateType, type, command, checkMk, def
    <3>2. StateType(def, other) = IF Field(def, other, "statetype", NoState) = checkMk
                                  THEN Field(def, other, "command", NoState)
                                  ELSE Field(def, other, "statetype", NoState)
      BY <1>2 DEF StateType, checkMk, def
    <3> QED BY <2>1, <2>10, <2>11, <2>12, <2>13, <3>1, <3>2
  <2>15. /\ Field(def, other, "svc", NoName) = Field(def, line, "svc", NoName)
         /\ Field(def, other, "host", NoName) = Field(def, line, "host", NoName)
    BY <2>9
  <2>16. State(def, other) = State(def, line)
    <3> DEFINE Of(l) == IF StateType(def, l) = NoState THEN 0
                        ELSE IF Field(def, l, "svc", NoName) = NoName
                        THEN ParseHostState(StateType(def, l))
                        ELSE ParseServiceState(StateType(def, l))
    <3>1. State(def, other) = Of(other)
      BY <1>2 DEF State, def
    <3>2. State(def, line) = Of(line)
      BY <1>2 DEF State, def
    <3>3. Of(other) = Of(line)
      BY <2>14, <2>15
    <3> QED BY <3>1, <3>2, <3>3
  <2>17. Entry(other, n) = Entry(line, n)
    BY <2>4, <2>5, <2>15, <2>16 DEF Entry, def
  <2> QED BY <2>4, <2>17 DEF other
<1> QED BY <1>1, <1>2

OtherLog(log) == [i \in DOMAIN log |-> OtherOrder(log[i])]

\* A log has the same entries in whichever order its fields are.
LEMMA OrderOfLog ==
  ASSUME NEW log \in Seq(Lines), \A line \in Range(log) : NotifiesByCheckMk(line)
  PROVE  Entries(OtherLog(log)) = Entries(log) /\ OtherLog(log)[1].time = log[1].time
<1> DEFINE n == Len(log)
           other == OtherLog(log)
<1>1. n \in Nat /\ DOMAIN log = 1 .. n /\ \A i \in 1 .. n : log[i] \in Lines /\ NotifiesByCheckMk(log[i])
  BY DEF Range
<1>2. DOMAIN other = 1 .. n /\ Len(other) = n /\ \A i \in 1 .. n : other[i] = OtherOrder(log[i])
  BY <1>1 DEF OtherLog
<1>3. /\ \A i \in 1 .. n : Entry(other[i], i) = Entry(log[i], i)
      /\ \A i \in 1 .. n : other[i].stamped = log[i].stamped /\ other[i].time = log[i].time
  BY <1>1, <1>2, OrderOfFields
<1>4. IsLog(log)
  BY LinesMakeLogs
<1>5. IsLog(other)
  BY <1>1, <1>2, <1>3, <1>4 DEF IsLog
<1>6. PICK es : Collects(es, log) /\ Entries(log) = es[n]
  BY <1>4, EntriesOfLog
<1>7. PICK os : Collects(os, other) /\ Entries(other) = os[n]
  BY <1>2, <1>5, EntriesOfLog
<1> HIDE DEF n, other
<1> DEFINE P == {i \in Nat : i <= n => os[i] = es[i]}
<1>8. 0 \in P
  BY <1>6, <1>7 DEF Collects
<1>9. ASSUME NEW i \in P PROVE i + 1 \in P
  <2>1. i \in Nat
    OBVIOUS
  <2> SUFFICES ASSUME i + 1 <= n PROVE os[i + 1] = es[i + 1]
    BY <2>1
  <2>2. PICK k \in 1 .. n : k = i + 1 /\ k - 1 = i
    BY <1>1, <2>1
  <2>3. os[i] = es[i]
    BY <1>1, <2>1
  <2> HIDE DEF P
  <2>4. /\ es[k] = IF log[k].stamped THEN Insert(es[k - 1], Entry(log[k], k)) ELSE es[k - 1]
        /\ os[k] = IF other[k].stamped THEN Insert(os[k - 1], Entry(other[k], k)) ELSE os[k - 1]
    BY <1>2, <1>6, <1>7 DEF Collects, n
  <2> QED BY <1>3, <2>2, <2>3, <2>4
<1> HIDE DEF P
<1>10. P \subseteq Nat
  BY DEF P
<1>11. P = Nat
  BY <1>8, <1>9, <1>10, AllNumbers
<1>12. Entries(other) = Entries(log)
  BY <1>1, <1>6, <1>7, <1>11 DEF P
<1>13. other[1].time = log[1].time
  <2>1. CASE n = 0
    <3>1. log = <<>>
      BY <2>1, EmptySeq DEF n
    <3>2. other = log
      BY <3>1 DEF other, OtherLog
    <3> QED BY <3>2
  <2>2. CASE n # 0
    <3>1. 1 \in 1 .. n
      BY <1>1, <2>2
    <3> QED BY <1>3, <3>1
  <2> QED BY <2>1, <2>2
<1> QED BY <1>12, <1>13 DEF other

\* The two archives with a line for every text have the same entries.
LEMMA OrderOfTexts == LogsOfOtherTexts = LogsOfTexts
<1>1. /\ AllTexts \in Seq(Seq(Lines))
      /\ \A log \in Range(AllTexts) : \A line \in Range(log) : NotifiesByCheckMk(line)
  BY TableLogAssumption
<1>2. DOMAIN OtherTexts = DOMAIN AllTexts /\ \A i \in DOMAIN AllTexts : OtherTexts[i] = OtherLog(AllTexts[i])
  BY DEF OtherTexts, OtherLog
<1>3. ASSUME NEW i \in DOMAIN AllTexts
      PROVE  Entries(OtherTexts[i]) = Entries(AllTexts[i]) /\ OtherTexts[i][1].time = AllTexts[i][1].time
  <2> DEFINE log == AllTexts[i]
  <2>1. log \in Seq(Lines) /\ log \in Range(AllTexts)
    BY <1>1 DEF Range
  <2> HIDE DEF log
  <2>2. Entries(OtherLog(log)) = Entries(log) /\ OtherLog(log)[1].time = log[1].time
    BY <1>1, <2>1, OrderOfLog
  <2> QED BY <1>2, <2>2 DEF log
<1> QED BY <1>2, <1>3 DEF LogsOfOtherTexts, LogsOfTexts, Logs

------------------------------------------------------------------------------
(* The answers of the log table *)

\* Whatever the filters of a query on the log, and whatever classes earlier
\* queries have left in the cache, the walk through the files gives exactly the
\* lines that the client asks for, the newest first, as many as it wants: the
\* bounds by which TableLog::answerQuery chooses the first file, the classes and
\* the end of the walk lose no line, change no order and count none twice.
THEOREM LogIsAnsweredExactly ==
  ASSUME RefsFit
  PROVE  Spec => []LogAnswerExact
<1>1. IInv => LogAnswerExact
  <2> SUFFICES ASSUME IInv, EvenOrs(Filter), LeastUpperBoundFor(Filter, "time") # {MaxInt},
                      NEW logs \in AllLogs, NEW authUser \in Users \cup {NoUser}, NEW limit \in Limits,
                      NEW extra \in {{}, Range(ClassNumber)}
               PROVE  AnswerQuery(logs, Filter, authUser, limit, extra)
                          = Expected(logs, Filter, authUser, limit)
    BY DEF LogAnswerExact
  <2>1. Filter \in AllFilters
    BY FilterSelects
  <2>2. PICK archive \in Archives : logs = Logs(archive)
    BY DEF AllLogs
  <2>3. archive \in Seq(Seq(Lines)) /\ InOrder(archive)
    BY TableLogAssumption
  <2>4. GoodLogs(logs) /\ GoodOrder(logs)
    BY <2>2, <2>3, ArchiveIsGood
  <2> QED BY <2>1, <2>4, AnswerIsExpected
<1> QED BY <1>1, InitHolds, StepHolds, PTL DEF Spec

\* A user is shown no line that names a host which no longer exists, and a line
\* of a host only as a contact of the host or of the service that it names, with
\* strict authorization of the service itself, whatever the text of the line and
\* the filters of the query: the classes of the table of texts are those that
\* TableLog::isAuthorized hides.
THEOREM UsersSeeOnlyTheirHosts == Spec => []UsersSeeTheirHosts
<1>1. IInv => UsersSeeTheirHosts
  <2> SUFFICES ASSUME IInv, NEW user \in Users
               PROVE  LET rows == AnswerQuery(LogsOfTexts, Filter, user, NoLimit, {})
                      IN  \A i \in DOMAIN rows : rows[i].name # NoName => MayBeSeen(rows[i], user)
    BY DEF UsersSeeTheirHosts
  <2> DEFINE logs == LogsOfTexts
             start == NewestFor(logs, Until(Filter))
             answer == AnswerQuery(logs, Filter, user, NoLimit, {})
             loaded == ClassMask(Filter) \cup {}
  <2>1. Filter \in AllFilters
    BY FilterSelects
  <2>2. GoodLogs(logs)
    BY TableLogAssumption, ArchiveIsGood DEF LogsOfTexts
  <2>3. logs = <<>> => answer = <<>>
    BY DEF AnswerQuery
  <2> HIDE DEF logs, answer
  <2>5. ASSUME logs # <<>>, NEW i \in DOMAIN answer, answer[i].name # NoName
        PROVE  MayBeSeen(answer[i], user)
    <3>1. Len(logs) > 0
      BY <2>2, <2>5 DEF GoodLogs
    <3>2. start \in 1 .. Len(logs)
      BY <2>1, <2>2, <2>5, <3>1, Walks
    <3>3. PICK h : IsAnswer(h, logs, Filter, user, NoLimit, {}, start)
      BY <2>1, <2>2, <2>5, <3>1, Walks
    <3> HIDE DEF start
    <3>4. IsWalk(h, logs, Filter, user, loaded, start)
      BY <3>3 DEF IsAnswer
    <3>5. answer = <<>> \/ answer = h[start].rows
      BY <3>3 DEF IsAnswer, answer, FirstOf
    <3>6. answer = h[start].rows
      BY <2>5, <3>5
    <3> HIDE DEF loaded
    <3>7. h[start].rows \in Seq(LogEntries) /\ Range(h[start].rows) \subseteq WantedBy(Filter, user)
      BY <2>1, <2>2, <3>2, <3>4, WalkFindsWanted
    <3>8. answer[i] \in WantedBy(Filter, user)
      BY <2>5, <3>6, <3>7 DEF Range
    <3> QED BY <2>5, <3>8, HostsAreTheirs
  <2> QED BY <2>3, <2>5 DEF logs, answer
<1> QED BY <1>1, InitHolds, StepHolds, PTL DEF Spec

\* A log is answered alike whether its notifications were written with the state
\* type and the command in their places or swapped: LogEntry::applyWorkarounds.
THEOREM NotificationsAreReadAlike == Spec => []NotificationsReadAlike
<1>1. NotificationsReadAlike
  BY OrderOfTexts DEF NotificationsReadAlike
<1> QED BY <1>1, PTL

------------------------------------------------------------------------------
(* What a report reads of the log *)

\* The logs as a cache holds them that has these classes loaded.
Held(logs, classes) ==
  [i \in DOMAIN logs |-> [first |-> logs[i].first, entries |-> EntriesFor(logs, classes)[i]]]

\* Logs of which not all classes are loaded are as good as the logs.
LEMMA HeldLogs ==
  ASSUME NEW classes, NEW logs, GoodLogs(logs), GoodOrder(logs)
  PROVE  /\ GoodLogs(Held(logs, classes)) /\ GoodOrder(Held(logs, classes))
         /\ Len(Held(logs, classes)) = Len(logs)
         /\ EntriesOf(Held(logs, classes)) = EntriesFor(logs, classes)
         /\ \A i \in 1 .. Len(logs) : /\ Held(logs, classes)[i].first = logs[i].first
                                      /\ Held(logs, classes)[i].entries = EntriesFor(logs, classes)[i]
<1> DEFINE held == Held(logs, classes)
           E == EntriesFor(logs, classes)
           n == Len(logs)
<1>1. n \in Nat /\ DOMAIN logs = 1 .. n
  BY DEF GoodLogs
<1>2. DOMAIN held = 1 .. n /\ Len(held) = n
  BY <1>1 DEF Held
<1>3. \A i \in 1 .. n : held[i].first = logs[i].first /\ held[i].entries = E[i]
  BY <1>1 DEF Held
<1>4. EntriesOf(held) = E
  <2>1. DOMAIN E = 1 .. n /\ E = [i \in 1 .. n |-> E[i]]
    BY <1>1 DEF EntriesFor
  <2>2. EntriesOf(held) = [i \in 1 .. n |-> held[i].entries]
    BY <1>2 DEF EntriesOf
  <2> HIDE DEF held, E, n
  <2> QED BY <1>3, <2>1, <2>2
<1>5. ASSUME NEW i \in 1 .. n
      PROVE  /\ E[i] \in Seq(LogEntries) /\ Ordered(E[i])
             /\ Range(E[i]) \subseteq Range(logs[i].entries)
  <2> DEFINE all == logs[i].entries
             kept == {e \in Range(all) : e.class \in classes}
  <2>1. all \in Seq(LogEntries) /\ Ordered(all)
    BY DEF GoodLogs
  <2>2. E[i] = Those(all, kept)
    BY <1>1 DEF EntriesFor
  <2> HIDE DEF all, kept
  <2>3. Those(all, kept) \in Seq(LogEntries) /\ Ordered(Those(all, kept))
        /\ Range(Those(all, kept)) = Range(all) \cap kept
    BY <2>1, ThoseInSeq, ThoseOrdered, ThoseRange
  <2> QED BY <2>2, <2>3 DEF all
<1> HIDE DEF held, E, n
<1>6. GoodLogs(held)
  BY <1>1, <1>2, <1>3, <1>5 DEF GoodLogs
<1>7. GoodOrder(held)
  BY <1>1, <1>2, <1>3, <1>5 DEF GoodOrder, n
<1> QED BY <1>2, <1>3, <1>4, <1>6, <1>7 DEF held, E, n

\* The logs, one after the other, are in the order of time.
LEMMA LogsAreOrdered ==
  ASSUME NEW logs, GoodLogs(logs), GoodOrder(logs)
  PROVE  Ordered(FlattenSeq(EntriesOf(logs)))
<1> DEFINE n == Len(logs)
           P == {m \in Nat : m <= n => Ordered(UpTo(logs, m))}
<1>1. n \in Nat /\ n \in 0 .. n
  BY DEF GoodLogs
<1>2. 0 \in P
  <2>1. UpTo(logs, 0) \in Seq(LogEntries) /\ \A x : x \in Range(UpTo(logs, 0)) <=> \E i \in 1 .. 0 : x \in Range(logs[i].entries)
    BY <1>1, LogsInParts
  <2>2. DOMAIN UpTo(logs, 0) = {}
    BY <2>1 DEF Range
  <2> QED BY <2>2 DEF Ordered
<1>3. ASSUME NEW k \in P PROVE k + 1 \in P
  <2>1. k \in Nat
    OBVIOUS
  <2> SUFFICES ASSUME k + 1 <= n PROVE Ordered(UpTo(logs, k + 1))
    BY <2>1
  <2>2. PICK m \in 1 .. n : m = k + 1 /\ m - 1 = k /\ k \in 0 .. n
    BY <1>1, <2>1
  <2>3. Ordered(UpTo(logs, k))
    BY <1>1, <2>1
  <2> HIDE DEF P
  <2> DEFINE older == UpTo(logs, k)
             mine == logs[m].entries
  <2>4. UpTo(logs, m) = older \o mine
    BY <2>2, UpToNext
  <2>5. mine \in Seq(LogEntries) /\ Ordered(mine)
    BY DEF GoodLogs
  <2>6. older \in Seq(LogEntries) /\ \A x : x \in Range(older) <=> \E i \in 1 .. k : x \in Range(logs[i].entries)
    BY <2>2, LogsInParts
  <2>7. ASSUME NEW x \in Range(older), NEW y \in Range(mine) PROVE x.time <= y.time
    <3>1. PICK i \in 1 .. k : x \in Range(logs[i].entries)
      BY <2>6
    <3>2. i \in 1 .. n /\ i < m
      BY <2>2
    <3>3. x.time <= logs[m].first /\ logs[m].first <= y.time /\ logs[m].first \in Int
      BY <3>1, <3>2 DEF GoodOrder
    <3>4. x \in LogEntries /\ y \in LogEntries
      BY <2>5, <2>6 DEF Range
    <3> QED BY <3>3, <3>4, EntryTimes
  <2> HIDE DEF older, mine
  <2> QED BY <2>2, <2>3, <2>4, <2>5, <2>6, <2>7, OrderedConcat DEF older
<1> HIDE DEF P
<1>4. P \subseteq Nat
  BY DEF P
<1>5. P = Nat
  BY <1>2, <1>3, <1>4, AllNumbers
<1>6. Ordered(UpTo(logs, n))
  BY <1>1, <1>5 DEF P
<1>7. FlattenSeq(EntriesOf(logs)) = UpTo(logs, n)
  <2> DEFINE E == EntriesOf(logs)
  <2>1. E \in Seq(Seq(LogEntries))
    BY <1>1, LogsInParts
  <2>2. Len(E) = n
    BY DEF EntriesOf, GoodLogs
  <2> HIDE DEF E
  <2>3. SubSeq(E, 1, n) = E
    BY <2>1, <2>2
  <2> QED BY <2>3 DEF UpTo, E
<1> QED BY <1>6, <1>7

Before(until) == {e \in LogEntries : e.time < until}

\* To read on until an entry is too young is to read those that are not.
LEMMA ReadsUntil ==
  ASSUME NEW until \in Int, NEW unread \in Seq(LogEntries), Ordered(unread)
  PROVE  SubSeq(unread, 1, EndOf(unread, {i \in DOMAIN unread : unread[i].time >= until}))
            = Those(unread, Before(until))
<1> DEFINE tooYoung == {i \in DOMAIN unread : unread[i].time >= until}
           k == EndOf(unread, tooYoung)
           read == SubSeq(unread, 1, k)
           n == Len(unread)
           W == Before(until)
<1>1. n \in Nat /\ DOMAIN unread = 1 .. n /\ \A i \in 1 .. n : unread[i] \in LogEntries /\ unread[i].time \in Int
  BY EntryTimes
<1>2. k \in 0 .. n /\ (\A i \in 1 .. k : i \notin tooYoung) /\ (k = n \/ k + 1 \in tooYoung)
  BY EndsThere
<1>9. \A i \in 1 .. n : i \in tooYoung <=> unread[i].time >= until
  BY <1>1
<1> HIDE DEF k, tooYoung, n
<1>3. \A i \in DOMAIN unread : i > k => unread[i] \notin W
  <2> SUFFICES ASSUME NEW i \in 1 .. n, i > k PROVE unread[i] \notin W
    BY <1>1
  <2>1. PICK j \in 1 .. n : j = k + 1 /\ j <= i /\ k # n
    BY ONLY <1>1, <1>2, i \in 1 .. n, i > k
  <2>2. unread[j].time >= until
    BY <1>2, <1>9, <2>1
  <2>3. unread[j].time <= unread[i].time
    <3>1. CASE i = j
      BY <1>1, <3>1
    <3>2. CASE j < i
      BY <1>1, <3>2 DEF Ordered
    <3> QED BY <2>1, <3>1, <3>2
  <2>4. ~(unread[i].time < until)
    BY <1>1, <2>2, <2>3
  <2> QED BY <2>4 DEF Before
<1>4. ASSUME NEW i \in 1 .. k PROVE unread[i] \in W
  <2>1. i \in 1 .. n
    BY <1>1, <1>2
  <2>2. ~(unread[i].time >= until)
    BY <1>2, <1>9, <2>1
  <2>3. unread[i].time < until
    BY <1>1, <2>1, <2>2
  <2> QED BY <1>1, <2>1, <2>3 DEF Before
<1> HIDE DEF W
<1>5. Those(read, W) = Those(unread, W)
  BY <1>2, <1>3, ThoseOfPrefix DEF n
<1>6. read \in Seq(LogEntries) /\ DOMAIN read = 1 .. k /\ \A i \in 1 .. k : read[i] = unread[i]
  BY <1>2, PartOf, PartElements DEF n
<1> HIDE DEF read
<1>7. Range(read) \subseteq W
  BY <1>4, <1>6 DEF Range
<1>8. Those(read, W) = read
  BY <1>6, <1>7, ThoseAllOrNone
<1> QED BY <1>5, <1>8 DEF read, k, W, tooYoung

\* The entries that a report leaves out at the beginning.
Skipped(e, logs, classes, since) ==
  \/ e.time < since
  \/ \E i \in DOMAIN logs :
        EntriesFor(logs, classes)[i] # <<>> /\ e = Head(EntriesFor(logs, classes)[i])

\* What a report reads, and what it leaves out before.
IsReadAfter(dropped, logs, since, until, classes) ==
  /\ ReadEntries(logs, since, until, classes) \in Seq(LogEntries)
  /\ dropped \in Seq(LogEntries)
  /\ Those(FlattenSeq(EntriesFor(logs, classes)), Before(until))
        = dropped \o ReadEntries(logs, since, until, classes)
  /\ \A e \in Range(dropped) : Skipped(e, logs, classes, since)

\* The part of a log from an entry on leaves this much of it out.
SkipsTo(skip, mine, start, since) ==
  /\ SubSeq(mine, start + 1, Len(mine)) = SubSeq(mine, skip + 1, Len(mine))
  /\ \A e \in Range(SubSeq(mine, 1, skip)) :
        e.time < since \/ (mine # <<>> /\ e = Head(mine))

\* Before the entry to begin with there are only entries older than the time
\* frame, and the first one of its log.
LEMMA FirstLogSkips ==
  ASSUME NEW mine \in Seq(LogEntries), Ordered(mine), NEW newest, NEW since \in Int
  PROVE  \E skip \in 0 .. Len(mine) : SkipsTo(skip, mine, InitialPosition(mine, newest, since), since)
<1> DEFINE n == Len(mine)
           start == InitialPosition(mine, newest, since)
<1>1. n \in Nat /\ DOMAIN mine = 1 .. n /\ \A i \in 1 .. n : mine[i].time \in Int
  BY EntryTimes
<1>2. CASE n = 0
  <2>1. start = 1 /\ mine = <<>>
    BY <1>2, EmptySeq DEF InitialPosition
  <2>2. SubSeq(mine, start + 1, Len(mine)) = SubSeq(mine, 0 + 1, Len(mine))
    BY <1>2, <2>1
  <2>3. Range(SubSeq(mine, 1, 0)) = {}
    BY DEF Range
  <2>4. SkipsTo(0, mine, start, since)
    <3> HIDE DEF start
    <3> QED BY ONLY <2>2, <2>3, Zenon DEF SkipsTo
  <2>5. 0 \in 0 .. n
    BY <1>1
  <2> QED BY <2>4, <2>5
<1>3. CASE n > 0 /\ start = 1
  <2>1. 1 \in 0 .. n /\ mine # <<>> /\ Head(mine) = mine[1]
    BY <1>1, <1>3
  <2>2. \A e \in Range(SubSeq(mine, 1, 1)) : e = mine[1]
    BY <2>1, PartElements DEF Range
  <2>3. SkipsTo(1, mine, start, since)
    BY <1>3, <2>1, <2>2 DEF SkipsTo
  <2> QED BY <2>1, <2>3
<1>4. CASE n > 0 /\ start # 1
  <2>1. start = n /\ mine[n].time < since
    BY <1>4 DEF InitialPosition, Last
  <2>2. n \in 0 .. n /\ n \in 1 .. n
    BY <1>1, <1>4
  <2>3. ASSUME NEW e \in Range(SubSeq(mine, 1, n)) PROVE e.time < since
    <3>1. PICK i \in 1 .. n : e = mine[i]
      BY <2>2, PartElements DEF Range
    <3>2. mine[i].time <= mine[n].time
      <4>1. CASE i = n
        BY <1>1, <4>1
      <4>2. CASE i < n
        BY <1>1, <2>2, <4>2 DEF Ordered
      <4>3. i = n \/ i < n
        BY ONLY i \in 1 .. n, n \in Nat, <1>1
      <4> QED BY <4>1, <4>2, <4>3
    <3> QED BY <1>1, <2>1, <2>2, <3>1, <3>2
  <2>4. SkipsTo(n, mine, start, since)
    BY <2>1, <2>3 DEF SkipsTo, n
  <2> QED BY <2>2, <2>4
<1> HIDE DEF start
<1> QED BY <1>1, <1>2, <1>3, <1>4

\* A report reads on to the end of its time frame, from an entry before which
\* there is nothing of the frame but the first one of a log.
LEMMA ReportIsReadAfter ==
  ASSUME NEW since \in Int, NEW until \in Int, since < until, NEW classes,
         NEW logs, GoodLogs(logs), GoodOrder(logs), logs # <<>>, Len(logs) > 0
  PROVE  \E dropped : IsReadAfter(dropped, logs, since, until, classes)
<1> DEFINE E == EntriesFor(logs, classes)
           held == Held(logs, classes)
           n == Len(logs)
           first == FirstLog(logs, since)
           W == Before(until)
           read == ReadEntries(logs, since, until, classes)
           all == FlattenSeq(E)
<1>1. n \in Nat /\ n > 0 /\ DOMAIN logs = 1 .. n /\ \A i \in 1 .. n : logs[i].first \in Int
  BY DEF GoodLogs, GoodOrder
<1>2. first \in 1 .. n /\ (first = 1 \/ logs[first].first < since)
  <2> DEFINE S == {1} \cup {i \in DOMAIN logs : logs[i].first < since}
  <2>1. S \in SUBSET (1 .. n) /\ S # {} /\ 1 \in Int /\ n \in Int
    BY <1>1
  <2>2. first = Max(S)
    BY DEF FirstLog
  <2> HIDE DEF S, first
  <2>3. first \in S
    BY <2>1, <2>2, MinAndMax
  <2> QED BY <2>1, <2>3 DEF S
<1>3. /\ GoodLogs(held) /\ GoodOrder(held) /\ Len(held) = n /\ EntriesOf(held) = E
      /\ \A i \in 1 .. n : held[i].first = logs[i].first /\ held[i].entries = E[i]
  BY HeldLogs
<1> DEFINE older == UpTo(held, first - 1)
           mine == E[first]
           newer == Behind(held, first)
           start == InitialPosition(mine, first = n, since)
           unread == SubSeq(mine, start + 1, Len(mine)) \o newer
           tooYoung == {i \in DOMAIN unread : unread[i].time >= until}
<1>4. read = IF logs[first].first > until THEN <<>> ELSE SubSeq(unread, 1, EndOf(unread, tooYoung))
  <2>1. newer = FlattenSeq(SubSeq(E, first + 1, n))
    BY <1>3 DEF Behind
  <2> QED BY <2>1 DEF ReadEntries, EndOf
<1> HIDE DEF first, held, n
<1>5. first - 1 \in 0 .. n /\ first \in 0 .. n /\ first \in Int
  BY <1>1, <1>2
<1>6. /\ older \in Seq(LogEntries) /\ newer \in Seq(LogEntries)
      /\ all = UpTo(held, first) \o newer
      /\ \A x : x \in Range(older) <=> \E i \in 1 .. first - 1 : x \in Range(held[i].entries)
  BY <1>3, <1>5, LogsInParts
<1>7. UpTo(held, first) = older \o mine
  BY <1>2, <1>3, UpToNext
<1>8. mine \in Seq(LogEntries) /\ Ordered(mine)
  BY <1>2, <1>3 DEF GoodLogs
<1>9. all \in Seq(LogEntries) /\ Ordered(all)
  <2>1. Ordered(all)
    BY <1>3, LogsAreOrdered
  <2>2. UpTo(held, first) \in Seq(LogEntries)
    BY <1>3, <1>5, LogsInParts
  <2> HIDE DEF all
  <2> QED BY <1>6, <2>1, <2>2, ConcatProperties
<1>10. \A x \in Range(all) : x \in LogEntries
  BY <1>9 DEF Range
<1> HIDE DEF older, newer, mine, all, read
<1>11. CASE logs[first].first > until
  <2>1. first = 1
    BY <1>1, <1>2, <1>11
  <2>2. ASSUME NEW x \in Range(all) PROVE x \notin W
    <3>1. PICK i \in 1 .. n : x \in Range(held[i].entries)
      <4>1. n \in 0 .. n
        BY <1>1
      <4>2. /\ all = UpTo(held, 1) \o Behind(held, 1)
            /\ UpTo(held, 1) \in Seq(LogEntries) /\ Behind(held, 1) \in Seq(LogEntries)
            /\ \A y : y \in Range(UpTo(held, 1)) <=> \E i \in 1 .. 1 : y \in Range(held[i].entries)
            /\ \A y \in Range(Behind(held, 1)) : \E i \in 1 .. n : i > 1 /\ y \in Range(held[i].entries)
        BY <1>3, <1>5, <2>1, LogsInParts DEF all
      <4>3. Range(all) = Range(UpTo(held, 1)) \cup Range(Behind(held, 1))
        BY <4>2, RangeConcat
      <4>4. \A i \in 1 .. 1 : i \in 1 .. n
        BY <1>1
      <4> QED BY <4>2, <4>3, <4>4
    <3>2. logs[1].first <= logs[i].first
      <4>1. 1 \in 1 .. n /\ i \in 1 .. n /\ (i = 1 \/ 1 < i)
        BY <1>1
      <4> QED BY <1>1, <4>1 DEF GoodOrder, n
    <3>3. held[i].first <= x.time
      BY <1>3, <3>1 DEF GoodOrder
    <3>4. x.time \in Int
      BY <1>10, EntryTimes
    <3>5. ~(x.time < until)
      BY <1>1, <1>2, <1>3, <1>11, <2>1, <3>2, <3>3, <3>4
    <3> QED BY <3>5 DEF Before
  <2>3. Those(all, W) = <<>>
    BY <1>9, <2>2, ThoseAllOrNone
  <2>4. read = <<>> /\ <<>> \o <<>> = <<>> /\ <<>> \in Seq(LogEntries) /\ Range(<<>>) = {}
    BY <1>4, <1>11 DEF Range
  <2>5. IsReadAfter(<<>>, logs, since, until, classes)
    BY <2>3, <2>4 DEF IsReadAfter, all, read
  <2> QED BY <2>5
<1>12. CASE ~(logs[first].first > until)
  <2>1. PICK skip \in 0 .. Len(mine) : SkipsTo(skip, mine, start, since)
    BY <1>8, FirstLogSkips
  <2> DEFINE u == SubSeq(mine, 1, skip)
             v == SubSeq(mine, skip + 1, Len(mine))
             front == older \o u
             dropped == Those(front, W)
  <2>2. u \in Seq(LogEntries) /\ v \in Seq(LogEntries) /\ mine = u \o v
    BY <1>8, PartOf
  <2>3. unread = v \o newer
    BY <2>1 DEF SkipsTo
  <2> HIDE DEF u, v, start, unread, tooYoung
  <2>4. all = (older \o u) \o (v \o newer)
    <3>1. all = (older \o (u \o v)) \o newer
      BY <1>6, <1>7, <2>2
    <3>2. /\ older \o (u \o v) = (older \o u) \o v
          /\ ((older \o u) \o v) \o newer = (older \o u) \o (v \o newer)
      <4>1. older \o u \in Seq(LogEntries)
        BY <1>6, <2>2, ConcatProperties
      <4> QED BY <1>6, <2>2, <4>1, EntriesJoin, Zenon
    <3> QED BY <3>1, <3>2
  <2>5. front \in Seq(LogEntries) /\ unread \in Seq(LogEntries) /\ Range(front) = Range(older) \cup Range(u)
    BY <1>6, <2>2, <2>3, ConcatProperties, RangeConcat
  <2>6. all = front \o unread
    BY <2>3, <2>4
  <2> HIDE DEF front
  <2>7. Ordered(unread)
    BY <1>9, <2>5, <2>6, OrderedConcat
  <2>8. read = Those(unread, W)
    BY <1>4, <1>12, <2>5, <2>7, ReadsUntil DEF tooYoung
  <2>9. Those(all, W) = dropped \o read
    BY <2>5, <2>6, <2>8, ThoseConcat
  <2>10. dropped \in Seq(LogEntries) /\ Range(dropped) = Range(front) \cap W
    BY <2>5, ThoseInSeq, ThoseRange
  <2>11. ASSUME NEW e \in Range(front) PROVE Skipped(e, logs, classes, since)
    <3>1. CASE e \in Range(older)
      <4>1. PICK i \in 1 .. first - 1 : e \in Range(held[i].entries)
        BY <1>6, <3>1
      <4>2. i \in 1 .. n /\ i < first /\ first # 1
        BY <1>1, <1>2, <1>5
      <4>3. e.time <= held[first].first
        BY <1>2, <1>3, <4>1, <4>2 DEF GoodOrder
      <4>4. e \in LogEntries
        BY <1>6, <3>1 DEF Range
      <4>5. e.time < since
        BY <1>1, <1>2, <1>3, <4>2, <4>3, <4>4, EntryTimes
      <4> QED BY <4>5 DEF Skipped
    <3>2. CASE e \in Range(u)
      BY <1>1, <1>2, <2>1, <3>2 DEF Skipped, SkipsTo, u, mine
    <3> QED BY <2>5, <3>1, <3>2
  <2>12. read \in Seq(LogEntries)
    BY <2>5, <2>8, ThoseInSeq
  <2> HIDE DEF dropped
  <2>13. IsReadAfter(dropped, logs, since, until, classes)
    BY <2>9, <2>10, <2>11, <2>12 DEF IsReadAfter, all, read
  <2> QED BY <2>13
<1> QED BY <1>11, <1>12

\* The front of two sequences one after the other is the first one.
LEMMA FrontOf ==
  ASSUME NEW T, NEW a \in Seq(T), NEW b \in Seq(T)
  PROVE  SubSeq(a \o b, 1, Len(a)) = a
<1> DEFINE c == a \o b
           d == SubSeq(c, 1, Len(a))
<1>1. Len(a) \in Nat /\ c \in Seq(T) /\ Len(a) \in 0 .. Len(c) /\ \A i \in 1 .. Len(a) : c[i] = a[i]
  BY ConcatProperties
<1> HIDE DEF c
<1>2. d \in Seq(T) /\ Len(d) = Len(a) /\ \A i \in 1 .. Len(a) : d[i] = c[i]
  BY <1>1, PartOf, PartElements
<1> HIDE DEF d
<1>3. d = a
  BY <1>1, <1>2, SeqEqual
<1> QED BY <1>3 DEF d, c

\* The second of two sequences is a suffix of both, behind the first.
LEMMA SuffixOf ==
  ASSUME NEW T, NEW a \in Seq(T), NEW b \in Seq(T)
  PROVE  IsSuffix(b, a \o b) /\ SubSeq(a \o b, 1, Len(a \o b) - Len(b)) = a
<1> DEFINE ra == Reverse(a)
           rb == Reverse(b)
<1>1. /\ ra \in Seq(T) /\ rb \in Seq(T) /\ Len(ra) = Len(a) /\ Len(rb) = Len(b)
      /\ Reverse(a \o b) = rb \o ra
  BY Reverses, ReverseConcat
<1> HIDE DEF ra
<1>2. IsSuffix(b, a \o b) = IsPrefix(rb, rb \o ra)
  BY <1>1 DEF IsSuffix
<1> HIDE DEF rb
<1>3. SubSeq(rb \o ra, 1, Len(rb)) = rb
  BY <1>1, FrontOf
<1>4. SubSeq(rb, 1, Len(rb)) = rb
  BY <1>1
<1>5. Len(rb) <= Len(rb \o ra)
  BY <1>1, ConcatProperties
<1>6. IsPrefix(rb, rb \o ra)
  BY <1>3, <1>4, <1>5 DEF IsPrefix
<1>7. Len(a \o b) - Len(b) = Len(a)
  BY ConcatProperties
<1>8. SubSeq(a \o b, 1, Len(a)) = a
  BY FrontOf
<1> QED BY <1>2, <1>6, <1>7, <1>8

\* A report reads the log without a gap up to the end of its time frame, and of
\* the frame itself it leaves out at most the first entry of a log, where
\* TableStateHistory::answerQuery begins: whatever the time frame, however the
\* entries are spread over the logs and whatever classes are loaded.
THEOREM ReportsReadTheirFrame == Spec => []ReportReadsItsFrame
<1>1. IInv => ReportReadsItsFrame
  <2> SUFFICES ASSUME IInv, GreatestLowerBoundFor(Filter, "time") # None,
                      Until(Filter) - Since(Filter) > 1,
                      NEW logs \in AllLogs \ {<<>>}, NEW extra \in {{}, Range(ClassNumber)}
               PROVE  LET entries == EntriesFor(logs, ClassmaskStatehist \cup extra)
                          all == FlattenSeq(entries)
                          read == ReportRead(logs, Filter, extra)
                          expected == Those(all, {e \in Range(all) : e.time < Until(Filter)})
                          left == SubSeq(expected, 1, Len(expected) - Len(read))
                      IN  /\ IsSuffix(read, expected)
                          /\ \A i \in DOMAIN left :
                              left[i].time >= Since(Filter) =>
                                  \E l \in DOMAIN logs :
                                      entries[l] # <<>> /\ left[i] = Head(entries[l])
    BY DEF ReportReadsItsFrame
  <2> DEFINE since == Since(Filter)
             until == Until(Filter)
             classes == ClassmaskStatehist \cup extra
             entries == EntriesFor(logs, classes)
             all == FlattenSeq(entries)
             read == ReportRead(logs, Filter, extra)
             young == {e \in Range(all) : e.time < until}
             expected == Those(all, young)
             left == SubSeq(expected, 1, Len(expected) - Len(read))
  <2>1. Filter \in AllFilters
    BY FilterSelects
  <2>2. since \in Int /\ until \in Int /\ since < until /\ until - since - 1 # 0
    <3>1. since \in Int /\ until \in Int
      BY <2>1, FrameIs
    <3> HIDE DEF since, until
    <3>2. until - since > 1
      BY DEF since, until
    <3> QED BY <3>1, <3>2
  <2>3. GoodLogs(logs) /\ GoodOrder(logs) /\ logs # <<>> /\ Len(logs) > 0
    <3>1. PICK archive \in Archives : logs = Logs(archive)
      BY DEF AllLogs
    <3>2. archive \in Seq(Seq(Lines)) /\ InOrder(archive)
      BY TableLogAssumption
    <3>3. GoodLogs(logs) /\ GoodOrder(logs)
      BY <3>1, <3>2, ArchiveIsGood
    <3>4. logs = <<>> <=> archive = <<>>
      BY <3>1, <3>2, ArchiveIsGood
    <3>5. Len(archive) > 0 /\ Len(logs) = Len(archive)
      BY <3>1, <3>2, <3>4, LogsOfArchive, EmptySeq
    <3> QED BY <3>3, <3>5
  <2>4. read = ReadEntries(logs, since, until, classes)
    BY <2>2, <2>3 DEF ReportRead
  <2> HIDE DEF since, until, classes, read
  <2>5. PICK dropped : IsReadAfter(dropped, logs, since, until, classes)
    BY <2>2, <2>3, ReportIsReadAfter
  <2>6. expected = Those(all, Before(until))
    <3>1. all \in Seq(LogEntries)
      <4> DEFINE held == Held(logs, classes)
      <4>1. GoodLogs(held) /\ EntriesOf(held) = entries /\ Len(held) = Len(logs)
        BY <2>3, HeldLogs
      <4>2. 0 \in 0 .. Len(held)
        BY <4>1 DEF GoodLogs
      <4> HIDE DEF held, entries
      <4>3. entries \in Seq(Seq(LogEntries))
        BY <4>1, <4>2, LogsInParts
      <4> QED BY <4>3, Flattens
    <3> HIDE DEF all
    <3>2. \A x \in Range(all) : x \in young <=> x \in Before(until)
      BY <3>1 DEF Before, Range
    <3> HIDE DEF young
    <3> QED BY <3>2, ThoseAgree
  <2>7. expected = dropped \o read /\ dropped \in Seq(LogEntries)
    BY <2>4, <2>5, <2>6 DEF IsReadAfter
  <2>8. read \in Seq(LogEntries)
    BY <2>4, <2>5 DEF IsReadAfter
  <2> HIDE DEF expected
  <2>9. IsSuffix(read, expected) /\ left = dropped
    BY <2>7, <2>8, SuffixOf
  <2> HIDE DEF left
  <2>10. ASSUME NEW i \in DOMAIN left, left[i].time >= since
         PROVE  \E l \in DOMAIN logs : entries[l] # <<>> /\ left[i] = Head(entries[l])
    <3>1. left[i] \in Range(dropped) /\ left[i] \in LogEntries
      BY <2>7, <2>9 DEF Range
    <3>2. Skipped(left[i], logs, classes, since)
      BY <2>5, <3>1 DEF IsReadAfter
    <3>3. ~(left[i].time < since)
      BY <2>2, <2>10, <3>1, EntryTimes
    <3> QED BY <3>2, <3>3 DEF Skipped
  <2> QED BY <2>9, <2>10 DEF expected, left, read, classes, since, until
<1> QED BY <1>1, InitHolds, StepHolds, PTL DEF Spec
==============================================================================
