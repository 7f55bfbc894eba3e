---------------------------- MODULE LogCache_proofs ----------------------------
(***************************************************************************)
(* Proofs about LogCache and LogIndex, for any number of files, classes    *)
(* and lines, any limits, any clock and any number of rotations.  What is  *)
(* proved about the contents of the cache supposes that Nagios does not    *)
(* write between the two passes of load; what is proved about its size     *)
(* holds in any case.                                                      *)
(***************************************************************************)
EXTENDS LogCache, LogIndex, FiniteSetTheorems, TLAPS

Reading == {"growth", "missing"}

Candidate == [file : Files, drop : SUBSET Classes]

TypeOK ==
    /\ lines \in [Files -> Seq(Classes)]
    /\ entries \in [Files -> SUBSET (Nat \X Classes)]
    /\ classesRead \in [Files -> SUBSET Classes]
    /\ lineno \in [Files -> Nat]
    /\ readPos \in Nat
    /\ numCached \in Int
    /\ numAtLastCheck \in Int
    /\ evicting \in Seq(Candidate)
    /\ pc \in {"idle", "ready", "loaded"} \cup Reading
    /\ classmask \subseteq Classes
    /\ file \in Files
    /\ reading \subseteq Classes
    /\ missing \subseteq Classes
    /\ pos \in Nat
    /\ upto \in Nat

\* The numbers of the cached messages of a file are within the limit and differ.
Numbered ==
    \A f \in Files :
        /\ IsFiniteSet(entries[f])
        /\ \A e \in entries[f] : e[1] \in 1 .. MaxLines
        /\ \A d, e \in entries[f] : d[1] = e[1] => d = e

\* Eviction is a matter of a query that is loading, and goes on only above the
\* limit; of the file that is loaded it takes what the query does not ask for,
\* and every other file that has messages is still to be flushed.
EvictionInv ==
    evicting # <<>> =>
        /\ pc \in Reading
        /\ numCached > MaxCached
        /\ \A i \in DOMAIN evicting :
               evicting[i].file = file => evicting[i].drop \cap classmask = {}
        /\ \A g \in Files \ {file} : entries[g] # {} =>
               \E i \in DOMAIN evicting : evicting[i] = [file |-> g, drop |-> Classes]

Limit == Larger(MaxCached, MaxLines)

\* What the memory check leaves for the next one.
MemoryInv ==
    /\ numAtLastCheck <= Limit
    /\ numCached <= Limit + CheckMemCycle
    /\ evicting = <<>> => \/ numCached <= MaxCached
                          \/ numCached < numAtLastCheck + CheckMemCycle

\* The line number of a file counts the lines up to the position, as far as the
\* limit; between two loads, those up to _read_pos.
PositionInv ==
    /\ readPos <= Len(lines[Current])
    /\ pc = "growth" => file = Current
    /\ pc \in Reading =>
           lineno[file] = Smaller(MaxLines, pos) /\ pos <= Len(lines[file])
    /\ ~(pc \in Reading /\ file = Current) /\ classesRead[Current] # {} =>
           lineno[Current] = Smaller(MaxLines, readPos)

\* What a pass of load has loaded so far.  Growth is read for all classes read
\* before, some of which eviction may have struck off meanwhile; it matters that
\* those the query asks for stay, read or not.  The second pass adds the missing
\* classes and keeps the others, which have been read to the end.
LoadingInv ==
    /\ pc = "growth" =>
           /\ classesRead[file] \subseteq reading
           /\ missing = classmask \ reading
           /\ Holds(entries[file], lines[file], pos, classesRead[file])
           /\ Holds(entries[file], lines[file], pos, reading \cap classmask)
    /\ pc = "missing" =>
           /\ reading = missing /\ missing \subseteq classmask
           /\ Holds(entries[file], lines[file], pos, missing)
           /\ Holds(entries[file], lines[file], upto, classmask \ missing)
           /\ \/ classesRead[file] = {}
              \/ ReadUpTo(file) = Len(lines[file])
              \/ ReadUpTo(file) >= MaxLines
    /\ pc \in Reading \cup {"loaded"} => upto <= Len(lines[file])

\* The contents of the cache between and within loads.
ContentsInv == PositionInv /\ LoadingInv /\ CacheCoherent /\ LoadComplete

SizeInv == TypeOK /\ Numbered /\ NumCachedExact /\ EvictionInv /\ MemoryInv

------------------------------------------------------------------------------
\* The messages of all files are finitely many if those of each file are.
LEMMA CachedFinite ==
  ASSUME \A f \in Files : IsFiniteSet(entries[f])
  PROVE  IsFiniteSet(CachedMessages)
<1> DEFINE Of == [f \in Files |-> {f} \X entries[f]]
           All == {Of[f] : f \in Files}
<1>1. IsFiniteSet(Files)
  BY LogCacheAssumption, FS_Interval DEF Files
<1>2. Of \in Surjection(Files, All)
  BY DEF Surjection
<1>3. IsFiniteSet(All)
  BY <1>1, <1>2, FS_Surjection
<1>4. ASSUME NEW f \in Files PROVE IsFiniteSet(Of[f])
  BY FS_Singleton, FS_Product
<1>5. IsFiniteSet(UNION All)
  BY <1>3, <1>4, FS_UNION
<1>6. UNION All = CachedMessages
  BY DEF CachedMessages
<1> QED BY <1>5, <1>6

\* A new message of a file is one message more.
LEMMA AddMessage ==
  ASSUME \A f \in Files : IsFiniteSet(entries[f]),
         NEW f \in Files, NEW m, m \notin entries[f],
         entries \in [Files -> SUBSET (Nat \X Classes)],
         entries' = [entries EXCEPT ![f] = @ \cup {m}]
  PROVE  Cardinality(CachedMessages') = Cardinality(CachedMessages) + 1
<1>1. CachedMessages' = CachedMessages \cup {<<f, m>>}
  BY DEF CachedMessages
<1>2. <<f, m>> \notin CachedMessages
  BY DEF CachedMessages
<1> QED BY <1>1, <1>2, CachedFinite, FS_AddElement

\* Messages that leave a file are so many fewer.
LEMMA DropMessages ==
  ASSUME \A f \in Files : IsFiniteSet(entries[f]),
         NEW f \in Files, NEW gone \in SUBSET entries[f],
         entries \in [Files -> SUBSET (Nat \X Classes)],
         entries' = [entries EXCEPT ![f] = @ \ gone]
  PROVE  /\ Cardinality(gone) \in Nat
         /\ Cardinality(CachedMessages') = Cardinality(CachedMessages) - Cardinality(gone)
<1>1. CachedMessages' = CachedMessages \ ({f} \X gone)
  BY DEF CachedMessages
<1>2. CachedMessages \cap ({f} \X gone) = {f} \X gone
  BY DEF CachedMessages
<1>3. IsFiniteSet(gone) /\ Cardinality(gone) \in Nat
  BY FS_Subset, FS_CardinalityType
<1>4. Cardinality({f} \X gone) = Cardinality(gone)
  <2>1. IsFiniteSet({f}) /\ Cardinality({f}) = 1
    BY FS_Singleton
  <2>2. Cardinality({f} \X gone) = Cardinality({f}) * Cardinality(gone)
    BY <1>3, <2>1, FS_Product
  <2> QED BY <1>3, <2>1, <2>2
<1> HIDE DEF CachedMessages
<1>5. Cardinality(CachedMessages \ ({f} \X gone))
          = Cardinality(CachedMessages) - Cardinality(CachedMessages \cap ({f} \X gone))
  BY CachedFinite, FS_Difference
<1> QED BY <1>1, <1>2, <1>3, <1>4, <1>5

\* Messages that are numbered are no more than the numbers.
LEMMA NumberedBounded ==
  ASSUME NEW S, IsFiniteSet(S), \A e \in S : e[1] \in 1 .. MaxLines,
         \A d, e \in S : d[1] = e[1] => d = e
  PROVE  Cardinality(S) \in Nat /\ Cardinality(S) <= MaxLines
<1> DEFINE number == [e \in S |-> e[1]]
<1>1. number \in Injection(S, 1 .. MaxLines)
  BY DEF Injection, IsInjective
<1>2. IsFiniteSet(1 .. MaxLines) /\ Cardinality(1 .. MaxLines) = MaxLines
  BY LogCacheAssumption, FS_Interval
<1> QED BY <1>1, <1>2, FS_Injection, FS_CardinalityType

\* A cache with messages of one file only holds no more than the line limit.
LEMMA OneFileBounded ==
  ASSUME NEW Messages, NEW f \in Files, \A g \in Files \ {f} : Messages[g] = {},
         IsFiniteSet(Messages[f]), \A e \in Messages[f] : e[1] \in 1 .. MaxLines,
         \A d, e \in Messages[f] : d[1] = e[1] => d = e
  PROVE  Cardinality(UNION {{g} \X Messages[g] : g \in Files}) <= MaxLines
<1>1. UNION {{g} \X Messages[g] : g \in Files} = {f} \X Messages[f]
  OBVIOUS
<1>2. IsFiniteSet({f}) /\ Cardinality({f}) = 1
  BY FS_Singleton
<1>3. Cardinality(Messages[f]) \in Nat /\ Cardinality(Messages[f]) <= MaxLines
  BY NumberedBounded
<1>4. Cardinality({f} \X Messages[f]) = Cardinality({f}) * Cardinality(Messages[f])
  BY <1>2, FS_Product
<1>5. 1 * Cardinality(Messages[f]) = Cardinality(Messages[f])
  BY <1>3
<1>6. Cardinality({f} \X Messages[f]) <= MaxLines
  BY <1>2, <1>3, <1>4, <1>5
<1> QED BY <1>1, <1>6, Zenon

------------------------------------------------------------------------------
\* logLineHasBeenAdded tries every file, each other one to be flushed, and of the
\* file that is loaded only what the query does not ask for.
LEMMA CandidatesCover ==
  ASSUME NEW f \in Files, NEW mask \in SUBSET Classes
  PROVE  /\ Candidates(f, mask) \in Seq(Candidate)
         /\ Candidates(f, mask) # <<>>
         /\ \A i \in DOMAIN Candidates(f, mask) :
                Candidates(f, mask)[i].file = f =>
                    Candidates(f, mask)[i].drop = Classes \ mask
         /\ \A g \in Files \ {f} : \E i \in DOMAIN Candidates(f, mask) :
                Candidates(f, mask)[i] = [file |-> g, drop |-> Classes]
<1> DEFINE older == [i \in 1 .. f - 1 |-> [file |-> i, drop |-> Classes]]
           own == [i \in 1 .. NumFiles - f + 1 |->
                      [file |-> f + i - 1, drop |-> Classes \ mask]]
           newer == [i \in 1 .. NumFiles - f |-> [file |-> f + i, drop |-> Classes]]
           first == older \o own
           all == first \o newer
           n == NumFiles
<1>1. n \in Nat \ {0} /\ f \in 1 .. n /\ f \in Nat
  BY LogCacheAssumption DEF Files
<1>2. older \in Seq(Candidate) /\ Len(older) = f - 1
  BY <1>1 DEF Candidate, Files
<1>3. own \in Seq(Candidate) /\ Len(own) = n - f + 1
  <2>1. ASSUME NEW i \in 1 .. n - f + 1
        PROVE  [file |-> f + i - 1, drop |-> Classes \ mask] \in Candidate
    BY <1>1 DEF Candidate, Files
  <2>2. n - f + 1 \in Nat
    BY <1>1
  <2> QED BY <2>1, <2>2
<1>4. newer \in Seq(Candidate) /\ Len(newer) = n - f
  <2>1. ASSUME NEW i \in 1 .. n - f
        PROVE  [file |-> f + i, drop |-> Classes] \in Candidate
    BY <1>1 DEF Candidate, Files
  <2>2. n - f \in Nat
    BY <1>1
  <2> QED BY <2>1, <2>2
<1>5. Candidates(f, mask) = all
  BY DEF Candidates
<1>6. all \in Seq(Candidate) /\ DOMAIN all = 1 .. n + (n - f)
  <2>1. all \in Seq(Candidate) /\ Len(all) = n + (n - f)
    BY <1>1, <1>2, <1>3, <1>4
  <2> HIDE DEF all
  <2> QED BY <2>1
<1>7. /\ \A i \in 1 .. f - 1 : all[i] = older[i]
      /\ \A i \in f .. n : all[i] = own[i - (f - 1)]
      /\ \A i \in n + 1 .. n + (n - f) : all[i] = newer[i - n]
  <2> HIDE DEF older, own, newer
  <2>1. first \in Seq(Candidate) /\ Len(first) = n
    BY <1>1, <1>2, <1>3
  <2>2. \A i \in 1 .. f - 1 : first[i] = older[i]
    BY <1>1, <1>2, <1>3
  <2>3. \A i \in f .. n : first[i] = own[i - (f - 1)]
    BY <1>1, <1>2, <1>3
  <2> HIDE DEF first
  <2>4. \A i \in 1 .. n : all[i] = first[i]
    BY <1>1, <1>4, <2>1
  <2>5. \A i \in n + 1 .. n + (n - f) : all[i] = newer[i - n]
    BY <1>1, <1>4, <2>1
  <2> HIDE DEF all
  <2>6. f - 1 <= n /\ f >= 1
    BY <1>1
  <2> QED BY <1>1, <2>2, <2>3, <2>4, <2>5, <2>6
<1>8. ASSUME NEW i \in DOMAIN all, all[i].file = f
      PROVE  all[i].drop = Classes \ mask
  <2>1. CASE i \in 1 .. f - 1
    BY <1>1, <1>7, <1>8, <2>1
  <2>2. CASE i \in f .. n
    BY <1>1, <1>7, <2>2
  <2>3. CASE i \in n + 1 .. n + (n - f)
    BY <1>1, <1>7, <1>8, <2>3
  <2> HIDE DEF all, first, older, own, newer
  <2> QED BY <1>1, <1>6, <2>1, <2>2, <2>3
<1>9. ASSUME NEW g \in Files \ {f}
      PROVE  \E i \in DOMAIN all : all[i] = [file |-> g, drop |-> Classes]
  <2>1. CASE g < f
    <3>1. older[g] = [file |-> g, drop |-> Classes]
      BY <1>1, <2>1 DEF Files
    <3>2. g \in 1 .. f - 1 /\ g \in 1 .. n + (n - f)
      BY <1>1, <2>1 DEF Files
    <3> HIDE DEF all, first, older, own, newer
    <3> QED BY <1>6, <1>7, <3>1, <3>2
  <2>2. CASE g > f
    <3>1. newer[g - f] = [file |-> f + (g - f), drop |-> Classes] /\ f + (g - f) = g
      BY <1>1, <2>2 DEF Files
    <3>2. /\ n + (g - f) \in n + 1 .. n + (n - f) /\ n + (g - f) \in 1 .. n + (n - f)
          /\ (n + (g - f)) - n = g - f
      BY <1>1, <2>2 DEF Files
    <3> HIDE DEF all, first, older, own, newer
    <3> QED BY <1>6, <1>7, <3>1, <3>2
  <2> HIDE DEF all
  <2> QED BY <1>1, <2>1, <2>2 DEF Files
<1> HIDE DEF all
<1> QED BY <1>1, <1>5, <1>6, <1>8, <1>9

------------------------------------------------------------------------------
\* The cache starts empty.
LEMMA InitSize == Init => SizeInv
<1> SUFFICES ASSUME Init PROVE SizeInv
  OBVIOUS
<1> USE LogCacheAssumption DEF Init
<1>1. TypeOK
  <2>1. Contents \subseteq Seq(Classes)
    BY DEF Contents
  <2>2. lines \in [Files -> Seq(Classes)]
    BY <2>1
  <2>3. file \in Files
    BY DEF Current, Files
  <2>4. pc \in {"idle", "ready", "loaded"} \cup Reading
    OBVIOUS
  <2> QED BY <2>2, <2>3, <2>4 DEF TypeOK
<1>2. Numbered
  BY FS_EmptySet DEF Numbered
<1>3. CachedMessages = {}
  BY DEF CachedMessages
<1>4. NumCachedExact
  BY <1>3, FS_EmptySet DEF NumCachedExact
<1>5. EvictionInv
  BY DEF EvictionInv
<1>6. MemoryInv
  BY DEF MemoryInv, Limit, Larger
<1> QED BY <1>1, <1>2, <1>4, <1>5, <1>6 DEF SizeInv

\* A step that leaves messages, counter and eviction alone keeps the bookkeeping,
\* if it is no step of a query or no eviction is under way.
LEMMA QuietSize ==
  ASSUME SizeInv, UNCHANGED <<entries, numVars>>,
         evicting = <<>> \/ UNCHANGED <<pc, file, classmask>>
  PROVE  Numbered' /\ NumCachedExact' /\ EvictionInv' /\ MemoryInv'
<1> USE DEF SizeInv, numVars
<1>1. Numbered'
  BY DEF Numbered
<1>2. NumCachedExact'
  BY DEF NumCachedExact, CachedMessages
<1>3. EvictionInv'
  BY DEF EvictionInv
<1>4. MemoryInv'
  BY DEF MemoryInv, Limit, Larger
<1> QED BY <1>1, <1>2, <1>3, <1>4

\* A new number leaves messages numbered.
LEMMA AddNumbered ==
  ASSUME NEW S, IsFiniteSet(S), NEW n \in 1 .. MaxLines, NEW c,
         \A e \in S : e[1] \in 1 .. MaxLines,
         \A d, e \in S : d[1] = e[1] => d = e,
         ~\E e \in S : e[1] = n
  PROVE  /\ IsFiniteSet(S \cup {<<n, c>>})
         /\ \A e \in S \cup {<<n, c>>} : e[1] \in 1 .. MaxLines
         /\ \A d, e \in S \cup {<<n, c>>} : d[1] = e[1] => d = e
<1>1. <<n, c>>[1] = n
  OBVIOUS
<1>2. \A e \in S \cup {<<n, c>>} : e \in S \/ e = <<n, c>>
  OBVIOUS
<1>3. \A e \in S \cup {<<n, c>>} : e[1] \in 1 .. MaxLines
  BY <1>1, <1>2
<1>4. \A d, e \in S \cup {<<n, c>>} : d[1] = e[1] => d = e
  BY <1>1, <1>2
<1> QED BY <1>3, <1>4, FS_AddElement

\* Storing a line: the counter goes up with the messages, by one, and eviction
\* begins with every candidate when the memory check is due.
LEMMA StoreSize ==
  ASSUME SizeInv, pc \in Reading, evicting = <<>>, WithinLimit(file),
         NEW c \in Classes, Store(c),
         UNCHANGED <<numAtLastCheck, pc, file, classmask>>
  PROVE  /\ Numbered' /\ NumCachedExact' /\ EvictionInv' /\ MemoryInv'
         /\ entries' \in [Files -> SUBSET (Nat \X Classes)]
         /\ numCached' \in Int
         /\ evicting' \in Seq(Candidate)
<1> DEFINE n == lineno[file] + 1
<1> USE DEF SizeInv, TypeOK
<1>0. n \in 1 .. MaxLines
  BY LogCacheAssumption DEF WithinLimit
<1>1. CASE \E e \in entries[file] : e[1] = n
  <2>1. UNCHANGED <<entries, numVars>>
    BY <1>1 DEF Store, numVars
  <2> QED BY <2>1, QuietSize DEF numVars
<1>2. CASE ~\E e \in entries[file] : e[1] = n
  <2>1. /\ entries' = [entries EXCEPT ![file] = @ \cup {<<n, c>>}]
        /\ numCached' = numCached + 1
        /\ evicting' = IF CheckDue(numCached + 1) THEN Candidates(file, classmask)
                                                  ELSE <<>>
    BY <1>2 DEF Store
  <2>2. Numbered'
    <3> SUFFICES ASSUME NEW f \in Files
                 PROVE  /\ IsFiniteSet(entries'[f])
                        /\ \A e \in entries'[f] : e[1] \in 1 .. MaxLines
                        /\ \A d, e \in entries'[f] : d[1] = e[1] => d = e
      BY DEF Numbered
    <3>1. CASE f = file
      <4>1. entries'[f] = entries[f] \cup {<<n, c>>}
        BY <2>1, <3>1
      <4>2. /\ IsFiniteSet(entries[f])
            /\ \A e \in entries[f] : e[1] \in 1 .. MaxLines
            /\ \A d, e \in entries[f] : d[1] = e[1] => d = e
            /\ ~\E e \in entries[f] : e[1] = n
        BY <1>2, <3>1 DEF Numbered
      <4> DEFINE S == entries[f]
      <4>3. /\ IsFiniteSet(S)
            /\ \A e \in S : e[1] \in 1 .. MaxLines
            /\ \A d, e \in S : d[1] = e[1] => d = e
            /\ ~\E e \in S : e[1] = n
        BY <4>2
      <4> HIDE DEF n, S, SizeInv, TypeOK
      <4>4. /\ IsFiniteSet(S \cup {<<n, c>>})
            /\ \A e \in S \cup {<<n, c>>} : e[1] \in 1 .. MaxLines
            /\ \A d, e \in S \cup {<<n, c>>} : d[1] = e[1] => d = e
        BY <1>0, <4>3, AddNumbered
      <4>5. entries'[f] = S \cup {<<n, c>>}
        BY <4>1 DEF S
      <4> QED BY <4>4, <4>5
    <3>2. CASE f # file
      BY <2>1, <3>2 DEF Numbered
    <3> QED BY <3>1, <3>2
  <2>3. NumCachedExact'
    <3>1. <<n, c>> \notin entries[file]
      BY <1>2
    <3> QED BY <2>1, <3>1, AddMessage DEF Numbered, NumCachedExact
  <2>4. /\ Candidates(file, classmask) \in Seq(Candidate)
        /\ \A i \in DOMAIN Candidates(file, classmask) :
               Candidates(file, classmask)[i].file = file =>
                   Candidates(file, classmask)[i].drop \cap classmask = {}
        /\ \A g \in Files \ {file} : \E i \in DOMAIN Candidates(file, classmask) :
               Candidates(file, classmask)[i] = [file |-> g, drop |-> Classes]
        /\ Candidates(file, classmask) # <<>>
    <3>1. file \in Files /\ classmask \in SUBSET Classes
      OBVIOUS
    <3> HIDE DEF SizeInv, TypeOK
    <3>2. \A i \in DOMAIN Candidates(file, classmask) :
              Candidates(file, classmask)[i].file = file =>
                  Candidates(file, classmask)[i].drop = Classes \ classmask
      BY <3>1, CandidatesCover
    <3> QED BY <3>1, <3>2, CandidatesCover
  <2>5. EvictionInv'
    BY <2>1, <2>4 DEF EvictionInv, CheckDue
  <2>6. MemoryInv'
    BY <2>1, <2>4, LogCacheAssumption DEF MemoryInv, CheckDue, Limit, Larger
  <2>7. evicting' \in Seq(Candidate)
    BY <2>1, <2>4
  <2>8. /\ entries' \in [Files -> SUBSET (Nat \X Classes)]
        /\ numCached' \in Int
    BY <1>0, <2>1
  <2> QED BY <2>2, <2>3, <2>5, <2>6, <2>7, <2>8
<1> QED BY <1>1, <1>2

\* What one candidate of the eviction loses.
EvictApplies(e) ==
    /\ Size(e.file) > 0
    /\ e.drop = Classes \/ classesRead[e.file] \cap e.drop # {}
EvictGone(e) == {m \in entries[e.file] : EvictApplies(e) /\ m[2] \in e.drop}

\* The eviction step with its candidate named.
LEMMA EvictUnfolded ==
  ASSUME TypeOK, Evict
  PROVE  \E e \in Candidate :
           /\ e = evicting[1] /\ evicting # <<>>
           /\ Tail(evicting) \in Seq(Candidate)
           /\ DOMAIN evicting = 1 .. Len(Tail(evicting)) + 1
           /\ \A i \in DOMAIN Tail(evicting) : Tail(evicting)[i] = evicting[i + 1]
           /\ entries' = [entries EXCEPT ![e.file] = @ \ EvictGone(e)]
           /\ classesRead' = [classesRead EXCEPT
                                 ![e.file] = IF EvictApplies(e) THEN @ \ e.drop ELSE @]
           /\ numCached' = numCached - Cardinality(EvictGone(e))
           /\ evicting' = IF EvictApplies(e) /\ numCached' <= MaxCached
                          THEN <<>> ELSE Tail(evicting)
           /\ numAtLastCheck' = IF evicting' = <<>> THEN numCached' ELSE numAtLastCheck
           /\ UNCHANGED <<lines, lineno, readPos, queryVars>>
<1>1. evicting # <<>> /\ evicting \in Seq(Candidate)
  BY DEF Evict, TypeOK
<1> DEFINE e == Head(evicting)
<1>2. e \in Candidate /\ e = evicting[1]
  BY <1>1
<1>3. /\ Tail(evicting) \in Seq(Candidate)
      /\ DOMAIN evicting = 1 .. Len(Tail(evicting)) + 1
      /\ \A i \in DOMAIN Tail(evicting) : Tail(evicting)[i] = evicting[i + 1]
  BY <1>1
<1>4. /\ entries' = [entries EXCEPT ![e.file] = @ \ EvictGone(e)]
      /\ classesRead' = [classesRead EXCEPT
                            ![e.file] = IF EvictApplies(e) THEN @ \ e.drop ELSE @]
      /\ numCached' = numCached - Cardinality(EvictGone(e))
      /\ evicting' = IF EvictApplies(e) /\ numCached' <= MaxCached
                     THEN <<>> ELSE Tail(evicting)
      /\ numAtLastCheck' = IF evicting' = <<>> THEN numCached' ELSE numAtLastCheck
      /\ UNCHANGED <<lines, lineno, readPos, queryVars>>
  BY DEF Evict, EvictApplies, EvictGone
<1> HIDE DEF e
<1> QED BY <1>1, <1>2, <1>3, <1>4

\* An eviction step: the counter goes down with the messages; when it is the
\* last one, either the limit is met or only the file that is loaded is left.
LEMMA EvictSize ==
  ASSUME SizeInv, Evict
  PROVE  /\ Numbered' /\ NumCachedExact' /\ EvictionInv' /\ MemoryInv'
         /\ TypeOK'
<1> USE DEF SizeInv
<1>1. PICK e \in Candidate :
           /\ e = evicting[1] /\ evicting # <<>>
           /\ Tail(evicting) \in Seq(Candidate)
           /\ DOMAIN evicting = 1 .. Len(Tail(evicting)) + 1
           /\ \A i \in DOMAIN Tail(evicting) : Tail(evicting)[i] = evicting[i + 1]
           /\ entries' = [entries EXCEPT ![e.file] = @ \ EvictGone(e)]
           /\ classesRead' = [classesRead EXCEPT
                                 ![e.file] = IF EvictApplies(e) THEN @ \ e.drop ELSE @]
           /\ numCached' = numCached - Cardinality(EvictGone(e))
           /\ evicting' = IF EvictApplies(e) /\ numCached' <= MaxCached
                          THEN <<>> ELSE Tail(evicting)
           /\ numAtLastCheck' = IF evicting' = <<>> THEN numCached' ELSE numAtLastCheck
           /\ UNCHANGED <<lines, lineno, readPos, queryVars>>
  BY EvictUnfolded
<1>2. e.file \in Files /\ e.drop \subseteq Classes
  BY DEF Candidate
<1> DEFINE gone == EvictGone(e)
<1>3. gone \subseteq entries[e.file]
  BY DEF EvictGone
<1>4. entries' \in [Files -> SUBSET (Nat \X Classes)]
  BY <1>1, <1>2 DEF TypeOK
<1>5. \A f \in Files : entries'[f] \subseteq entries[f]
  BY <1>1, <1>2 DEF TypeOK
<1>6. Numbered'
  <2>1. \A f \in Files : IsFiniteSet(entries'[f])
    BY <1>5, FS_Subset DEF Numbered
  <2> QED BY <1>5, <2>1 DEF Numbered
<1>7. /\ Cardinality(gone) \in Nat
      /\ Cardinality(CachedMessages') = Cardinality(CachedMessages) - Cardinality(gone)
  <2> HIDE DEF gone
  <2>1. entries' = [entries EXCEPT ![e.file] = @ \ gone]
    BY <1>1 DEF gone
  <2>2. \A f \in Files : IsFiniteSet(entries[f])
    BY DEF Numbered
  <2> QED BY <1>2, <1>3, <2>1, <2>2, DropMessages DEF TypeOK
<1>8. NumCachedExact' /\ numCached' \in Int /\ numCached' <= numCached
  BY <1>1, <1>7 DEF NumCachedExact, TypeOK
<1>9. ~EvictApplies(e) => numCached' = numCached
  <2>1. ~EvictApplies(e) => EvictGone(e) = {}
    BY DEF EvictGone
  <2>2. Cardinality({}) = 0
    BY FS_EmptySet
  <2>3. ~EvictApplies(e) => numCached' = numCached - 0
    BY <1>1, <2>1, <2>2
  <2> QED BY <2>3 DEF TypeOK
<1>10. ASSUME evicting' = Tail(evicting), NEW g \in Files \ {file}, entries'[g] # {}
       PROVE  \E i \in DOMAIN evicting' : evicting'[i] = [file |-> g, drop |-> Classes]
  <2>1. PICK i \in DOMAIN evicting : evicting[i] = [file |-> g, drop |-> Classes]
    BY <1>1, <1>5, <1>10 DEF EvictionInv
  <2>2. i # 1
    <3> SUFFICES ASSUME i = 1 PROVE FALSE
      OBVIOUS
    <3>1. e.file = g /\ e.drop = Classes
      BY <1>1, <2>1
    <3>2. Cardinality(entries[g]) \in Nat /\ Cardinality(entries[g]) # 0
      BY <1>5, <1>10, FS_EmptySet, FS_CardinalityType DEF Numbered
    <3>3. EvictApplies(e)
      BY <3>1, <3>2 DEF EvictApplies, Size
    <3>4. EvictGone(e) = entries[g]
      BY <3>1, <3>3 DEF EvictGone, TypeOK
    <3>5. entries'[g] = {}
      BY <1>1, <3>1, <3>4 DEF TypeOK
    <3> QED BY <1>10, <3>5
  <2>3. i - 1 \in DOMAIN Tail(evicting)
    BY <1>1, <2>1, <2>2
  <2>4. Tail(evicting)[i - 1] = evicting[(i - 1) + 1] /\ (i - 1) + 1 = i
    BY <1>1, <2>1, <2>3
  <2> QED BY <1>10, <2>1, <2>3, <2>4
<1>11. UNCHANGED queryVars
  BY <1>1
<1>12. EvictionInv'
  <2> SUFFICES ASSUME evicting' # <<>>
               PROVE  /\ pc' \in Reading
                      /\ numCached' > MaxCached
                      /\ \A i \in DOMAIN evicting' :
                             evicting'[i].file = file' =>
                                 evicting'[i].drop \cap classmask' = {}
                      /\ \A g \in Files \ {file'} : entries'[g] # {} =>
                             \E i \in DOMAIN evicting' :
                                 evicting'[i] = [file |-> g, drop |-> Classes]
    BY DEF EvictionInv
  <2>1. evicting' = Tail(evicting) /\ ~(EvictApplies(e) /\ numCached' <= MaxCached)
    BY <1>1
  <2>2. pc' \in Reading /\ file' = file /\ classmask' = classmask
    BY <1>1, <1>11 DEF EvictionInv, queryVars
  <2>3. numCached' > MaxCached
    BY <1>1, <1>8, <1>9, <2>1, LogCacheAssumption DEF EvictionInv, TypeOK
  <2>4. ASSUME NEW i \in DOMAIN Tail(evicting), Tail(evicting)[i].file = file
        PROVE  Tail(evicting)[i].drop \cap classmask = {}
    <3>1. i + 1 \in DOMAIN evicting /\ Tail(evicting)[i] = evicting[i + 1]
      BY <1>1
    <3> QED BY <1>1, <2>4, <3>1 DEF EvictionInv
  <2> QED BY <1>10, <2>1, <2>2, <2>3, <2>4
<1>13. numCached' <= MaxCached \/ (evicting' = <<>> => numCached' <= MaxLines)
  <2> SUFFICES ASSUME ~(numCached' <= MaxCached), evicting' = <<>>
               PROVE  numCached' <= MaxLines
    OBVIOUS
  <2>1. evicting' = Tail(evicting)
    BY <1>1
  <2>2. \A g \in Files \ {file} : entries'[g] = {}
    BY <1>10, <2>1
  <2>3. file \in Files
    BY DEF TypeOK
  <2>4. Cardinality(CachedMessages') <= MaxLines
    <3> DEFINE Messages == entries'
    <3>1. /\ IsFiniteSet(Messages[file])
          /\ \A e1 \in Messages[file] : e1[1] \in 1 .. MaxLines
          /\ \A d1, e1 \in Messages[file] : d1[1] = e1[1] => d1 = e1
      BY <1>6, <2>3 DEF Numbered
    <3>2. \A g \in Files \ {file} : Messages[g] = {}
      BY <2>2
    <3>3. CachedMessages' = UNION {{g} \X Messages[g] : g \in Files}
      BY DEF CachedMessages
    <3> HIDE DEF Messages
    <3>4. Cardinality(UNION {{g} \X Messages[g] : g \in Files}) <= MaxLines
      BY <2>3, <3>1, <3>2, OneFileBounded
    <3> QED BY <3>3, <3>4
  <2> QED BY <1>8, <2>4 DEF NumCachedExact
<1>14. MemoryInv'
  <2>1. numAtLastCheck' = IF evicting' = <<>> THEN numCached' ELSE numAtLastCheck
    BY <1>1
  <2>2. /\ numCached \in Int /\ numCached' \in Int /\ numCached' <= numCached
        /\ CheckMemCycle \in Int /\ CheckMemCycle > 0
    BY <1>8, LogCacheAssumption DEF TypeOK
  <2>3. Limit \in Int /\ MaxCached <= Limit /\ MaxLines <= Limit
    BY LogCacheAssumption DEF Limit, Larger
  <2>4. numAtLastCheck <= Limit /\ numCached <= Limit + CheckMemCycle
    BY DEF MemoryInv
  <2>5. evicting' = <<>> => numCached' <= MaxCached \/ numCached' <= MaxLines
    BY <1>13
  <2>6. numAtLastCheck' <= Limit /\ numCached' <= Limit + CheckMemCycle
    BY <2>1, <2>2, <2>3, <2>4, <2>5, LogCacheAssumption
  <2>7. ASSUME evicting' = <<>>
        PROVE  numCached' < numAtLastCheck' + CheckMemCycle
    <3>1. numAtLastCheck' = numCached'
      BY <2>1, <2>7
    <3>2. \A n \in Int : n < n + CheckMemCycle
      BY <2>2
    <3> QED BY <2>2, <3>1, <3>2
  <2> QED BY <2>6, <2>7 DEF MemoryInv
<1>15. TypeOK'
  <2>1. evicting' \in Seq(Candidate)
    BY <1>1
  <2>2. classesRead' \in [Files -> SUBSET Classes]
    BY <1>1, <1>2 DEF TypeOK
  <2>3. numAtLastCheck' \in Int
    BY <1>1, <1>8 DEF TypeOK
  <2> QED BY <1>1, <1>4, <1>8, <2>1, <2>2, <2>3 DEF TypeOK, queryVars
<1> QED BY <1>6, <1>8, <1>12, <1>14, <1>15

\* Whatever happens in the other steps, the types are kept.
LEMMA OtherTyped ==
  ASSUME TypeOK
  PROVE  /\ \A c \in Classes : AppendLine(c) => TypeOK'
         /\ UpdateIndex => TypeOK'
         /\ \A mask \in SUBSET Classes : StartQuery(mask) => TypeOK'
         /\ EndQuery => TypeOK'
         /\ \A f \in Files : Load(f) => TypeOK'
         /\ LoadGrowth => TypeOK'
         /\ EndGrowth => TypeOK'
         /\ EndMissing => TypeOK'
         /\ UNCHANGED vars => TypeOK'
<1> USE LogCacheAssumption DEF TypeOK, cacheVars, numVars, queryVars, Reading
<1>0. Current \in Files
  BY DEF Current, Files
<1>1. ASSUME NEW c \in Classes, AppendLine(c) PROVE TypeOK'
  <2>1. lines' \in [Files -> Seq(Classes)]
    BY <1>0, <1>1 DEF AppendLine
  <2> QED BY <1>1, <2>1 DEF AppendLine
<1>2. CASE UpdateIndex
  <2>1. lines' \in [Files -> Seq(Classes)]
    <3>1. PICK c \in Classes :
              lines' = [f \in Files |-> IF f = Current THEN <<c>> ELSE lines[f + 1]]
      BY <1>2 DEF UpdateIndex
    <3>2. \A f \in Files : f # Current => f + 1 \in Files
      BY DEF Current, Files
    <3>3. <<c>> \in Seq(Classes)
      OBVIOUS
    <3> QED BY <3>1, <3>2, <3>3
  <2> QED BY <1>2, <2>1 DEF UpdateIndex
<1>3. ASSUME NEW mask \in SUBSET Classes, StartQuery(mask) PROVE TypeOK'
  BY <1>3 DEF StartQuery
<1>4. CASE EndQuery
  BY <1>0, <1>4 DEF EndQuery
<1>5. ASSUME NEW f \in Files, LoadNothing(f) PROVE TypeOK'
  <2>1. upto' \in Nat
    BY <1>5 DEF LoadNothing
  <2> QED BY <1>5, <2>1 DEF LoadNothing
<1>6. ASSUME NEW f \in Files, LoadMissing(f) PROVE TypeOK'
  <2>1. upto' \in Nat /\ missing' \subseteq Classes /\ reading' \subseteq Classes
    BY <1>6 DEF LoadMissing
  <2> QED BY <1>6, <2>1 DEF LoadMissing
<1>7. CASE LoadGrowth
  <2>1. upto' \in Nat /\ missing' \subseteq Classes /\ reading' \subseteq Classes
    BY <1>0, <1>7 DEF LoadGrowth
  <2> QED BY <1>0, <1>7, <2>1 DEF LoadGrowth
<1>8. PosAfter \in Nat
  BY DEF PosAfter
<1>9. CASE EndGrowth
  <2>1. lineno' \in [Files -> Nat] /\ pos' \in Nat /\ reading' \subseteq Classes
    BY <1>8, <1>9 DEF EndGrowth
  <2>2. pc' \in {"idle", "ready", "loaded"} \cup Reading
    BY <1>9 DEF EndGrowth
  <2> QED BY <1>8, <1>9, <2>1, <2>2 DEF EndGrowth
<1>10. CASE EndMissing
  <2>1. classesRead' \in [Files -> SUBSET Classes]
    BY <1>10 DEF EndMissing
  <2>2. readPos' \in Nat
    BY <1>8, <1>10 DEF EndMissing
  <2> QED BY <1>10, <2>1, <2>2 DEF EndMissing
<1>11. CASE UNCHANGED vars
  BY <1>11 DEF vars
<1> QED BY <1>1, <1>2, <1>3, <1>4, <1>5, <1>6, <1>7, <1>9, <1>10, <1>11 DEF Load

\* Bookkeeping and bounds are kept by every step.
LEMMA NextSize == SizeInv /\ [Next]_vars => SizeInv'
<1> SUFFICES ASSUME SizeInv, [Next]_vars PROVE SizeInv'
  OBVIOUS
<1> USE DEF SizeInv
<1>1. CASE UpdateIndex
  <2>1. TypeOK'
    BY <1>1, OtherTyped
  <2>2. /\ entries' = [f \in Files |-> {}] /\ numCached' = 0
        /\ UNCHANGED <<numAtLastCheck, evicting, queryVars>> /\ pc = "idle"
    BY <1>1 DEF UpdateIndex
  <2>3. Numbered'
    BY <2>2, FS_EmptySet DEF Numbered
  <2>4. CachedMessages' = {}
    BY <2>2 DEF CachedMessages
  <2>5. NumCachedExact'
    BY <2>2, <2>4, FS_EmptySet DEF NumCachedExact
  <2>6. EvictionInv'
    BY <2>2 DEF EvictionInv, Reading
  <2>7. MemoryInv'
    BY <2>2, LogCacheAssumption DEF MemoryInv, Limit, Larger
  <2> QED BY <2>1, <2>3, <2>5, <2>6, <2>7
<1>2. CASE ReadLine
  <2>1. /\ pc \in Reading /\ evicting = <<>> /\ WithinLimit(file)
        /\ pos < Len(lines[file])
        /\ pos' = pos + 1
        /\ lineno' = [lineno EXCEPT ![file] = @ + 1]
        /\ UNCHANGED <<lines, classesRead, readPos, numAtLastCheck, pc, classmask,
                       file, reading, missing, upto>>
    BY <1>2 DEF ReadLine, Reading
  <2>2. Numbered' /\ NumCachedExact' /\ EvictionInv' /\ MemoryInv'
        /\ entries' \in [Files -> SUBSET (Nat \X Classes)]
        /\ numCached' \in Int /\ evicting' \in Seq(Candidate)
    <3> DEFINE c == lines[file][pos + 1]
    <3>1. CASE c \in reading
      <4>1. c \in Classes /\ Store(c)
        BY <1>2, <3>1 DEF ReadLine, TypeOK
      <4> HIDE DEF c, SizeInv
      <4> QED BY <2>1, <4>1, StoreSize
    <3>2. CASE c \notin reading
      <4>1. UNCHANGED <<entries, numCached, evicting>>
        BY <1>2, <3>2 DEF ReadLine
      <4> QED BY <2>1, <4>1, QuietSize DEF numVars, TypeOK
    <3> QED BY <3>1, <3>2
  <2>3. lineno' \in [Files -> Nat] /\ pos' \in Nat
    BY <2>1 DEF TypeOK
  <2>4. TypeOK'
    BY <2>1, <2>2, <2>3 DEF TypeOK
  <2> QED BY <2>2, <2>4
<1>3. CASE Evict
  BY <1>3, EvictSize
<1>4. ASSUME UNCHANGED <<entries, numVars>>, TypeOK',
             evicting = <<>> \/ UNCHANGED <<pc, file, classmask>>
      PROVE  SizeInv'
  BY <1>4, QuietSize
<1>5. pc \notin Reading => evicting = <<>>
  BY DEF EvictionInv
<1>6. ASSUME NEW c \in Classes, AppendLine(c) PROVE SizeInv'
  <2>1. UNCHANGED <<entries, numVars>> /\ UNCHANGED <<pc, file, classmask>>
    BY <1>6 DEF AppendLine, cacheVars, queryVars
  <2> QED BY <1>4, <1>6, <2>1, OtherTyped
<1>7. ASSUME NEW mask \in SUBSET Classes, StartQuery(mask) PROVE SizeInv'
  <2>1. UNCHANGED <<entries, numVars>> /\ pc = "idle"
    BY <1>7 DEF StartQuery, cacheVars
  <2> QED BY <1>4, <1>5, <1>7, <2>1, OtherTyped DEF Reading
<1>8. CASE EndQuery
  <2>1. UNCHANGED <<entries, numVars>> /\ pc \in {"ready", "loaded"}
    BY <1>8 DEF EndQuery, cacheVars
  <2> QED BY <1>4, <1>5, <1>8, <2>1, OtherTyped DEF Reading
<1>9. ASSUME NEW f \in Files, Load(f) PROVE SizeInv'
  <2>1. UNCHANGED <<entries, numVars>> /\ pc \in {"ready", "loaded"}
    BY <1>9 DEF Load, LoadNothing, LoadMissing, cacheVars
  <2> QED BY <1>4, <1>5, <1>9, <2>1, OtherTyped DEF Reading
<1>10. CASE LoadGrowth
  <2>1. UNCHANGED <<entries, numVars>> /\ pc \in {"ready", "loaded"}
    BY <1>10 DEF LoadGrowth, cacheVars
  <2> QED BY <1>4, <1>5, <1>10, <2>1, OtherTyped DEF Reading
<1>11. CASE EndGrowth
  <2>1. UNCHANGED <<entries, numVars>> /\ evicting = <<>>
    BY <1>11 DEF EndGrowth, PassOver
  <2> QED BY <1>4, <1>11, <2>1, OtherTyped
<1>12. CASE EndMissing
  <2>1. UNCHANGED <<entries, numVars>> /\ evicting = <<>>
    BY <1>12 DEF EndMissing, PassOver
  <2> QED BY <1>4, <1>12, <2>1, OtherTyped
<1>13. CASE UNCHANGED vars
  <2>1. UNCHANGED <<entries, numVars>> /\ UNCHANGED <<pc, file, classmask>>
    BY <1>13 DEF vars, cacheVars, queryVars
  <2> QED BY <1>4, <1>13, <2>1, OtherTyped
<1> QED
  BY <1>1, <1>2, <1>3, <1>6, <1>7, <1>8, <1>9, <1>10, <1>11, <1>12, <1>13 DEF Next

\* The bookkeeping is an invariant of the specification, whenever Nagios writes.
LEMMA SizeInvariant == Spec => []SizeInv
<1> QED BY InitSize, NextSize, PTL DEF Spec

------------------------------------------------------------------------------
\* What is in the cache of a log stays there for fewer classes, for no more lines,
\* in a log that has grown, when nothing of these classes is lost.
LEMMA HoldsKept ==
  ASSUME NEW cached, NEW log, NEW length \in Nat, NEW classes,
         Holds(cached, log, length, classes),
         NEW cached2, NEW log2, NEW length2 \in Nat, NEW classes2 \in SUBSET classes,
         length2 <= length \/ length >= MaxLines,
         \A n \in 1 .. length2 : log2[n] = log[n],
         \A e \in cached : e[2] \in classes2 => e \in cached2
  PROVE  Holds(cached2, log2, length2, classes2)
<1> SUFFICES ASSUME NEW n \in 1 .. Smaller(MaxLines, length2), log2[n] \in classes2
             PROVE  <<n, log2[n]>> \in cached2
  BY DEF Holds
<1>1. n \in 1 .. Smaller(MaxLines, length) /\ n \in 1 .. length2
  BY LogCacheAssumption DEF Smaller
<1>2. <<n, log[n]>> \in cached /\ log2[n] = log[n]
  BY <1>1 DEF Holds
<1>3. <<n, log[n]>>[2] = log[n]
  OBVIOUS
<1> QED BY <1>2, <1>3

\* One line more, which is stored if its class is of interest.
LEMMA HoldsNext ==
  ASSUME NEW cached, NEW log, NEW length \in Nat, NEW classes,
         Holds(cached, log, length, classes),
         NEW cached2, cached \subseteq cached2,
         log[length + 1] \in classes => <<length + 1, log[length + 1]>> \in cached2
  PROVE  Holds(cached2, log, length + 1, classes)
<1> SUFFICES ASSUME NEW n \in 1 .. Smaller(MaxLines, length + 1), log[n] \in classes
             PROVE  <<n, log[n]>> \in cached2
  BY DEF Holds
<1>1. CASE n = length + 1
  BY <1>1
<1>2. CASE n # length + 1
  <2>1. n \in 1 .. Smaller(MaxLines, length)
    BY <1>2, LogCacheAssumption DEF Smaller
  <2> QED BY <2>1 DEF Holds
<1> QED BY <1>1, <1>2

\* Classes add up.
LEMMA HoldsBoth ==
  ASSUME NEW cached, NEW log, NEW length \in Nat, NEW classes, NEW classes2,
         Holds(cached, log, length, classes), Holds(cached, log, length, classes2)
  PROVE  Holds(cached, log, length, classes \cup classes2)
BY DEF Holds

\* Nothing is claimed of no lines, or of no classes.
LEMMA HoldsNothing ==
  ASSUME NEW cached, NEW log, NEW length \in Nat, NEW classes
  PROVE  Holds(cached, log, 0, classes) /\ Holds(cached, log, length, {})
BY LogCacheAssumption DEF Holds, Smaller

------------------------------------------------------------------------------
\* Nagios does not write between the passes of load.
NoWriteBetweenPasses == "missing" \notin AppendWhen

CacheInv == SizeInv /\ ContentsInv

\* An empty cache is in order.
LEMMA InitContents == Init => ContentsInv
<1> SUFFICES ASSUME Init PROVE ContentsInv
  OBVIOUS
<1> USE DEF Init
<1>1. PositionInv
  <2>1. lines[Current] \in Seq(Classes)
    BY LogCacheAssumption DEF Contents, Current, Files
  <2>2. Len(lines[Current]) \in Nat
    BY <2>1
  <2> QED BY <2>2, LogCacheAssumption DEF PositionInv, Reading, Files, Current
<1>2. LoadingInv /\ LoadComplete
  BY DEF LoadingInv, LoadComplete, Reading
<1>3. CacheCoherent
  BY DEF CacheCoherent, OnlyLines, Holds
<1> QED BY <1>1, <1>2, <1>3 DEF ContentsInv

\* A line that Nagios appends is not among those that have been read.
LEMMA AppendContents ==
  ASSUME CacheInv, NoWriteBetweenPasses, NEW c \in Classes, AppendLine(c)
  PROVE  ContentsInv'
<1> USE DEF CacheInv, SizeInv, ContentsInv
<1>1. /\ pc # "missing"
      /\ lines' = [lines EXCEPT ![Current] = Append(@, c)]
      /\ UNCHANGED <<cacheVars, numVars, queryVars>>
  BY DEF AppendLine, NoWriteBetweenPasses
<1>2. UNCHANGED <<entries, classesRead, lineno, readPos, pc, classmask, file, reading,
                  missing, pos, upto>>
  BY <1>1 DEF cacheVars, queryVars
<1>3. Current \in Files
  BY LogCacheAssumption DEF Current, Files
<1>4. ASSUME NEW f \in Files
      PROVE  /\ lines[f] \in Seq(Classes) /\ Len(lines[f]) \in Nat
             /\ Len(lines'[f]) \in Nat /\ Len(lines'[f]) >= Len(lines[f])
             /\ f # Current => lines'[f] = lines[f]
             /\ DOMAIN lines[f] \subseteq DOMAIN lines'[f]
             /\ \A n \in 1 .. Len(lines[f]) : lines'[f][n] = lines[f][n]
  <2>1. CASE f = Current
    <3>1. lines[f] \in Seq(Classes) /\ lines'[f] = Append(lines[f], c)
      BY <1>1, <1>3, <2>1 DEF TypeOK
    <3> QED BY <2>1, <3>1
  <2>2. CASE f # Current
    <3>1. lines[f] \in Seq(Classes) /\ lines'[f] = lines[f]
      BY <1>1, <2>2 DEF TypeOK
    <3> QED BY <2>2, <3>1
  <2> QED BY <2>1, <2>2
<1>5. ASSUME NEW f \in Files, NEW length \in Nat, NEW classes, length <= Len(lines[f]),
             Holds(entries[f], lines[f], length, classes)
      PROVE  Holds(entries'[f], lines'[f], length, classes)
  <2>1. \A n \in 1 .. length : lines'[f][n] = lines[f][n]
    BY <1>4, <1>5
  <2> QED BY <1>2, <1>5, <2>1, HoldsKept
<1>6. file \in Files /\ pos \in Nat /\ upto \in Nat /\ readPos \in Nat
  BY DEF TypeOK
<1>7. PositionInv'
  BY <1>2, <1>3, <1>4, <1>6 DEF PositionInv
<1>8. LoadingInv'
  <2>1. pc' # "missing"
    BY <1>1, <1>2
  <2>2. pc \in Reading \cup {"loaded"} => upto' <= Len(lines'[file'])
    BY <1>2, <1>4, <1>6 DEF LoadingInv
  <2>3. pc = "growth" => pos <= Len(lines[file])
    BY DEF PositionInv, Reading
  <2> QED BY <1>2, <1>5, <1>6, <2>1, <2>2, <2>3 DEF LoadingInv
<1>9. CacheCoherent'
  <2> SUFFICES ASSUME NEW f \in Files
               PROVE  /\ OnlyLines(entries'[f], lines'[f])
                      /\ Holds(entries'[f], lines'[f],
                               IF f = Current THEN readPos' ELSE Len(lines'[f]),
                               classesRead'[f])
    BY DEF CacheCoherent, ReadUpTo
  <2>1. OnlyLines(entries'[f], lines'[f])
    <3>1. DOMAIN lines[f] = 1 .. Len(lines[f])
      BY <1>4
    <3> QED BY <1>2, <1>4, <3>1 DEF CacheCoherent, OnlyLines
  <2>2. CASE f = Current
    <3>1. readPos <= Len(lines[f]) /\ Holds(entries[f], lines[f], readPos, classesRead[f])
      BY <2>2 DEF CacheCoherent, ReadUpTo, PositionInv
    <3> QED BY <1>2, <1>5, <1>6, <2>1, <2>2, <3>1
  <2>3. CASE f # Current
    <3>1. Holds(entries[f], lines[f], Len(lines[f]), classesRead[f])
      BY <2>3 DEF CacheCoherent, ReadUpTo
    <3> QED BY <1>2, <1>4, <2>1, <2>3, <3>1
  <2> QED BY <2>2, <2>3
<1>10. LoadComplete'
  BY <1>2, <1>5, <1>6 DEF LoadComplete, LoadingInv
<1> QED BY <1>7, <1>8, <1>9, <1>10

\* An index that is built anew claims nothing.
LEMMA UpdateContents ==
  ASSUME CacheInv, UpdateIndex PROVE ContentsInv'
<1> USE DEF CacheInv, SizeInv
<1>1. PICK c \in Classes :
         lines' = [f \in Files |-> IF f = Current THEN <<c>> ELSE lines[f + 1]]
  BY DEF UpdateIndex
<1>2. /\ entries' = [f \in Files |-> {}] /\ classesRead' = [f \in Files |-> {}]
      /\ readPos' = 0 /\ pc' = "idle"
  BY DEF UpdateIndex, queryVars
<1>3. TypeOK' /\ Current \in Files
  BY OtherTyped, LogCacheAssumption DEF Current, Files
<1>4. PositionInv'
  <2>1. Len(lines'[Current]) \in Nat
    BY <1>3 DEF TypeOK
  <2> QED BY <1>2, <1>3, <2>1 DEF PositionInv, Reading
<1>5. LoadingInv' /\ LoadComplete'
  BY <1>2 DEF LoadingInv, LoadComplete, Reading
<1>6. CacheCoherent'
  BY <1>2 DEF CacheCoherent, OnlyLines, Holds
<1> QED BY <1>4, <1>5, <1>6 DEF ContentsInv

\* A query that begins or ends, and a step of none, touches neither cache nor log.
LEMMA QuietContents ==
  ASSUME CacheInv, UNCHANGED <<lines, cacheVars>>, pc \notin Reading,
         pc' \in {"idle", "ready"}
  PROVE  ContentsInv'
<1> USE DEF CacheInv, ContentsInv, cacheVars
<1>1. PositionInv'
  BY DEF PositionInv, Reading
<1>2. LoadingInv' /\ LoadComplete'
  BY DEF LoadingInv, LoadComplete, Reading
<1>3. CacheCoherent'
  BY DEF CacheCoherent, ReadUpTo
<1> QED BY <1>1, <1>2, <1>3

\* A step that changes nothing keeps the contents.
LEMMA StutterContents ==
  ASSUME CacheInv, UNCHANGED vars PROVE ContentsInv'
<1> USE DEF CacheInv, ContentsInv, cacheVars, queryVars, vars
<1>1. PositionInv'
  BY DEF PositionInv
<1>2. LoadingInv' /\ LoadComplete'
  BY DEF LoadingInv, LoadComplete, ReadUpTo
<1>3. CacheCoherent'
  BY DEF CacheCoherent, ReadUpTo
<1> QED BY <1>1, <1>2, <1>3

\* Nothing is to be loaded when the classes have been read, or of a file that
\* cannot be opened.
LEMMA LoadNothingContents ==
  ASSUME CacheInv, NEW f \in Files, LoadNothing(f) PROVE ContentsInv'
<1> USE DEF CacheInv, SizeInv, ContentsInv
<1>1. /\ pc \in {"ready", "loaded"} /\ pc' = "loaded" /\ file' = f
      /\ upto' = IF f # Current /\ classmask \subseteq classesRead[f]
                 THEN Len(lines[f]) ELSE 0
      /\ UNCHANGED <<lines, entries, classesRead, lineno, readPos, classmask, reading,
                     missing, pos>>
  BY DEF LoadNothing, cacheVars
<1>2. lines[f] \in Seq(Classes) /\ Len(lines[f]) \in Nat
  BY DEF TypeOK
<1>3. PositionInv'
  BY <1>1 DEF PositionInv, Reading
<1>4. LoadingInv'
  BY <1>1, <1>2 DEF LoadingInv, Reading
<1>5. CacheCoherent'
  BY <1>1 DEF CacheCoherent, ReadUpTo
<1>6. Holds(entries[f], lines[f], upto', classmask)
  <2>1. CASE f # Current /\ classmask \subseteq classesRead[f]
    <3>1. Holds(entries[f], lines[f], Len(lines[f]), classesRead[f])
      BY <2>1 DEF CacheCoherent, ReadUpTo
    <3> QED BY <1>1, <1>2, <2>1, <3>1, HoldsKept
  <2>2. CASE ~(f # Current /\ classmask \subseteq classesRead[f])
    BY <1>1, <2>2, HoldsNothing
  <2> QED BY <2>1, <2>2
<1>7. LoadComplete'
  BY <1>1, <1>6 DEF LoadComplete
<1> QED BY <1>3, <1>4, <1>5, <1>7

\* The growth begins where the last load stopped: up to there the classes read are
\* in the cache.
LEMMA LoadGrowthContents ==
  ASSUME CacheInv, LoadGrowth PROVE ContentsInv'
<1> USE DEF CacheInv, SizeInv, ContentsInv
<1> DEFINE read == classesRead[Current]
<1>1. /\ pc \in {"ready", "loaded"} /\ pc' = "growth" /\ file' = Current
      /\ read # {} /\ reading' = read /\ missing' = classmask \ read
      /\ pos' = readPos /\ upto' = Len(lines[Current])
      /\ UNCHANGED <<lines, entries, classesRead, lineno, readPos, classmask>>
  BY DEF LoadGrowth, cacheVars
<1>2. Current \in Files /\ readPos \in Nat
  BY LogCacheAssumption DEF Current, Files, TypeOK
<1>3. lines[Current] \in Seq(Classes) /\ Len(lines[Current]) \in Nat
  BY <1>2 DEF TypeOK
<1>4. Holds(entries[Current], lines[Current], readPos, read)
  BY <1>2 DEF CacheCoherent, ReadUpTo
<1>5. Holds(entries[Current], lines[Current], readPos, read \cap classmask)
  <2>1. read \cap classmask \subseteq read
    OBVIOUS
  <2> HIDE DEF read
  <2> QED BY <1>2, <1>4, <2>1, HoldsKept
<1>6. PositionInv'
  BY <1>1, <1>2, <1>3 DEF PositionInv, Reading
<1>7. LoadingInv'
  BY <1>1, <1>3, <1>4, <1>5 DEF LoadingInv
<1>8. CacheCoherent' /\ LoadComplete'
  BY <1>1 DEF CacheCoherent, ReadUpTo, LoadComplete
<1> QED BY <1>6, <1>7, <1>8

\* A file that is read for missing classes keeps the others.
LEMMA LoadMissingContents ==
  ASSUME CacheInv, NEW f \in Files, LoadMissing(f) PROVE ContentsInv'
<1> USE DEF CacheInv, SizeInv, ContentsInv
<1>1. /\ pc \in {"ready", "loaded"} /\ pc' = "missing" /\ file' = f
      /\ f = Current => classesRead[f] = {}
      /\ reading' = classmask \ classesRead[f] /\ missing' = reading'
      /\ pos' = 0 /\ lineno' = [lineno EXCEPT ![f] = 0] /\ upto' = Len(lines[f])
      /\ UNCHANGED <<lines, entries, classesRead, readPos, classmask>>
  BY DEF LoadMissing
<1>2. lines[f] \in Seq(Classes) /\ Len(lines[f]) \in Nat /\ lineno'[f] = 0
  BY <1>1 DEF TypeOK
<1>3. PositionInv'
  <2>1. f # Current => lineno'[Current] = lineno[Current]
    BY <1>1, LogCacheAssumption DEF TypeOK, Current, Files
  <2>2. Smaller(MaxLines, 0) = 0
    BY LogCacheAssumption DEF Smaller
  <2> QED BY <1>1, <1>2, <2>1, <2>2 DEF PositionInv, Reading
<1>4. Holds(entries[f], lines[f], Len(lines[f]), classmask \ missing')
  <2>1. Holds(entries[f], lines[f], Len(lines[f]), classesRead[f])
    <3>1. CASE f = Current
      BY <1>1, <1>2, <3>1, HoldsNothing
    <3>2. CASE f # Current
      BY <3>2 DEF CacheCoherent, ReadUpTo
    <3> QED BY <3>1, <3>2
  <2>2. classmask \ missing' \subseteq classesRead[f]
    BY <1>1
  <2> QED BY <1>2, <2>1, <2>2, HoldsKept
<1>5. Holds(entries[f], lines[f], 0, missing')
  BY HoldsNothing
<1>6. LoadingInv'
  <2>1. classesRead[f] = {} \/ f # Current
    BY <1>1
  <2> QED BY <1>1, <1>2, <1>4, <1>5, <2>1 DEF LoadingInv, ReadUpTo
<1>7. CacheCoherent' /\ LoadComplete'
  BY <1>1 DEF CacheCoherent, ReadUpTo, LoadComplete
<1> QED BY <1>3, <1>6, <1>7

\* What is stored is the line at the position, under its number; a line number
\* that is there already is that of the same line.
LEMMA LineStored ==
  ASSUME CacheInv, ReadLine
  PROVE  LET n == pos + 1
             c == lines[file][pos + 1]
         IN  /\ n \in 1 .. Len(lines[file]) /\ pos < MaxLines /\ lineno[file] = pos
             /\ entries[file] \subseteq entries'[file]
             /\ \A f \in Files \ {file} : entries'[f] = entries[f]
             /\ OnlyLines(entries'[file], lines[file])
             /\ c \in reading => <<n, c>> \in entries'[file]
<1> USE DEF CacheInv, SizeInv, ContentsInv
<1> DEFINE n == pos + 1
           c == lines[file][pos + 1]
<1>1. /\ pc \in Reading /\ pos < Len(lines[file]) /\ WithinLimit(file)
      /\ IF c \in reading THEN Store(c) ELSE UNCHANGED <<entries, numCached, evicting>>
  BY DEF ReadLine, Reading
<1>2. /\ file \in Files /\ pos \in Nat /\ lines[file] \in Seq(Classes)
      /\ Len(lines[file]) \in Nat /\ entries[file] \subseteq Nat \X Classes
      /\ entries \in [Files -> SUBSET (Nat \X Classes)]
  BY DEF TypeOK
<1>3. n \in 1 .. Len(lines[file]) /\ pos < MaxLines /\ lineno[file] = pos
  BY <1>1, <1>2, LogCacheAssumption DEF PositionInv, WithinLimit, Smaller
<1>4. OnlyLines(entries[file], lines[file])
  BY <1>2 DEF CacheCoherent
<1>5. CASE c \in reading /\ \E e \in entries[file] : e[1] = n
  <2>1. UNCHANGED entries
    BY <1>1, <1>3, <1>5 DEF Store
  <2>2. PICK e \in entries[file] : e[1] = n
    BY <1>5
  <2>3. e[2] = c
    BY <1>4, <2>2 DEF OnlyLines
  <2>4. e = <<n, c>>
    BY <1>2, <2>2, <2>3
  <2> QED BY <1>3, <1>4, <2>1, <2>4
<1>6. CASE c \in reading /\ ~\E e \in entries[file] : e[1] = n
  <2>1. entries' = [entries EXCEPT ![file] = @ \cup {<<n, c>>}]
    BY <1>1, <1>3, <1>6 DEF Store
  <2>2. entries'[file] = entries[file] \cup {<<n, c>>}
    BY <1>2, <2>1
  <2>3. <<n, c>>[1] \in DOMAIN lines[file] /\ lines[file][<<n, c>>[1]] = <<n, c>>[2]
    BY <1>2, <1>3
  <2>4. OnlyLines(entries'[file], lines[file])
    BY <1>4, <2>2, <2>3 DEF OnlyLines
  <2> QED BY <1>2, <1>3, <2>1, <2>2, <2>4
<1>7. CASE c \notin reading
  BY <1>1, <1>3, <1>4, <1>7
<1> QED BY <1>5, <1>6, <1>7

\* Each pass has loaded what it reads for up to the position.
LEMMA ReadLineContents ==
  ASSUME CacheInv, ReadLine PROVE ContentsInv'
<1> USE DEF CacheInv, SizeInv, ContentsInv
<1> DEFINE n == pos + 1
           c == lines[file][pos + 1]
<1>1. /\ pc \in Reading
      /\ pos' = n /\ lineno' = [lineno EXCEPT ![file] = @ + 1]
      /\ UNCHANGED <<lines, classesRead, readPos, pc, classmask, file, reading, missing,
                     upto>>
  BY DEF ReadLine, Reading
<1>2. /\ file \in Files /\ pos \in Nat /\ upto \in Nat /\ readPos \in Nat
      /\ lines[file] \in Seq(Classes) /\ Len(lines[file]) \in Nat
      /\ lineno \in [Files -> Nat]
  BY DEF TypeOK
<1>3. /\ n \in 1 .. Len(lines[file]) /\ pos < MaxLines /\ lineno[file] = pos
      /\ entries[file] \subseteq entries'[file]
      /\ \A f \in Files \ {file} : entries'[f] = entries[f]
      /\ OnlyLines(entries'[file], lines[file])
      /\ c \in reading => <<n, c>> \in entries'[file]
  BY LineStored
<1>4. PositionInv'
  <2>1. lineno'[file] = n /\ n = Smaller(MaxLines, n)
    BY <1>1, <1>2, <1>3, LogCacheAssumption DEF Smaller
  <2>2. Current # file => lineno'[Current] = lineno[Current]
    BY <1>1, <1>2, LogCacheAssumption DEF Current, Files
  <2> QED BY <1>1, <1>2, <1>3, <2>1, <2>2 DEF PositionInv
<1>5. ASSUME NEW length \in Nat, NEW classes,
             Holds(entries[file], lines[file], length, classes)
      PROVE  Holds(entries'[file], lines[file], length, classes)
  BY <1>3, <1>5 DEF Holds
<1>6. ASSUME NEW classes \in SUBSET reading, Holds(entries[file], lines[file], pos, classes)
      PROVE  Holds(entries'[file], lines[file], n, classes)
  BY <1>2, <1>3, <1>6, HoldsNext
<1>7. LoadingInv'
  <2>1. CASE pc = "growth"
    <3>1. /\ classesRead[file] \subseteq reading /\ missing = classmask \ reading
          /\ Holds(entries[file], lines[file], pos, classesRead[file])
          /\ Holds(entries[file], lines[file], pos, reading \cap classmask)
          /\ upto <= Len(lines[file])
      BY <2>1 DEF LoadingInv, Reading
    <3>2. /\ Holds(entries'[file], lines[file], n, classesRead[file])
          /\ Holds(entries'[file], lines[file], n, reading \cap classmask)
      <4>1. reading \cap classmask \subseteq reading
        OBVIOUS
      <4> HIDE DEF n
      <4> QED BY <1>6, <3>1, <4>1
    <3> QED BY <1>1, <2>1, <3>1, <3>2 DEF LoadingInv
  <2>2. CASE pc = "missing"
    <3>1. /\ reading = missing /\ missing \subseteq classmask
          /\ Holds(entries[file], lines[file], pos, missing)
          /\ Holds(entries[file], lines[file], upto, classmask \ missing)
          /\ \/ classesRead[file] = {}
             \/ ReadUpTo(file) = Len(lines[file])
             \/ ReadUpTo(file) >= MaxLines
          /\ upto <= Len(lines[file])
      BY <2>2 DEF LoadingInv, Reading
    <3>2. /\ Holds(entries'[file], lines[file], n, missing)
          /\ Holds(entries'[file], lines[file], upto, classmask \ missing)
      <4> HIDE DEF n
      <4> QED BY <1>2, <1>5, <1>6, <3>1
    <3>3. ReadUpTo(file)' = ReadUpTo(file)
      BY <1>1 DEF ReadUpTo
    <3> QED BY <1>1, <2>2, <3>1, <3>2, <3>3 DEF LoadingInv
  <2> QED BY <1>1, <2>1, <2>2 DEF Reading
<1>8. CacheCoherent'
  <2> SUFFICES ASSUME NEW f \in Files
               PROVE  /\ OnlyLines(entries'[f], lines[f])
                      /\ Holds(entries'[f], lines[f], ReadUpTo(f), classesRead[f])
    BY <1>1 DEF CacheCoherent, ReadUpTo
  <2>1. CASE f = file
    <3>1. Holds(entries[f], lines[f], ReadUpTo(f), classesRead[f])
      BY DEF CacheCoherent
    <3>2. ReadUpTo(f) \in Nat
      BY <1>2, <2>1 DEF ReadUpTo
    <3> QED BY <1>3, <1>5, <2>1, <3>1, <3>2
  <2>2. CASE f # file
    BY <1>3, <2>2 DEF CacheCoherent
  <2> QED BY <2>1, <2>2
<1>9. LoadComplete'
  BY <1>1 DEF LoadComplete, Reading
<1> QED BY <1>4, <1>7, <1>8, <1>9

\* Eviction takes classes of a file off the list together with their messages, and
\* none that the query asks for from the file that is loaded.
LEMMA EvictContents ==
  ASSUME CacheInv, Evict PROVE ContentsInv'
<1> USE DEF CacheInv, SizeInv, ContentsInv
<1>1. PICK e \in Candidate :
           /\ e = evicting[1] /\ evicting # <<>>
           /\ DOMAIN evicting = 1 .. Len(Tail(evicting)) + 1
           /\ Tail(evicting) \in Seq(Candidate)
           /\ entries' = [entries EXCEPT ![e.file] = @ \ EvictGone(e)]
           /\ classesRead' = [classesRead EXCEPT
                                 ![e.file] = IF EvictApplies(e) THEN @ \ e.drop ELSE @]
           /\ UNCHANGED <<lines, lineno, readPos, queryVars>>
  BY EvictUnfolded
<1>2. UNCHANGED <<lines, lineno, readPos, pc, classmask, file, reading, missing, pos, upto>>
  BY <1>1 DEF queryVars
<1>3. /\ e.file \in Files /\ file \in Files /\ pos \in Nat /\ upto \in Nat
      /\ \A f \in Files : lines[f] \in Seq(Classes) /\ Len(lines[f]) \in Nat
  BY DEF TypeOK, Candidate
<1>4. pc \in Reading /\ (e.file = file => e.drop \cap classmask = {})
  <2>1. 1 \in DOMAIN evicting
    BY <1>1
  <2> QED BY <1>1, <2>1 DEF EvictionInv
<1>5. \A f \in Files : /\ entries'[f] \subseteq entries[f]
                       /\ classesRead'[f] \subseteq classesRead[f]
                       /\ \A m \in entries[f] \ entries'[f] : m[2] \notin classesRead'[f]
  BY <1>1, <1>3 DEF TypeOK, EvictGone
<1>6. \A m \in entries[file] \ entries'[file] : m[2] \notin classmask
  BY <1>1, <1>3, <1>4 DEF TypeOK, EvictGone
<1>7. ASSUME NEW classes \in SUBSET classmask, NEW length \in Nat,
             Holds(entries[file], lines[file], length, classes)
      PROVE  Holds(entries'[file], lines[file], length, classes)
  <2>1. \A m \in entries[file] : m[2] \in classes => m \in entries'[file]
    BY <1>6
  <2> QED BY <1>7, <2>1, HoldsKept
<1>8. ASSUME NEW f \in Files, NEW length \in Nat,
             Holds(entries[f], lines[f], length, classesRead[f])
      PROVE  Holds(entries'[f], lines[f], length, classesRead'[f])
  <2>1. \A m \in entries[f] : m[2] \in classesRead'[f] => m \in entries'[f]
    BY <1>5
  <2>2. classesRead'[f] \subseteq classesRead[f]
    BY <1>5
  <2> QED BY <1>8, <2>1, <2>2, HoldsKept
<1>9. PositionInv'
  <2>1. classesRead'[Current] # {} => classesRead[Current] # {}
    BY <1>5, LogCacheAssumption DEF Current, Files
  <2> QED BY <1>2, <2>1 DEF PositionInv
<1>10. LoadingInv'
  <2>1. CASE pc = "growth"
    <3>1. /\ classesRead[file] \subseteq reading /\ missing = classmask \ reading
          /\ Holds(entries[file], lines[file], pos, classesRead[file])
          /\ Holds(entries[file], lines[file], pos, reading \cap classmask)
          /\ upto <= Len(lines[file])
      BY <2>1 DEF LoadingInv, Reading
    <3>2. Holds(entries'[file], lines[file], pos, reading \cap classmask)
      <4>1. reading \cap classmask \subseteq classmask
        OBVIOUS
      <4> QED BY <1>3, <1>7, <3>1, <4>1
    <3>3. Holds(entries'[file], lines[file], pos, classesRead'[file])
      BY <1>3, <1>8, <3>1
    <3> QED BY <1>2, <1>3, <1>5, <2>1, <3>1, <3>2, <3>3 DEF LoadingInv
  <2>2. CASE pc = "missing"
    <3>1. /\ reading = missing /\ missing \subseteq classmask
          /\ Holds(entries[file], lines[file], pos, missing)
          /\ Holds(entries[file], lines[file], upto, classmask \ missing)
          /\ \/ classesRead[file] = {}
             \/ ReadUpTo(file) = Len(lines[file])
             \/ ReadUpTo(file) >= MaxLines
          /\ upto <= Len(lines[file])
      BY <2>2 DEF LoadingInv, Reading
    <3>2. /\ Holds(entries'[file], lines[file], pos, missing)
          /\ Holds(entries'[file], lines[file], upto, classmask \ missing)
      <4>1. classmask \ missing \subseteq classmask
        OBVIOUS
      <4> QED BY <1>3, <1>7, <3>1, <4>1
    <3>3. /\ ReadUpTo(file)' = ReadUpTo(file)
          /\ classesRead[file] = {} => classesRead'[file] = {}
      BY <1>2, <1>3, <1>5 DEF ReadUpTo
    <3> QED BY <1>2, <2>2, <3>1, <3>2, <3>3 DEF LoadingInv
  <2> QED BY <1>4, <2>1, <2>2 DEF Reading
<1>11. CacheCoherent'
  <2> SUFFICES ASSUME NEW f \in Files
               PROVE  /\ OnlyLines(entries'[f], lines[f])
                      /\ Holds(entries'[f], lines[f], ReadUpTo(f), classesRead'[f])
    BY <1>2 DEF CacheCoherent, ReadUpTo
  <2>1. OnlyLines(entries'[f], lines[f])
    BY <1>5 DEF CacheCoherent, OnlyLines
  <2>2. ReadUpTo(f) \in Nat
    BY <1>3 DEF ReadUpTo, TypeOK
  <2> QED BY <1>8, <2>1, <2>2 DEF CacheCoherent
<1>12. LoadComplete'
  BY <1>2, <1>4 DEF LoadComplete, Reading
<1> QED BY <1>9, <1>10, <1>11, <1>12

\* At the end of a pass, the position has passed every line within the limit, and
\* the line number is that of the position it goes on from.
LEMMA PassEnds ==
  ASSUME CacheInv, pc \in Reading, PassOver
  PROVE  /\ PosAfter \in Nat /\ PosAfter <= Len(lines[file])
         /\ pos = Len(lines[file]) \/ pos >= MaxLines
         /\ PosAfter = Len(lines[file]) \/ PosAfter >= MaxLines
         /\ PosAfter <= pos \/ pos >= MaxLines
         /\ lineno[file] = Smaller(MaxLines, PosAfter)
<1> USE DEF CacheInv, SizeInv, ContentsInv
<1>1. /\ pos \in Nat /\ lines[file] \in Seq(Classes) /\ Len(lines[file]) \in Nat
      /\ pos <= Len(lines[file]) /\ lineno[file] = Smaller(MaxLines, pos)
  BY DEF TypeOK, PositionInv
<1>2. pos = Len(lines[file]) \/ pos >= MaxLines
  BY <1>1, LogCacheAssumption DEF PassOver, WithinLimit, Smaller
<1> QED BY <1>1, <1>2, LogCacheAssumption DEF PosAfter, Smaller

\* The growth has been read: what the query asks for and was read before is there
\* to the end, and so is what is still marked as read.
LEMMA EndGrowthContents ==
  ASSUME CacheInv, EndGrowth PROVE ContentsInv'
<1> USE DEF CacheInv, SizeInv, ContentsInv
<1>1. /\ pc = "growth" /\ PassOver /\ readPos' = PosAfter
      /\ UNCHANGED <<lines, entries, classesRead, classmask, file, missing, upto>>
      /\ \/ /\ missing = {} /\ pc' = "loaded" /\ pos' = PosAfter
            /\ UNCHANGED <<lineno, reading>>
         \/ /\ missing # {} /\ pc' = "missing" /\ pos' = 0
            /\ lineno' = [lineno EXCEPT ![file] = 0] /\ reading' = missing
  BY DEF EndGrowth
<1>2. /\ file = Current /\ file \in Files /\ pos \in Nat /\ upto \in Nat
      /\ lines[file] \in Seq(Classes) /\ Len(lines[file]) \in Nat
      /\ lineno \in [Files -> Nat]
  BY <1>1 DEF PositionInv, TypeOK
<1>3. /\ PosAfter \in Nat /\ PosAfter <= Len(lines[file])
      /\ pos = Len(lines[file]) \/ pos >= MaxLines
      /\ PosAfter = Len(lines[file]) \/ PosAfter >= MaxLines
      /\ PosAfter <= pos \/ pos >= MaxLines
      /\ lineno[file] = Smaller(MaxLines, PosAfter)
  BY <1>1, PassEnds DEF Reading
<1>4. /\ missing = classmask \ reading /\ upto <= Len(lines[file])
      /\ Holds(entries[file], lines[file], pos, classesRead[file])
      /\ Holds(entries[file], lines[file], pos, reading \cap classmask)
  BY <1>1 DEF LoadingInv, Reading
<1>5. Holds(entries[file], lines[file], upto, classmask \ missing)
  <2>1. classmask \ missing \subseteq reading \cap classmask
    BY <1>4
  <2>2. upto <= pos \/ pos >= MaxLines
    BY <1>2, <1>3, <1>4
  <2> QED BY <1>2, <1>4, <2>1, <2>2, HoldsKept
<1>6. Holds(entries[file], lines[file], PosAfter, classesRead[file])
  BY <1>2, <1>3, <1>4, HoldsKept
<1>7. PositionInv'
  <2>1. Smaller(MaxLines, 0) = 0
    BY LogCacheAssumption DEF Smaller
  <2>2. missing # {} => lineno'[file] = 0
    BY <1>1, <1>2
  <2> QED BY <1>1, <1>2, <1>3, <2>1, <2>2 DEF PositionInv, Reading
<1>8. LoadingInv'
  <2>1. CASE missing = {}
    BY <1>1, <1>4, <2>1 DEF LoadingInv
  <2>2. CASE missing # {}
    <3>1. Holds(entries[file], lines[file], 0, missing)
      BY HoldsNothing
    <3>2. ReadUpTo(file)' = PosAfter
      BY <1>1, <1>2 DEF ReadUpTo
    <3> QED BY <1>1, <1>3, <1>4, <1>5, <2>2, <3>1, <3>2 DEF LoadingInv
  <2> QED BY <2>1, <2>2
<1>9. CacheCoherent'
  BY <1>1, <1>2, <1>6 DEF CacheCoherent, ReadUpTo
<1>10. LoadComplete'
  <2>1. missing = {} => classmask \ missing = classmask
    OBVIOUS
  <2> QED BY <1>1, <1>5, <2>1 DEF LoadComplete
<1> QED BY <1>7, <1>8, <1>9, <1>10

\* The missing classes have been read to the end, and the others were.
LEMMA EndMissingContents ==
  ASSUME CacheInv, EndMissing PROVE ContentsInv'
<1> USE DEF CacheInv, SizeInv, ContentsInv
<1>1. /\ pc = "missing" /\ PassOver /\ pc' = "loaded"
      /\ classesRead' = [classesRead EXCEPT ![file] = @ \cup missing]
      /\ readPos' = IF file = Current THEN PosAfter ELSE readPos
      /\ UNCHANGED <<lines, entries, lineno, classmask, file, reading, missing, pos, upto>>
  BY DEF EndMissing
<1>2. /\ file \in Files /\ pos \in Nat /\ upto \in Nat /\ readPos \in Nat
      /\ Current \in Files
      /\ lines[file] \in Seq(Classes) /\ Len(lines[file]) \in Nat
      /\ classesRead'[file] = classesRead[file] \cup missing
      /\ \A f \in Files \ {file} : classesRead'[f] = classesRead[f]
  BY <1>1, LogCacheAssumption DEF TypeOK, Current, Files
<1>3. /\ PosAfter \in Nat /\ PosAfter <= Len(lines[file])
      /\ pos = Len(lines[file]) \/ pos >= MaxLines
      /\ lineno[file] = Smaller(MaxLines, PosAfter)
  BY <1>1, PassEnds DEF Reading
<1>4. /\ missing \subseteq classmask
      /\ Holds(entries[file], lines[file], pos, missing)
      /\ Holds(entries[file], lines[file], upto, classmask \ missing)
      /\ \/ classesRead[file] = {}
         \/ ReadUpTo(file) = Len(lines[file])
         \/ ReadUpTo(file) >= MaxLines
      /\ upto <= Len(lines[file])
  BY <1>1 DEF LoadingInv, Reading
<1>5. ASSUME NEW length \in Nat, length <= Len(lines[file])
      PROVE  Holds(entries[file], lines[file], length, missing)
  <2>1. length <= pos \/ pos >= MaxLines
    BY <1>2, <1>3, <1>5
  <2> QED BY <1>2, <1>4, <1>5, <2>1, HoldsKept
<1>6. PositionInv'
  BY <1>1, <1>2, <1>3 DEF PositionInv, Reading
<1>7. LoadingInv'
  BY <1>1, <1>4 DEF LoadingInv
<1>8. LoadComplete'
  <2>1. Holds(entries[file], lines[file], upto, (classmask \ missing) \cup missing)
    BY <1>2, <1>4, <1>5, HoldsBoth
  <2>2. (classmask \ missing) \cup missing = classmask
    BY <1>4
  <2> QED BY <1>1, <2>1, <2>2 DEF LoadComplete
<1>9. CacheCoherent'
  <2> SUFFICES ASSUME NEW f \in Files
               PROVE  /\ OnlyLines(entries[f], lines[f])
                      /\ Holds(entries[f], lines[f], ReadUpTo(f)', classesRead'[f])
    BY <1>1 DEF CacheCoherent
  <2>1. OnlyLines(entries[f], lines[f])
    BY DEF CacheCoherent
  <2>2. CASE f = file
    <3>1. /\ ReadUpTo(f)' \in Nat /\ ReadUpTo(f) \in Nat
          /\ ReadUpTo(f)' <= Len(lines[file])
      BY <1>1, <1>2, <1>3, <2>2 DEF ReadUpTo
    <3>2. Holds(entries[f], lines[f], ReadUpTo(f)', missing)
      BY <1>5, <2>2, <3>1
    <3>3. Holds(entries[f], lines[f], ReadUpTo(f)', classesRead[f])
      <4>1. CASE classesRead[f] = {}
        BY <3>1, <4>1, HoldsNothing
      <4>2. CASE classesRead[f] # {}
        <5>1. ReadUpTo(f)' <= ReadUpTo(f) \/ ReadUpTo(f) >= MaxLines
          BY <1>2, <1>4, <2>2, <3>1, <4>2
        <5>2. Holds(entries[f], lines[f], ReadUpTo(f), classesRead[f])
          BY DEF CacheCoherent
        <5> QED BY <3>1, <5>1, <5>2, HoldsKept
      <4> QED BY <4>1, <4>2
    <3> QED BY <1>2, <2>1, <2>2, <3>1, <3>2, <3>3, HoldsBoth
  <2>3. CASE f # file
    <3>1. ReadUpTo(f)' = ReadUpTo(f)
      BY <1>1, <2>3 DEF ReadUpTo
    <3> QED BY <1>2, <2>1, <2>3, <3>1 DEF CacheCoherent
  <2> QED BY <2>2, <2>3
<1> QED BY <1>6, <1>7, <1>8, <1>9

\* The contents of the cache are kept by every step.
LEMMA NextContents ==
  ASSUME NoWriteBetweenPasses PROVE CacheInv /\ [Next]_vars => CacheInv'
<1> SUFFICES ASSUME CacheInv, [Next]_vars PROVE CacheInv'
  OBVIOUS
<1>1. SizeInv'
  BY NextSize DEF CacheInv
<1>2. ContentsInv'
  <2>1. ASSUME NEW c \in Classes, AppendLine(c) PROVE ContentsInv'
    BY <2>1, AppendContents
  <2>2. CASE UpdateIndex
    BY <2>2, UpdateContents
  <2>3. ASSUME NEW mask \in SUBSET Classes, StartQuery(mask) PROVE ContentsInv'
    BY <2>3, QuietContents DEF StartQuery, Reading
  <2>4. CASE EndQuery
    BY <2>4, QuietContents DEF EndQuery, Reading
  <2>5. ASSUME NEW f \in Files, Load(f) PROVE ContentsInv'
    BY <2>5, LoadNothingContents, LoadMissingContents DEF Load
  <2>6. CASE LoadGrowth
    BY <2>6, LoadGrowthContents
  <2>7. CASE ReadLine
    BY <2>7, ReadLineContents
  <2>8. CASE Evict
    BY <2>8, EvictContents
  <2>9. CASE EndGrowth
    BY <2>9, EndGrowthContents
  <2>10. CASE EndMissing
    BY <2>10, EndMissingContents
  <2>11. CASE UNCHANGED vars
    BY <2>11, StutterContents
  <2> QED BY <2>1, <2>2, <2>3, <2>4, <2>5, <2>6, <2>7, <2>8, <2>9, <2>10, <2>11 DEF Next
<1> QED BY <1>1, <1>2 DEF CacheInv

\* Both parts of the invariant always hold, if nothing is written between the
\* passes of a load.
LEMMA CacheInvariant ==
  ASSUME NoWriteBetweenPasses PROVE Spec => []CacheInv
<1>1. Init => CacheInv
  BY InitSize, InitContents DEF CacheInv
<1>2. CacheInv /\ [Next]_vars => CacheInv'
  BY NextContents
<1> QED BY <1>1, <1>2, PTL DEF Spec

------------------------------------------------------------------------------
\* The variables of cache, query and eviction have their types at every moment.
THEOREM TypeCorrect == Spec => []TypeOK
<1>1. SizeInv => TypeOK
  BY DEF SizeInv
<1> QED BY <1>1, SizeInvariant, PTL

\* num_cached_log_messages is at every moment the number of messages in memory,
\* through duplicate lines, flushes, freed classes and rebuilt indexes, whenever
\* Nagios writes (LogCache::logLineHasBeenAdded, Logfile::processLogLine).
THEOREM CountIsExact == Spec => []NumCachedExact
<1>1. SizeInv => NumCachedExact
  BY DEF SizeInv
<1> QED BY <1>1, SizeInvariant, PTL

\* The memory check keeps the cache within its limit, or what a single file may
\* hold, and the messages loaded between two checks.
THEOREM MemoryIsBounded == Spec => []MemoryBounded
<1>1. SizeInv => MemoryBounded
  BY DEF SizeInv, MemoryInv, MemoryBounded, Limit
<1> QED BY <1>1, SizeInvariant, PTL

\* logLineHasBeenAdded gives memory back only above the limit, and never a message
\* that the query asks for of the file that is being loaded.
THEOREM EvictionSparesTheQuery == Spec => EvictionSparesQuery
<1>1. SizeInv /\ [Next]_vars =>
         [\A f \in Files : \A e \in entries[f] \ entries'[f] :
             pc # "idle" => /\ numCached > MaxCached
                            /\ ~(f = file /\ e[2] \in classmask)]_vars
  <2> SUFFICES ASSUME SizeInv, Next, pc # "idle",
                      NEW f \in Files, NEW m \in entries[f] \ entries'[f]
               PROVE  numCached > MaxCached /\ ~(f = file /\ m[2] \in classmask)
    OBVIOUS
  <2>1. Evict
    <3>1. CASE ReadLine
      BY <3>1 DEF ReadLine, Store, SizeInv, TypeOK
    <3>2. CASE UpdateIndex
      BY <3>2 DEF UpdateIndex
    <3>3. ~ReadLine /\ ~UpdateIndex /\ ~Evict => UNCHANGED entries
      BY DEF Next, AppendLine, StartQuery, EndQuery, Load, LoadNothing, LoadMissing,
             LoadGrowth, EndGrowth, EndMissing, cacheVars
    <3> QED BY <3>1, <3>2, <3>3
  <2>2. PICK e \in Candidate :
             /\ e = evicting[1] /\ evicting # <<>>
             /\ DOMAIN evicting = 1 .. Len(Tail(evicting)) + 1
             /\ Tail(evicting) \in Seq(Candidate)
             /\ entries' = [entries EXCEPT ![e.file] = @ \ EvictGone(e)]
    BY <2>1, EvictUnfolded DEF SizeInv
  <2>3. e.file = f /\ m[2] \in e.drop
    BY <2>2 DEF EvictGone, SizeInv, TypeOK, Candidate
  <2>4. numCached > MaxCached /\ (e.file = file => e.drop \cap classmask = {})
    <3>1. 1 \in DOMAIN evicting
      BY <2>2
    <3> QED BY <2>2, <3>1 DEF SizeInv, EvictionInv
  <2> QED BY <2>3, <2>4
<1> QED BY <1>1, SizeInvariant, PTL DEF Spec, EvictionSparesQuery

\* A class that is marked as read is in the cache to the last line that has been
\* read, with the right line numbers, if Nagios does not write between the two
\* passes of Logfile::load.
THEOREM CacheIsCoherent ==
  ASSUME NoWriteBetweenPasses PROVE Spec => []CacheCoherent
<1>1. CacheInv => CacheCoherent
  BY DEF CacheInv, ContentsInv
<1> QED BY <1>1, CacheInvariant, PTL

\* getEntriesFor returns every line of the classes the query asks for that the file
\* had when the call began, however many messages were evicted during the call and
\* before, if Nagios does not write between the two passes of Logfile::load.
THEOREM LoadsAreComplete ==
  ASSUME NoWriteBetweenPasses PROVE Spec => []LoadComplete
<1>1. CacheInv => LoadComplete
  BY DEF CacheInv, ContentsInv
<1> QED BY <1>1, CacheInvariant, PTL

------------------------------------------------------------------------------
(* The index of files: what is proved about LogIndex, whose state is apart *)
(* from that of the cache.                                                *)

RotationSteps == {"note", "rename", "begin"}

IndexTypeOK ==
    /\ now \in Nat
    /\ lastRotation \in Nat
    /\ rotation \subseteq RotationSteps
    /\ current \in Nat \ {0}
    /\ written \in BOOLEAN
    /\ archive \subseteq Nat \ {0}
    /\ DOMAIN index \subseteq Nat \ {0}
    /\ index \in [DOMAIN index -> Nat]
    /\ lastUpdate \in Nat
    /\ phase \in {"idle", "ready", "addWatched", "addArchive", "using"}
    /\ clean \in BOOLEAN

\* nagios.log is younger than every log of the archive, and has a first line
\* whenever no rotation is under way.
DiskInv ==
    /\ \A k \in archive : k < current
    /\ "begin" \notin rotation => written /\ "rename" \notin rotation

\* A rotation that has met no update is later than the last one, from its
\* start on by its second and from its note on by what Nagios says.
RotationNoticed ==
    clean /\ rotation # {} =>
        /\ phase \notin {"addWatched", "addArchive"}
        /\ SecondOf(now) > SecondOf(lastUpdate)
        /\ "note" \notin rotation => lastRotation > lastUpdate

\* What the index holds after each step of an update that met no rotation; no
\* query goes on with an index it has found empty.
IndexSound ==
    /\ phase = "idle" => DOMAIN index = {}
    /\ clean /\ rotation = {} =>
        /\ phase = "addWatched" => DOMAIN index = {}
        /\ phase = "addArchive" => DOMAIN index = {current} /\ index[current] = Watched
        /\ phase = "ready" => \/ DOMAIN index = {}
                           \/ lastRotation > lastUpdate
                           \/ Complete
        /\ phase = "using" => lastRotation > lastUpdate \/ Complete

IndexInv == IndexTypeOK /\ DiskInv /\ RotationNoticed /\ IndexSound

------------------------------------------------------------------------------
\* What a clock in whole seconds says of one that is finer: a second begins at or
\* before each of its ticks, and seconds follow each other as their ticks do.
LEMMA Seconds ==
  ASSUME NEW t \in Nat, NEW u \in Nat
  PROVE  /\ SecondOf(t) \in Nat
         /\ SecondOf(t) > SecondOf(u) => SecondOf(t) * TicksPerSecond > u
         /\ SecondOf(t + 1) >= SecondOf(t)
BY LogIndexAssumption DEF SecondOf

\* An index of logs by path stays one when entries are added to it.
LEMMA AddToIndexTyped ==
  ASSUME IndexTypeOK, NEW D \in SUBSET (Nat \ {0}), NEW found \in [D -> Nat]
  PROVE  /\ DOMAIN AddToIndex(found) \subseteq Nat \ {0}
         /\ AddToIndex(found) \in [DOMAIN AddToIndex(found) -> Nat]
BY DEF IndexTypeOK, AddToIndex

\* The module starts with an empty index, and no rotation under way.
LEMMA IndexStartsSound == IndexInit => IndexInv
<1> SUFFICES ASSUME IndexInit PROVE IndexInv
  OBVIOUS
<1>1. IndexTypeOK
  BY LogIndexAssumption DEF IndexInit, IndexTypeOK
<1>2. DiskInv /\ RotationNoticed
  BY DEF IndexInit, DiskInv, RotationNoticed
<1>3. IndexSound
  BY DEF IndexInit, IndexSound
<1> QED BY <1>1, <1>2, <1>3 DEF IndexInv

\* Every step keeps the types.
LEMMA NextTyped == IndexTypeOK /\ [IndexNext]_indexVars => IndexTypeOK'
<1> SUFFICES ASSUME IndexTypeOK, [IndexNext]_indexVars PROVE IndexTypeOK'
  OBVIOUS
<1> USE LogIndexAssumption DEF IndexTypeOK, RotationSteps, diskVars
<1>1. CASE NoteRotation
  <2>1. lastRotation' \in Nat
    BY <1>1, Seconds DEF NoteRotation
  <2> QED BY <1>1, <2>1 DEF NoteRotation
<1>2. CASE Tick BY <1>2 DEF Tick
<1>3. CASE Rotate
  <2>1. clean' \in BOOLEAN
    BY <1>3 DEF Rotate
  <2> QED BY <1>3, <2>1 DEF Rotate
<1>4. CASE Rename
  <2>1. current' \in Nat \ {0} /\ archive' \subseteq Nat \ {0}
    BY <1>4 DEF Rename
  <2> QED BY <1>4, <2>1 DEF Rename
<1>5. CASE BeginLog BY <1>5 DEF BeginLog
<1>6. CASE Call BY <1>6 DEF Call
<1>7. CASE UpToDate BY <1>7 DEF UpToDate
<1>8. CASE Rebuild
  <2>1. clean' \in BOOLEAN
    BY <1>8 DEF Rebuild
  <2> QED BY <1>8, <2>1 DEF Rebuild
<1>9. CASE AddWatched
  <2>1. Entry(current, Watched) \in [{current} -> Nat]
    BY DEF Entry, Watched
  <2> HIDE DEF IndexTypeOK
  <2>2. /\ DOMAIN AddToIndex(Entry(current, Watched)) \subseteq Nat \ {0}
        /\ AddToIndex(Entry(current, Watched))
               \in [DOMAIN AddToIndex(Entry(current, Watched)) -> Nat]
    BY <2>1, AddToIndexTyped DEF IndexTypeOK
  <2> QED BY <1>9, <2>2 DEF AddWatched, IndexTypeOK
<1>10. CASE AddArchive
  <2>1. [k \in archive |-> k] \in [archive -> Nat]
    OBVIOUS
  <2> HIDE DEF IndexTypeOK
  <2>2. /\ DOMAIN AddToIndex([k \in archive |-> k]) \subseteq Nat \ {0}
        /\ AddToIndex([k \in archive |-> k])
               \in [DOMAIN AddToIndex([k \in archive |-> k]) -> Nat]
    BY <2>1, AddToIndexTyped DEF IndexTypeOK
  <2> QED BY <1>10, <2>2 DEF AddArchive, IndexTypeOK
<1>11. CASE UNCHANGED indexVars BY <1>11 DEF indexVars
<1> QED
  BY <1>1, <1>2, <1>3, <1>4, <1>5, <1>6, <1>7, <1>8, <1>9, <1>10, <1>11 DEF IndexNext

\* Only Nagios touches the disk.
LEMMA NextDisk == IndexTypeOK /\ DiskInv /\ [IndexNext]_indexVars => DiskInv'
<1> SUFFICES ASSUME IndexTypeOK, DiskInv, [IndexNext]_indexVars PROVE DiskInv'
  OBVIOUS
<1> USE DEF DiskInv, diskVars
<1>1. CASE Rename
  BY <1>1 DEF Rename, IndexTypeOK
<1>2. CASE NoteRotation BY <1>2 DEF NoteRotation
<1>3. CASE Rotate BY <1>3 DEF Rotate
<1>4. CASE BeginLog BY <1>4 DEF BeginLog
<1>5. ASSUME UNCHANGED <<rotation, current, written, archive>> PROVE DiskInv'
  BY <1>5
<1> QED
  BY <1>1, <1>2, <1>3, <1>4, <1>5
     DEF IndexNext, Tick, Call, UpToDate, Rebuild, AddWatched, AddArchive, indexVars

\* Within a rotation that has met no update, a step keeps it so or gives up the
\* claim; when Nagios notes the time, that time is later than the last update.
LEMMA NextNoticed == IndexInv /\ [IndexNext]_indexVars => RotationNoticed'
<1> SUFFICES ASSUME IndexInv, [IndexNext]_indexVars, clean', rotation' # {}
             PROVE  /\ phase' \notin {"addWatched", "addArchive"}
                    /\ SecondOf(now') > SecondOf(lastUpdate')
                    /\ "note" \notin rotation' => lastRotation' > lastUpdate'
  BY DEF RotationNoticed, SecondOf
<1> USE DEF IndexInv, IndexTypeOK, RotationNoticed, diskVars
<1>1. CASE Tick
  <2>1. SecondOf(now') >= SecondOf(now) /\ SecondOf(now') \in Nat
    BY <1>1, Seconds DEF Tick
  <2>2. SecondOf(now) \in Nat /\ SecondOf(lastUpdate) \in Nat
    BY Seconds
  <2> QED BY <1>1, <2>1, <2>2 DEF Tick
<1>2. CASE Rotate
  BY <1>2 DEF Rotate
<1>3. CASE NoteRotation
  <2>1. SecondOf(now) > SecondOf(lastUpdate)
    BY <1>3 DEF NoteRotation
  <2>2. lastRotation' > lastUpdate
    BY <1>3, <2>1, Seconds DEF NoteRotation
  <2> QED BY <1>3, <2>1, <2>2 DEF NoteRotation
<1>4. CASE Rename BY <1>4 DEF Rename
<1>5. CASE BeginLog BY <1>5 DEF BeginLog
<1>6. CASE Call BY <1>6 DEF Call
<1>7. CASE UpToDate BY <1>7 DEF UpToDate
<1>8. CASE Rebuild BY <1>8 DEF Rebuild
<1>9. CASE AddWatched BY <1>9 DEF AddWatched
<1>10. CASE AddArchive BY <1>10 DEF AddArchive
<1>11. CASE UNCHANGED indexVars BY <1>11 DEF indexVars
<1> QED
  BY <1>1, <1>2, <1>3, <1>4, <1>5, <1>6, <1>7, <1>8, <1>9, <1>10, <1>11 DEF IndexNext

------------------------------------------------------------------------------
\* Neither the clock nor the ghost matter to whether the index is complete.
LEMMA CompleteStable ==
  ASSUME UNCHANGED <<index, current, archive>>
  PROVE  Complete' = Complete
BY DEF Complete, OnDisk, Content

\* An archive added to an index of nagios.log alone makes it complete.
LEMMA AddingArchiveCompletes ==
  ASSUME IndexTypeOK, DiskInv, DOMAIN index = {current}, index[current] = Watched,
         AddArchive
  PROVE  Complete'
<1>1. index' = [k \in {current} \cup archive |-> IF k = current THEN Watched ELSE k]
  BY DEF AddArchive, AddToIndex
<1>2. DOMAIN index' = {current} \cup archive
  BY <1>1
<1>3. current' = current /\ archive' = archive
  BY DEF AddArchive, diskVars
<1>4. ASSUME NEW k \in {current} \cup archive PROVE Content(index[k])' = k
  <2>1. k # current => k # Watched
    BY DEF IndexTypeOK, Watched
  <2>2. index'[k] = IF k = current THEN Watched ELSE k
    BY <1>1
  <2> QED BY <1>3, <2>1, <2>2 DEF Content
<1> QED BY <1>2, <1>3, <1>4 DEF Complete, OnDisk

\* Between rotations an update passes through an empty index, one of nagios.log
\* alone and a complete one; a rotation that ends is later than the last update.
LEMMA NextSound == IndexInv /\ [IndexNext]_indexVars => IndexSound'
<1>0. IndexInv /\ [IndexNext]_indexVars => (phase' = "idle" => DOMAIN index' = {})
  BY DEF IndexInv, IndexTypeOK, IndexSound, IndexNext, indexVars, diskVars, Tick,
         Rotate, NoteRotation, Rename, BeginLog, Call, UpToDate, Rebuild, AddWatched, AddArchive
<1> SUFFICES ASSUME IndexInv, [IndexNext]_indexVars, clean', rotation' = {}
             PROVE  /\ phase' = "addWatched" => DOMAIN index' = {}
                    /\ phase' = "addArchive" => /\ DOMAIN index' = {current'}
                                             /\ index'[current'] = Watched
                    /\ phase' = "ready" => \/ DOMAIN index' = {}
                                        \/ lastRotation' > lastUpdate'
                                        \/ Complete'
                    /\ phase' = "using" => lastRotation' > lastUpdate' \/ Complete'
  BY <1>0 DEF IndexSound
<1> USE DEF IndexInv, IndexTypeOK, IndexSound, diskVars
<1>1. CASE Tick
  BY <1>1, CompleteStable DEF Tick
<1>2. CASE Rotate BY <1>2 DEF Rotate
<1>3. CASE NoteRotation
  <2>1. clean /\ rotation # {} /\ clean' = clean
    BY <1>3 DEF NoteRotation
  <2>2. "note" \notin rotation'
    BY <1>3 DEF NoteRotation
  <2>3. lastRotation' > lastUpdate'
    BY <1>3, <2>1, NextNoticed, Seconds DEF NoteRotation, RotationNoticed
  <2>4. phase' \notin {"addWatched", "addArchive"} /\ UNCHANGED <<index, phase>>
    BY <1>3, <2>1 DEF NoteRotation, RotationNoticed
  <2> QED BY <2>3, <2>4
<1>4. CASE Rename BY <1>4 DEF Rename, DiskInv, RotationSteps
<1>5. CASE BeginLog
  <2>1. "note" \notin rotation /\ rotation # {} /\ clean
    BY <1>5 DEF BeginLog
  <2> QED BY <1>5, <2>1 DEF BeginLog, RotationNoticed
<1>6. CASE Call
  BY <1>6, CompleteStable DEF Call
<1>7. CASE UpToDate
  BY <1>7, CompleteStable DEF UpToDate
<1>8. CASE Rebuild BY <1>8 DEF Rebuild
<1>9. CASE AddWatched
  <2>1. written /\ DOMAIN index = {}
    BY <1>9 DEF AddWatched, DiskInv
  <2>2. index' = [k \in {current} |-> Watched]
    BY <1>9, <2>1 DEF AddWatched, AddToIndex, Entry
  <2> QED BY <1>9, <2>2 DEF AddWatched
<1>10. CASE AddArchive
  BY <1>10, AddingArchiveCompletes DEF AddArchive
<1>11. CASE UNCHANGED indexVars
  BY <1>11, CompleteStable DEF indexVars
<1> QED
  BY <1>1, <1>2, <1>3, <1>4, <1>5, <1>6, <1>7, <1>8, <1>9, <1>10, <1>11 DEF IndexNext

------------------------------------------------------------------------------
\* The invariant is one of the specification.
LEMMA IndexInvariant == IndexSpec => []IndexInv
<1>1. IndexInit => IndexInv
  BY IndexStartsSound
<1>2. IndexInv /\ [IndexNext]_indexVars => IndexInv'
  BY NextTyped, NextDisk, NextNoticed, NextSound DEF IndexInv
<1> QED BY <1>1, <1>2, PTL DEF IndexSpec

\* The variables of index and disk have their types at every moment, also while
\* Nagios rotates its log and the index is rebuilt.
THEOREM IndexTypeCorrect == IndexSpec => []IndexTypeOK
<1>1. IndexInv => IndexTypeOK
  BY DEF IndexInv
<1> QED BY <1>1, IndexInvariant, PTL

\* A query that has called update finds every log under the time stamp of its
\* own first line, unless the last rotation met an update or began in its second:
\* LogCache::update notices each rotation that no update races with, and what it
\* builds then is complete, whatever earlier races have left behind.
THEOREM RotationRepairsIndex == IndexSpec => []IndexRepaired
<1>1. IndexInv => IndexRepaired
  BY DEF IndexInv, IndexTypeOK, IndexSound, IndexRepaired
<1> QED BY <1>1, IndexInvariant, PTL
==============================================================================
