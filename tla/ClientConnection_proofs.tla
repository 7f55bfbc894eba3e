------------------------ MODULE ClientConnection_proofs ------------------------
(***************************************************************************)
(* Proofs about InputBuffer and ClientConnection: what holds of a          *)
(* connection for any stream of bytes, any sizes of the buffer and any     *)
(* number of requests.                                                     *)
(***************************************************************************)
EXTENDS ClientConnection, WellFoundedInduction, TLAPS

------------------------------------------------------------------------------
(* Numbers and sequences *)

\* Among natural numbers there is a least one.
LEMMA LeastNumber ==
  ASSUME NEW S \in SUBSET Nat, S # {}
  PROVE  \E x \in S : \A y \in S : x <= y
<1>1. IsWellFoundedOn(OpToRel(<, Nat), Nat)
  BY NatLessThanWellFounded
<1>2. PICK x \in S : \A y \in S : ~(<<y, x>> \in OpToRel(<, Nat))
  BY <1>1, WFMin
<1>3. \A y \in S : ~(y < x)
  BY <1>2 DEF OpToRel
<1> QED BY <1>3

\* Among natural numbers up to a bound there is a greatest one.
LEMMA GreatestNumber ==
  ASSUME NEW n \in Nat, NEW S \in SUBSET (0 .. n), S # {}
  PROVE  \E x \in S : \A y \in S : y <= x
<1> DEFINE D == {d \in Nat : n - d \in S}
<1>1. D \in SUBSET Nat /\ D # {}
  <2>1. PICK s \in S : TRUE
    OBVIOUS
  <2>2. n - s \in D
    BY <2>1
  <2> QED BY <2>2
<1>2. PICK d \in D : \A y \in D : d <= y
  BY <1>1, LeastNumber
<1>3. n - d \in S
  BY <1>2
<1>4. \A y \in S : n - y \in D
  OBVIOUS
<1>5. \A y \in S : y <= n - d
  BY <1>2, <1>4
<1> QED BY <1>3, <1>5

\* One sequence behind another.
LEMMA Concatenation ==
  ASSUME NEW S, NEW s \in Seq(S), NEW t \in Seq(S)
  PROVE  /\ s \o t \in Seq(S)
         /\ Len(s \o t) = Len(s) + Len(t)
         /\ \A i \in 1 .. Len(s) + Len(t) :
                (s \o t)[i] = IF i <= Len(s) THEN s[i] ELSE t[i - Len(s)]
  OBVIOUS

\* A header before an answer of two pieces.
LEMMA OneBeforeTwo ==
  ASSUME NEW S, NEW s \in Seq(S), NEW t \in Seq(S), Len(s) = 1, Len(t) = 2
  PROVE  /\ s \o t \in Seq(S) /\ Len(s \o t) = 3
         /\ (s \o t)[1] = s[1] /\ (s \o t)[2] = t[1] /\ (s \o t)[3] = t[2]
<1> DEFINE u == s \o t
<1>1. /\ u \in Seq(S)
      /\ Len(u) = Len(s) + Len(t)
      /\ \A i \in 1 .. Len(s) + Len(t) : u[i] = IF i <= Len(s) THEN s[i] ELSE t[i - Len(s)]
  BY Concatenation
<1> HIDE DEF u
<1>2. Len(u) = 3 /\ \A i \in 1 .. 3 : u[i] = IF i <= 1 THEN s[i] ELSE t[i - 1]
  BY <1>1
<1>3. u[1] = s[1] /\ u[2] = t[1] /\ u[3] = t[2]
  BY <1>2
<1> QED BY <1>1, <1>2, <1>3 DEF u

\* The loop over isspace stops somewhere, and leaves the beginning of the line.
LEMMA TrimmedSound ==
  ASSUME NEW line \in Seq(Bytes)
  PROVE  /\ Trimmed(line) \in Seq(Bytes)
         /\ Trimmed(line) # <<>> => line # <<>> /\ Head(Trimmed(line)) = Head(line)
<1> DEFINE Blanks == {n \in 0 .. Len(line) : \A i \in n + 1 .. Len(line) : line[i] = Blank}
           Last(n) == /\ n > 0 => line[n] # Blank
                      /\ \A i \in n + 1 .. Len(line) : line[i] = Blank
<1>1. Len(line) \in Blanks /\ Blanks \in SUBSET Nat
  OBVIOUS
<1>2. PICK n \in Blanks : \A m \in Blanks : n <= m
  <2> HIDE DEF Blanks
  <2> QED BY <1>1, LeastNumber
<1>3. n > 0 => line[n] # Blank
  <2>1. ASSUME n > 0, line[n] = Blank PROVE FALSE
    <3>1. n - 1 \in 0 .. Len(line)
      BY <2>1
    <3>2. \A i \in n .. Len(line) : line[i] = Blank
      BY <2>1
    <3>3. n - 1 \in Blanks
      BY <3>1, <3>2
    <3>4. n <= n - 1
      BY <1>2, <3>3
    <3> QED BY <3>1, <3>4
  <2> QED BY <2>1
<1>4. \E m \in 0 .. Len(line) : Last(m)
  BY <1>2, <1>3
<1>5. PICK m \in 0 .. Len(line) : Trimmed(line) = SubSeq(line, 1, m)
  BY <1>4 DEF Trimmed
<1>6. /\ SubSeq(line, 1, m) \in Seq(Bytes) /\ Len(SubSeq(line, 1, m)) = m
      /\ \A i \in 1 .. m : SubSeq(line, 1, m)[i] = line[i]
  OBVIOUS
<1> DEFINE front == SubSeq(line, 1, m)
<1> HIDE DEF front
<1>7. ASSUME front # <<>> PROVE line # <<>> /\ Head(front) = Head(line)
  <2>1. m > 0 /\ m <= Len(line)
    BY <1>6, <1>7 DEF front
  <2>2. front[1] = line[1]
    BY <1>6, <2>1 DEF front
  <2>3. Head(front) = front[1] /\ Head(line) = line[1] /\ line # <<>>
    BY <1>6, <1>7, <2>1 DEF front
  <2> QED BY <2>2, <2>3
<1> QED BY <1>5, <1>6, <1>7 DEF front

------------------------------------------------------------------------------
(* The lines of a stream *)

\* A line starts somewhere.
LEMMA LineStarts ==
  ASSUME NEW s \in Seq(Bytes), NEW e \in LineEnds(s)
  PROVE  \E b \in 1 .. e : StartsAt(s, b, e)
<1> DEFINE S == {i \in 0 .. e - 1 : i > 0 => s[i] = Newline}
<1>1. e \in 1 .. Len(s)
  BY DEF LineEnds
<1>2. 0 \in S /\ e - 1 \in Nat /\ S \in SUBSET (0 .. e - 1)
  BY <1>1
<1>3. PICK x \in S : \A y \in S : y <= x
  <2> HIDE DEF S
  <2> QED BY <1>2, GreatestNumber
<1>4. \A i \in x + 1 .. e - 1 : s[i] # Newline
  <2> SUFFICES ASSUME NEW i \in x + 1 .. e - 1, s[i] = Newline PROVE FALSE
    OBVIOUS
  <2>1. i \in S /\ i > x
    BY <1>1
  <2> QED BY <1>3, <2>1
<1>5. x + 1 \in 1 .. e /\ StartsAt(s, x + 1, e)
  <2>1. x \in Nat /\ x <= e - 1 /\ (x > 0 => s[x] = Newline)
    BY <1>1, <1>3
  <2>2. (x + 1) - 1 = x
    BY <2>1
  <2> QED BY <1>1, <1>4, <2>1, <2>2 DEF StartsAt
<1> QED BY <1>5

\* It is what lies between its start and its end.
LEMMA LineToIs ==
  ASSUME NEW s \in Seq(Bytes), NEW e \in Nat, NEW b \in 1 .. e, StartsAt(s, b, e)
  PROVE  LineTo(s, e) = SubSeq(s, b, e - 1)
<1> DEFINE c == CHOOSE x \in 1 .. e : StartsAt(s, x, e)
<1>1. c \in 1 .. e /\ StartsAt(s, c, e)
  OBVIOUS
<1>2. LineTo(s, e) = SubSeq(s, c, e - 1)
  BY DEF LineTo
<1> HIDE DEF c
<1>3. ASSUME b < c PROVE FALSE
  <2>1. c - 1 \in b .. e - 1 /\ c > 1
    BY <1>1, <1>3
  <2> QED BY <1>1, <2>1 DEF StartsAt
<1>4. ASSUME c < b PROVE FALSE
  <2>1. b - 1 \in c .. e - 1 /\ b > 1
    BY <1>1, <1>4
  <2> QED BY <1>1, <2>1 DEF StartsAt
<1>5. c = b
  BY <1>1, <1>3, <1>4
<1> QED BY <1>2, <1>5

\* A part of a stream stays what it is when something is written behind it.
LEMMA SubSeqOfAppend ==
  ASSUME NEW s \in Seq(Bytes), NEW c \in Bytes,
         NEW m \in 1 .. Len(s), NEW n \in 0 .. Len(s)
  PROVE  SubSeq(Append(s, c), m, n) = SubSeq(s, m, n)
<1>1. \A i \in 1 .. Len(s) : Append(s, c)[i] = s[i]
  OBVIOUS
<1>2. SubSeq(s, m, n) = [i \in 1 .. (1 + n - m) |-> s[i + m - 1]]
  OBVIOUS
<1>3. SubSeq(Append(s, c), m, n) = [i \in 1 .. (1 + n - m) |-> Append(s, c)[i + m - 1]]
  OBVIOUS
<1>4. \A i \in 1 .. (1 + n - m) : i + m - 1 \in 1 .. Len(s)
  OBVIOUS
<1> QED BY <1>1, <1>2, <1>3, <1>4

\* So do the lines.
LEMMA AppendKeepsLines ==
  ASSUME NEW s \in Seq(Bytes), NEW c \in Bytes
  PROVE  /\ LineEnds(s) = {e \in LineEnds(Append(s, c)) : e <= Len(s)}
         /\ \A e \in LineEnds(s) : LineTo(Append(s, c), e) = LineTo(s, e)
<1> DEFINE t == Append(s, c)
<1>1. /\ t \in Seq(Bytes) /\ Len(t) = Len(s) + 1
      /\ \A i \in 1 .. Len(s) : t[i] = s[i]
  OBVIOUS
<1> HIDE DEF t
<1>2. LineEnds(s) = {e \in LineEnds(t) : e <= Len(s)}
  BY <1>1 DEF LineEnds
<1>3. ASSUME NEW e \in LineEnds(s) PROVE LineTo(t, e) = LineTo(s, e)
  <2>1. e \in 1 .. Len(s)
    BY DEF LineEnds
  <2>2. PICK b \in 1 .. e : StartsAt(s, b, e)
    BY LineStarts
  <2>3. StartsAt(t, b, e)
    BY <1>1, <2>1, <2>2 DEF StartsAt
  <2>4. LineTo(s, e) = SubSeq(s, b, e - 1) /\ LineTo(t, e) = SubSeq(t, b, e - 1)
    BY <1>1, <2>1, <2>2, <2>3, LineToIs
  <2>5. SubSeq(t, b, e - 1) = SubSeq(s, b, e - 1)
    <3>1. b \in 1 .. Len(s) /\ e - 1 \in 0 .. Len(s)
      BY <2>1
    <3> QED BY <3>1, SubSeqOfAppend DEF t
  <2> QED BY <2>4, <2>5
<1> QED BY <1>2, <1>3 DEF t

\* The requests of a stream are among those of a longer one, and a command is
\* no single line in the longer one if it is none already.
LEMMA AppendKeepsRequests ==
  ASSUME NEW s \in Seq(Bytes), NEW c \in Bytes
  PROVE  /\ FirstLines(s) = {e \in FirstLines(Append(s, c)) : e <= Len(s)}
         /\ CommandsAreSingleLines(Append(s, c)) => CommandsAreSingleLines(s)
<1> DEFINE t == Append(s, c)
<1>1. /\ LineEnds(s) = {e \in LineEnds(t) : e <= Len(s)}
      /\ \A e \in LineEnds(s) : LineTo(t, e) = LineTo(s, e)
  BY AppendKeepsLines
<1>2. LineEnds(s) \subseteq Nat /\ LineEnds(t) \subseteq Nat /\ Len(s) \in Nat
  BY DEF LineEnds
<1> HIDE DEF t
<1>3. \A e \in LineEnds(s) : HasText(t, e) <=> HasText(s, e)
  BY <1>1 DEF HasText
<1>4. \A d, e \in LineEnds(s) : SameParagraph(t, d, e) <=> SameParagraph(s, d, e)
  <2> SUFFICES ASSUME NEW d \in LineEnds(s), NEW e \in LineEnds(s)
               PROVE  SameParagraph(t, d, e) <=> SameParagraph(s, d, e)
    OBVIOUS
  <2>1. \A i \in LineEnds(t) : i \in d .. e => i \in LineEnds(s)
    BY <1>1, <1>2
  <2> QED BY <1>1, <2>1 DEF SameParagraph
<1>5. FirstLines(s) = {e \in FirstLines(t) : e <= Len(s)}
  <2>1. \A e \in LineEnds(s) : \A d \in LineEnds(t) : d < e => d \in LineEnds(s)
    BY <1>1, <1>2
  <2> QED BY <1>1, <1>2, <1>3, <1>4, <2>1 DEF FirstLines
<1>6. ASSUME CommandsAreSingleLines(t) PROVE CommandsAreSingleLines(s)
  <2> SUFFICES ASSUME NEW d \in FirstLines(s), Head(LineTo(s, d)) = "C",
                      NEW e \in LineEnds(s), d < e, SameParagraph(s, d, e)
               PROVE  ~HasText(s, e)
    BY DEF CommandsAreSingleLines
  <2>1. d \in FirstLines(t) /\ d \in LineEnds(s) /\ e \in LineEnds(t)
    BY <1>1, <1>5 DEF FirstLines
  <2>2. Head(LineTo(t, d)) = "C" /\ SameParagraph(t, d, e)
    BY <1>1, <1>4, <2>1
  <2>3. ~HasText(t, e)
    BY <1>6, <2>1, <2>2 DEF CommandsAreSingleLines
  <2> QED BY <1>3, <2>3
<1> QED BY <1>5, <1>6 DEF t

------------------------------------------------------------------------------
(* The sizes of the buffer *)

\* The first size is one of them, and so is the double of each that is within
\* the maximum.
LEMMA SizesDouble ==
  /\ InitialSize \in Sizes
  /\ \A n \in Sizes : 2 * n <= MaximumSize => 2 * n \in Sizes
<1>1. InitialSize \in Sizes
  BY SizeAssumption DEF Sizes, IsSetOfSizes
<1>2. ASSUME NEW n \in Sizes, 2 * n <= MaximumSize
      PROVE  2 * n \in Sizes
  <2>1. n \in InitialSize .. MaximumSize /\ 2 * n \in InitialSize .. MaximumSize
    BY <1>2, SizeAssumption DEF Sizes
  <2>2. ASSUME NEW S \in SUBSET (InitialSize .. MaximumSize), IsSetOfSizes(S)
        PROVE  2 * n \in S
    BY <1>2, <2>2 DEF Sizes, IsSetOfSizes
  <2> QED BY <2>1, <2>2 DEF Sizes
<1> QED BY <1>1, <1>2

\* Induction over the sizes.
LEMMA SizesInduction ==
  ASSUME NEW S \in SUBSET Sizes, InitialSize \in S,
         \A n \in S : 2 * n <= MaximumSize => 2 * n \in S
  PROVE  S = Sizes
<1>1. S \in SUBSET (InitialSize .. MaximumSize)
  BY DEF Sizes
<1>2. \A n \in Sizes : n \in S
  BY <1>1 DEF Sizes, IsSetOfSizes
<1> QED BY <1>2

\* One of the two is at least the double of the other.
Apart(m, n) == m = n \/ 2 * m <= n \/ 2 * n <= m

\* The sizes are the powers of two times the first.
LEMMA SizesApart == \A m, n \in Sizes : Apart(m, n)
<1> DEFINE S == {n \in Sizes : \A m \in Sizes : Apart(m, n)}
<1>1. Sizes \subseteq Nat \ {0}
  BY SizeAssumption DEF Sizes
<1>2. InitialSize \in S
  <2> DEFINE T == {m \in Sizes : Apart(m, InitialSize)}
  <2>1. InitialSize \in T
    BY SizesDouble DEF Apart
  <2>2. \A m \in T : 2 * m <= MaximumSize => 2 * m \in T
    <3>1. \A m \in Sizes : InitialSize <= m
      BY SizeAssumption DEF Sizes
    <3> QED BY <1>1, <3>1, SizesDouble, SizeAssumption DEF Apart
  <2>3. T = Sizes
    <3> HIDE DEF T
    <3>1. T \in SUBSET Sizes
      BY DEF T
    <3> QED BY <2>1, <2>2, <3>1, SizesInduction
  <2> QED BY <2>3, SizesDouble
<1>3. ASSUME NEW n \in S, 2 * n <= MaximumSize
      PROVE  2 * n \in S
  <2> DEFINE T == {m \in Sizes : Apart(m, 2 * n)}
  <2>1. n \in Sizes /\ 2 * n \in Sizes
    BY <1>3, SizesDouble
  <2>2. InitialSize \in T
    <3>1. InitialSize <= n /\ InitialSize \in Nat
      BY <2>1, SizeAssumption DEF Sizes
    <3> QED BY <1>1, <2>1, <3>1, SizesDouble DEF Apart
  <2>3. ASSUME NEW m \in T, 2 * m <= MaximumSize
        PROVE  2 * m \in T
    <3>1. Apart(m, n) /\ m \in Sizes
      BY <1>3, <2>3
    <3>2. Apart(2 * m, 2 * n)
      BY <1>1, <2>1, <3>1 DEF Apart
    <3> QED BY <2>3, <3>1, <3>2, SizesDouble
  <2>4. T = Sizes
    <3> HIDE DEF T
    <3>1. T \in SUBSET Sizes
      BY DEF T
    <3> QED BY <2>2, <2>3, <3>1, SizesInduction
  <2>5. \A m \in Sizes : Apart(m, 2 * n)
    BY <2>4
  <2> QED BY <2>1, <2>5
<1>4. S = Sizes
  <2> HIDE DEF S
  <2>1. S \in SUBSET Sizes
    BY DEF S
  <2> QED BY <1>2, <1>3, <2>1, SizesInduction
<1> QED BY <1>4

\* There is only one size that cannot be doubled.
LEMMA LongestLineIsSize ==
  ASSUME NEW n \in Sizes, 2 * n > MaximumSize
  PROVE  LongestLine = n
<1>1. LongestLine \in Sizes /\ 2 * LongestLine > MaximumSize
  BY DEF LongestLine
<1>2. Apart(LongestLine, n)
  BY <1>1, SizesApart
<1>3. LongestLine \in Nat /\ n \in Nat /\ LongestLine <= MaximumSize
      /\ n <= MaximumSize /\ MaximumSize \in Nat
  BY <1>1, SizeAssumption DEF Sizes
<1> QED BY <1>1, <1>2, <1>3 DEF Apart

------------------------------------------------------------------------------
(* The buffer *)

Lines == Seq(Bytes) \ {<<>>}

InputTypeOK ==
    /\ sent \in Seq(Bytes)
    /\ hungUp \in BOOLEAN
    /\ received \in 0 .. Len(sent)
    /\ capacity \in Sizes
    /\ buffer \in [0 .. capacity - 1 -> Bytes \cup {Nul}]
    /\ {readIndex, writeIndex, r} \subseteq Nat
    /\ requestLines \in Seq(Lines)
    /\ queryStarted \in BOOLEAN
    /\ pc \in {"caller", "scan", "read"}
    /\ result \in Results
    /\ shouldTerminate \in BOOLEAN

InputInv == InputTypeOK /\ BufferHoldsStream

\* The sizes are positive numbers up to the maximum.
LEMMA SizesPositive == Sizes \subseteq Nat \ {0}
  BY SizeAssumption DEF Sizes

\* A new connection has an empty buffer.
LEMMA InputInvInit == InputInit => InputInv
<1> SUFFICES ASSUME InputInit PROVE InputInv
  OBVIOUS
<1>1. InitialSize \in Sizes /\ InitialSize \in Nat \ {0}
  BY SizesDouble, SizeAssumption
<1>2. InputTypeOK
  BY <1>1 DEF InputInit, InputTypeOK, Results
<1>3. BufferHoldsStream
  BY <1>1 DEF InputInit, BufferHoldsStream, Consumed
<1> QED BY <1>2, <1>3 DEF InputInv

\* The bytes of a line in the buffer are those of the stream.
LEMMA LineOfStream ==
  ASSUME InputInv, NEW e \in readIndex .. writeIndex
  PROVE  /\ Consumed \in Nat /\ Consumed + (writeIndex - readIndex) = received
         /\ Line(readIndex, e) = SubSeq(sent, Consumed + 1, Consumed + e - readIndex)
         /\ Line(readIndex, e) \in Seq(Bytes)
<1>1. Consumed \in Nat /\ Consumed + (writeIndex - readIndex) = received
  BY DEF InputInv, InputTypeOK, BufferHoldsStream, Consumed
<1>2. e - readIndex \in Nat /\ Consumed + e - readIndex <= Len(sent)
      /\ readIndex \in Nat /\ e \in Nat
  BY <1>1 DEF InputInv, InputTypeOK, BufferHoldsStream
<1>3. \A i \in 1 .. e - readIndex :
          buffer[readIndex + i - 1] = sent[Consumed + i]
  BY <1>1, <1>2 DEF InputInv, InputTypeOK, BufferHoldsStream
<1>4. sent \in Seq(Bytes)
  BY DEF InputInv, InputTypeOK
<1> DEFINE part == SubSeq(sent, Consumed + 1, Consumed + e - readIndex)
<1>5. /\ part \in Seq(Bytes)
      /\ Len(part) = e - readIndex
      /\ \A i \in 1 .. e - readIndex : part[i] = sent[Consumed + i]
  BY <1>1, <1>2, <1>4
<1>6. part = [i \in 1 .. e - readIndex |-> part[i]]
  BY <1>5
<1>7. Line(readIndex, e) = [i \in 1 .. e - readIndex |-> part[i]]
  BY <1>3, <1>5 DEF Line
<1> QED BY <1>1, <1>5, <1>6, <1>7

\* The client writes, hangs up, or Nagios terminates the threads.
LEMMA EnvironmentKeepsBuffer ==
  ASSUME InputInv, Environment
  PROVE  InputInv'
<1>1. ASSUME NEW c \in Bytes, Send(c) PROVE InputInv'
  <2>1. sent' = Append(sent, c) /\ sent' \in Seq(Bytes)
    BY <1>1 DEF Send, InputInv, InputTypeOK
  <2>2. Len(sent') = Len(sent) + 1 /\ \A i \in 1 .. Len(sent) : sent'[i] = sent[i]
    BY <2>1 DEF InputInv, InputTypeOK
  <2>3. InputTypeOK'
    BY <1>1, <2>1, <2>2
       DEF Send, InputInv, InputTypeOK, bufferVars, callVars
  <2>4. UNCHANGED <<received, buffer, capacity, readIndex, writeIndex, r, pc>>
    BY <1>1 DEF Send, bufferVars, callVars
  <2>5. /\ readIndex \in Nat /\ writeIndex \in Nat
        /\ received \in Nat /\ received <= Len(sent)
    BY DEF InputInv, InputTypeOK
  <2>6. ASSUME NEW i \in readIndex .. writeIndex - 1
        PROVE  buffer[i] = sent'[Consumed + i - readIndex + 1]
    <3>1. Consumed + i - readIndex + 1 \in 1 .. Len(sent)
      BY <2>5 DEF InputInv, BufferHoldsStream, Consumed
    <3> QED BY <2>2, <3>1 DEF InputInv, BufferHoldsStream
  <2>7. BufferHoldsStream'
    BY <2>4, <2>6 DEF InputInv, BufferHoldsStream, Consumed
  <2> QED BY <2>3, <2>7 DEF InputInv
<1>2. ASSUME HangUp PROVE InputInv'
  BY <1>2 DEF HangUp, InputInv, InputTypeOK, BufferHoldsStream, Consumed, bufferVars,
              callVars
<1>3. ASSUME Terminate PROVE InputInv'
  BY <1>3 DEF Terminate, InputInv, InputTypeOK, BufferHoldsStream, Consumed,
              clientVars, bufferVars, callVars
<1> QED BY <1>1, <1>2, <1>3 DEF Environment

\* The caller asks for a request, or takes lines.
LEMMA CallerKeepsBuffer ==
  ASSUME InputInv,
         ReadRequest \/ \E n \in 1 .. Len(requestLines) : TakeLines(n)
  PROVE  InputInv'
<1>1. ASSUME ReadRequest PROVE InputInv'
  <2>1. InputTypeOK'
    BY <1>1 DEF ReadRequest, InputInv, InputTypeOK, clientVars, bufferVars
  <2>2. /\ UNCHANGED <<sent, received, buffer, readIndex, writeIndex, capacity>>
        /\ r' = readIndex /\ pc' = "scan"
    BY <1>1 DEF ReadRequest, clientVars, bufferVars
  <2>3. readIndex \in Nat /\ writeIndex \in Nat
    BY DEF InputInv, InputTypeOK
  <2>4. readIndex .. readIndex - 1 = {}
    BY <2>3
  <2>5. BufferHoldsStream'
    BY <2>2, <2>3, <2>4 DEF InputInv, BufferHoldsStream, Consumed
  <2> QED BY <2>1, <2>5 DEF InputInv
<1>2. ASSUME NEW n \in 1 .. Len(requestLines), TakeLines(n) PROVE InputInv'
  <2>1. requestLines' \in Seq(Lines)
    BY <1>2 DEF TakeLines, InputInv, InputTypeOK
  <2>2. InputTypeOK'
    BY <1>2, <2>1 DEF TakeLines, InputInv, InputTypeOK, Results, clientVars, bufferVars
  <2>3. BufferHoldsStream'
    BY <1>2 DEF TakeLines, InputInv, BufferHoldsStream, Consumed, clientVars, bufferVars
  <2> QED BY <2>2, <2>3 DEF InputInv
<1> QED BY <1>1, <1>2

\* A line is taken.
LEMMA FullLineKeepsBuffer == ASSUME InputInv, FullLine PROVE InputInv'
<1>1. PICK e \in r .. writeIndex :
        /\ ScanStopsAt(e)
        /\ e < writeIndex
        /\ e > readIndex
        /\ requestLines' = IF Trimmed(Line(readIndex, e)) = <<>> THEN requestLines
                           ELSE Append(requestLines, Trimmed(Line(readIndex, e)))
        /\ readIndex' = e + 1
        /\ r' = e + 1
  BY DEF FullLine
<1>2. e \in readIndex .. writeIndex
  BY <1>1 DEF InputInv, InputTypeOK
<1>3. Trimmed(Line(readIndex, e)) \in Seq(Bytes)
  BY <1>2, LineOfStream, TrimmedSound
<1>4. requestLines' \in Seq(Lines)
  <2>1. requestLines \in Seq(Lines)
    BY DEF InputInv, InputTypeOK
  <2> QED BY <1>1, <1>3, <2>1 DEF Lines
<1>5. InputTypeOK'
  BY <1>1, <1>4 DEF FullLine, InputInv, InputTypeOK, clientVars
<1>6. /\ readIndex \in Nat /\ writeIndex \in Nat /\ received \in Nat /\ e \in Nat
      /\ e > readIndex /\ e < writeIndex
      /\ pc # "read" /\ UNCHANGED <<sent, received, buffer, capacity, writeIndex, pc>>
  BY <1>1 DEF FullLine, InputInv, InputTypeOK, clientVars
<1>7. BufferHoldsStream'
  BY <1>1, <1>6 DEF InputInv, BufferHoldsStream, Consumed
<1> QED BY <1>5, <1>7 DEF InputInv

\* An empty line is taken.
LEMMA EmptyLineKeepsBuffer == ASSUME InputInv, EmptyLine PROVE InputInv'
<1>1. InputTypeOK'
  BY DEF EmptyLine, Return, Results, InputInv, InputTypeOK, clientVars
<1>2. /\ readIndex \in Nat /\ writeIndex \in Nat /\ received \in Nat
      /\ readIndex' = readIndex + 1 /\ r' = readIndex + 1 /\ pc' = "caller"
      /\ UNCHANGED <<sent, received, buffer, capacity, writeIndex>>
      /\ readIndex < writeIndex
  BY DEF EmptyLine, Return, InputInv, InputTypeOK, clientVars
<1>3. BufferHoldsStream'
  BY <1>2 DEF InputInv, BufferHoldsStream, Consumed
<1> QED BY <1>1, <1>3 DEF InputInv

\* memmove moves the bytes and the indexes alike.
LEMMA ShiftKeepsBuffer == ASSUME InputInv, Shift PROVE InputInv'
<1>1. /\ {readIndex, writeIndex, capacity, received, r} \subseteq Nat
      /\ readIndex <= writeIndex /\ writeIndex = capacity /\ readIndex <= r
      /\ r <= writeIndex
  BY SizesPositive DEF Shift, InputInv, InputTypeOK, BufferHoldsStream
<1>2. /\ DOMAIN buffer = 0 .. capacity - 1
      /\ \A i \in 0 .. capacity - 1 : buffer[i] \in Bytes \cup {Nul}
  BY DEF InputInv, InputTypeOK
<1>3. buffer' \in [0 .. capacity - 1 -> Bytes \cup {Nul}]
  BY <1>1, <1>2 DEF Shift
<1>4. \A i \in 0 .. writeIndex - readIndex - 1 : buffer'[i] = buffer[i + readIndex]
  BY <1>1, <1>2 DEF Shift
<1>5. InputTypeOK'
  BY <1>1, <1>3 DEF Shift, InputInv, InputTypeOK, clientVars
<1>6. Consumed' = Consumed
  BY <1>1 DEF Shift, Consumed
<1>7. \A i \in readIndex' .. writeIndex' - 1 :
          buffer'[i] = sent'[Consumed' + i - readIndex' + 1]
  <2>1. \A i \in 0 .. writeIndex - readIndex - 1 :
            buffer[i + readIndex] = sent[Consumed + i + 1]
    BY <1>1 DEF InputInv, BufferHoldsStream, Consumed
  <2> QED BY <1>1, <1>4, <1>6, <2>1 DEF Shift, clientVars, Consumed
<1>8. \A i \in 0 .. writeIndex - readIndex - 1 : buffer'[i] # Newline
  BY <1>1, <1>4 DEF Shift, ScanStopsAt, InputInv, BufferHoldsStream
<1>9. BufferHoldsStream'
  BY <1>1, <1>7, <1>8 DEF Shift, InputInv, BufferHoldsStream
<1> QED BY <1>5, <1>9 DEF InputInv

\* The larger buffer begins with what the smaller one held.
LEMMA GrowKeepsBuffer == ASSUME InputInv, Grow PROVE InputInv'
<1>1. /\ {readIndex, writeIndex, capacity, received, r} \subseteq Nat
      /\ capacity > 0 /\ writeIndex = capacity /\ readIndex = 0
      /\ r <= writeIndex
  BY SizesPositive DEF Grow, InputInv, InputTypeOK, BufferHoldsStream
<1>2. /\ DOMAIN buffer = 0 .. capacity - 1
      /\ \A i \in 0 .. capacity - 1 : buffer[i] \in Bytes \cup {Nul}
  BY DEF InputInv, InputTypeOK
<1>3. buffer' \in [0 .. 2 * capacity - 1 -> Bytes \cup {Nul}]
  BY <1>1, <1>2 DEF Grow
<1>4. \A i \in 0 .. capacity - 1 : buffer'[i] = buffer[i]
  BY <1>1 DEF Grow
<1>5. capacity' \in Sizes /\ capacity' = 2 * capacity
  BY SizesDouble DEF Grow, InputInv, InputTypeOK
<1>6. InputTypeOK'
  BY <1>1, <1>3, <1>5 DEF Grow, InputInv, InputTypeOK, clientVars
<1>7. /\ UNCHANGED <<sent, received, readIndex, writeIndex>>
      /\ r' = writeIndex /\ pc' = "scan"
      /\ \A i \in r .. writeIndex - 1 : buffer[i] # Newline
      /\ \A i \in readIndex .. r - 1 : buffer[i] # Newline
  BY DEF Grow, ScanStopsAt, clientVars, InputInv, BufferHoldsStream
<1>8. \A i \in readIndex .. writeIndex - 1 : buffer'[i] = buffer[i] /\ buffer[i] # Newline
  <2> SUFFICES ASSUME NEW i \in readIndex .. writeIndex - 1
               PROVE  buffer'[i] = buffer[i] /\ buffer[i] # Newline
    OBVIOUS
  <2>1. i \in 0 .. capacity - 1 /\ (i \in readIndex .. r - 1 \/ i \in r .. writeIndex - 1)
    BY <1>1
  <2> QED BY <1>4, <1>7, <2>1
<1>9. /\ writeIndex <= 2 * capacity /\ writeIndex - readIndex <= received
      /\ 0 <= readIndex /\ readIndex <= writeIndex
      /\ \A i \in readIndex .. writeIndex - 1 :
             buffer[i] = sent[Consumed + i - readIndex + 1]
  BY <1>1 DEF InputInv, BufferHoldsStream
<1>10. BufferHoldsStream'
  BY <1>1, <1>5, <1>7, <1>8, <1>9 DEF BufferHoldsStream, Consumed
<1> QED BY <1>6, <1>10 DEF InputInv

\* What is read goes behind what is there.
LEMMA ReadSomeKeepsBuffer ==
  ASSUME InputInv, NEW n \in 1 .. capacity, ReadSome(n)
  PROVE  InputInv'
<1>1. /\ readIndex \in Nat /\ writeIndex \in Nat /\ capacity \in Nat
      /\ received \in Nat /\ n \in Nat
      /\ readIndex <= writeIndex /\ writeIndex + n <= capacity
      /\ received + n <= Len(sent) /\ Len(sent) \in Nat
      /\ writeIndex - readIndex <= received
  BY SizesPositive DEF ReadSome, InputInv, InputTypeOK, BufferHoldsStream
<1>2. /\ DOMAIN buffer = 0 .. capacity - 1
      /\ \A i \in 0 .. capacity - 1 : buffer[i] \in Bytes \cup {Nul}
      /\ \A i \in 1 .. Len(sent) : sent[i] \in Bytes
  BY DEF InputInv, InputTypeOK
<1>3. /\ \A i \in readIndex .. writeIndex - 1 : buffer'[i] = buffer[i]
      /\ \A i \in writeIndex .. writeIndex + n - 1 :
             buffer'[i] = sent[received + i - writeIndex + 1]
  <2>1. buffer' = [i \in 0 .. capacity - 1 |->
                     IF i \in writeIndex .. writeIndex + n - 1
                     THEN sent[received + i - writeIndex + 1] ELSE buffer[i]]
    BY <1>2 DEF ReadSome
  <2>2. ASSUME NEW i \in readIndex .. writeIndex - 1
        PROVE  i \in 0 .. capacity - 1 /\ i \notin writeIndex .. writeIndex + n - 1
    BY <1>1
  <2>3. ASSUME NEW i \in writeIndex .. writeIndex + n - 1
        PROVE  i \in 0 .. capacity - 1
    BY <1>1
  <2> QED BY <2>1, <2>2, <2>3
<1>4. buffer' \in [0 .. capacity - 1 -> Bytes \cup {Nul}]
  <2>1. \A i \in writeIndex .. writeIndex + n - 1 :
            sent[received + i - writeIndex + 1] \in Bytes
    BY <1>1, <1>2
  <2> QED BY <1>1, <1>2, <2>1 DEF ReadSome
<1>5. InputTypeOK'
  BY <1>1, <1>4 DEF ReadSome, InputInv, InputTypeOK, clientVars
<1>6. Consumed' = Consumed
  BY <1>1 DEF ReadSome, Consumed
<1>7. ASSUME NEW i \in readIndex .. writeIndex + n - 1
      PROVE  buffer'[i] = sent[Consumed + i - readIndex + 1]
  <2>1. CASE i < writeIndex
    <3>1. i \in readIndex .. writeIndex - 1
      BY <1>1, <2>1
    <3> QED BY <1>3, <3>1 DEF InputInv, BufferHoldsStream
  <2>2. CASE i >= writeIndex
    <3>1. i \in writeIndex .. writeIndex + n - 1
      BY <1>1, <2>2
    <3>2. Consumed + i - readIndex + 1 = received + i - writeIndex + 1
      BY <1>1 DEF Consumed
    <3> QED BY <1>3, <3>1, <3>2
  <2> QED BY <1>1, <2>1, <2>2
<1>8. /\ r \in Nat /\ r = writeIndex /\ readIndex <= r
      /\ \A i \in readIndex .. r - 1 : buffer[i] # Newline
  BY DEF ReadSome, InputInv, InputTypeOK, BufferHoldsStream
<1>9. \A i \in readIndex .. r - 1 : buffer'[i] # Newline
  BY <1>1, <1>3, <1>8
<1>10. /\ writeIndex' = writeIndex + n /\ received' = received + n /\ pc' = "scan"
       /\ UNCHANGED <<sent, capacity, readIndex, r>>
  BY DEF ReadSome, clientVars
<1>11. BufferHoldsStream'
  BY <1>1, <1>6, <1>7, <1>8, <1>9, <1>10 DEF BufferHoldsStream
<1> QED BY <1>5, <1>11 DEF InputInv

\* readRequest goes on, with any of its steps.
LEMMA ReadingKeepsBuffer == ASSUME InputInv, Reading PROVE InputInv'
<1>1. CASE NeedData
  <2>1. InputTypeOK'
    BY <1>1 DEF NeedData, InputInv, InputTypeOK, clientVars, bufferVars
  <2>2. /\ UNCHANGED <<sent, received, buffer, readIndex, writeIndex, capacity>>
        /\ r' = writeIndex /\ pc = "scan" /\ pc' = "read"
    BY <1>1 DEF NeedData, clientVars, bufferVars
  <2>3. r \in Nat /\ readIndex \in Nat /\ writeIndex \in Nat
    BY DEF InputInv, InputTypeOK
  <2>4. /\ readIndex <= r /\ r <= writeIndex
        /\ \A i \in readIndex .. r - 1 : buffer[i] # Newline
    BY <2>2 DEF InputInv, BufferHoldsStream
  <2>5. \A i \in r .. writeIndex - 1 : buffer[i] # Newline
    BY <1>1 DEF NeedData, ScanStopsAt
  <2>6. \A i \in readIndex .. writeIndex - 1 : buffer[i] # Newline
    <3> SUFFICES ASSUME NEW i \in readIndex .. writeIndex - 1
                 PROVE  buffer[i] # Newline
      OBVIOUS
    <3>1. i \in readIndex .. r - 1 \/ i \in r .. writeIndex - 1
      BY <2>3
    <3> QED BY <2>4, <2>5, <3>1
  <2>7. BufferHoldsStream'
    BY <2>2, <2>3, <2>4, <2>6 DEF InputInv, BufferHoldsStream, Consumed
  <2> QED BY <2>1, <2>7 DEF InputInv
<1>2. CASE LineTooLong
  BY <1>2 DEF LineTooLong, Return, Results, InputInv, InputTypeOK, BufferHoldsStream,
              Consumed, clientVars, bufferVars
<1>3. CASE EndOfFile
  BY <1>3 DEF EndOfFile, Return, Results, InputInv, InputTypeOK, BufferHoldsStream,
              Consumed, clientVars, bufferVars
<1>4. CASE TimeOut
  BY <1>4 DEF TimeOut, Return, Results, InputInv, InputTypeOK, BufferHoldsStream,
              Consumed, clientVars, bufferVars
<1>5. CASE Terminated
  BY <1>5 DEF Terminated, Return, Results, InputInv, InputTypeOK, BufferHoldsStream,
              Consumed, clientVars, bufferVars
<1> QED
  BY <1>1, <1>2, <1>3, <1>4, <1>5, FullLineKeepsBuffer, EmptyLineKeepsBuffer,
     ShiftKeepsBuffer, GrowKeepsBuffer, ReadSomeKeepsBuffer
     DEF Reading

\* No step of the input side loses a byte.
LEMMA InputStep == InputInv /\ [InputNext]_inputVars => InputInv'
<1> SUFFICES ASSUME InputInv, [InputNext]_inputVars PROVE InputInv'
  OBVIOUS
<1>1. CASE UNCHANGED inputVars
  BY <1>1 DEF inputVars, clientVars, bufferVars, callVars, InputInv, InputTypeOK,
              BufferHoldsStream, Consumed
<1>2. CASE InputNext
  BY <1>2, EnvironmentKeepsBuffer, CallerKeepsBuffer, ReadingKeepsBuffer DEF InputNext
<1> QED BY <1>1, <1>2

------------------------------------------------------------------------------
(* The buffer implements the reader of requests *)

\* A steps that leaves the abstract state alone.
ReaderStutters ==
    UNCHANGED <<sent, hungUp, Consumed, requestLines, pc # "caller", result>>

\* Where the search in the buffer stops is where the next line of the stream
\* ends, if it has been read.
LEMMA ScanIsSearch ==
  ASSUME InputInv, pc # "caller", NEW e \in r .. writeIndex, ScanStopsAt(e)
  PROVE  /\ \A i \in Consumed + 1 .. Consumed + e - readIndex : sent[i] # Newline
         /\ e < writeIndex => /\ Consumed + e - readIndex + 1 \in Consumed + 1 .. Len(sent)
                              /\ sent[Consumed + e - readIndex + 1] = Newline
<1>1. /\ readIndex \in Nat /\ writeIndex \in Nat /\ received \in Nat /\ r \in Nat
      /\ e \in Nat /\ readIndex <= r /\ Consumed \in Nat
      /\ Consumed + (writeIndex - readIndex) = received /\ received <= Len(sent)
      /\ Len(sent) \in Nat /\ e <= writeIndex /\ readIndex <= e
  BY DEF InputInv, InputTypeOK, BufferHoldsStream, Consumed
<1>2. \A i \in readIndex .. e - 1 : buffer[i] # Newline
  BY <1>1 DEF ScanStopsAt, InputInv, BufferHoldsStream
<1>3. \A i \in readIndex .. writeIndex - 1 : buffer[i] = sent[Consumed + i - readIndex + 1]
  BY DEF InputInv, BufferHoldsStream
<1>4. ASSUME NEW i \in Consumed + 1 .. Consumed + e - readIndex
      PROVE  sent[i] # Newline
  <2>1. /\ i - Consumed + readIndex - 1 \in readIndex .. e - 1
        /\ i - Consumed + readIndex - 1 \in readIndex .. writeIndex - 1
        /\ Consumed + (i - Consumed + readIndex - 1) - readIndex + 1 = i
    BY <1>1
  <2> QED BY <1>2, <1>3, <2>1
<1>5. ASSUME e < writeIndex
      PROVE  /\ Consumed + e - readIndex + 1 \in Consumed + 1 .. Len(sent)
             /\ sent[Consumed + e - readIndex + 1] = Newline
  <2>1. e \in readIndex .. writeIndex - 1 /\ buffer[e] = Newline
    BY <1>1, <1>5 DEF ScanStopsAt
  <2>2. sent[Consumed + e - readIndex + 1] = Newline
    BY <1>3, <2>1
  <2> QED BY <1>1, <1>5, <2>2
<1> QED BY <1>4, <1>5

\* The line that is taken from the buffer is the next one of the stream.
LEMMA FullLineTakesLine ==
  ASSUME InputInv, FullLine
  PROVE  RequestReader!TakeLine
<1>1. PICK e \in r .. writeIndex :
        /\ ScanStopsAt(e)
        /\ e < writeIndex
        /\ e > readIndex
        /\ requestLines' = IF Trimmed(Line(readIndex, e)) = <<>> THEN requestLines
                           ELSE Append(requestLines, Trimmed(Line(readIndex, e)))
        /\ readIndex' = e + 1
  BY DEF FullLine
<1>2. /\ pc # "caller" /\ readIndex \in Nat /\ writeIndex \in Nat /\ received \in Nat
      /\ e \in Nat /\ e \in readIndex .. writeIndex
      /\ UNCHANGED <<sent, hungUp, received, writeIndex, pc, result>>
  BY <1>1 DEF FullLine, InputInv, InputTypeOK, BufferHoldsStream, clientVars
<1> DEFINE d == Consumed + e - readIndex + 1
<1>3. /\ d \in Consumed + 1 .. Len(sent)
      /\ sent[d] = Newline
      /\ \A i \in Consumed + 1 .. d - 1 : sent[i] # Newline
  <2>1. Consumed \in Nat
    BY <1>2, LineOfStream
  <2>2. d - 1 = Consumed + e - readIndex
    BY <1>2, <2>1
  <2> QED BY <1>1, <1>2, <2>2, ScanIsSearch
<1>4. Consumed' = d /\ d > Consumed + 1 /\ d - 1 = Consumed + e - readIndex
  <2>1. Consumed \in Nat
    BY <1>2, LineOfStream
  <2> QED BY <1>1, <1>2, <2>1 DEF Consumed
<1>5. Line(readIndex, e) = SubSeq(sent, Consumed + 1, d - 1)
  BY <1>2, <1>4, LineOfStream
<1>6. RequestReader!LineEndsAt(d)
  BY <1>3 DEF RequestReader!LineEndsAt, RequestReader!Newline, Newline
<1>7. requestLines' =
        IF RequestReader!Trimmed(SubSeq(sent, Consumed + 1, d - 1)) = <<>>
        THEN requestLines
        ELSE Append(requestLines,
                    RequestReader!Trimmed(SubSeq(sent, Consumed + 1, d - 1)))
  <2>1. requestLines' =
            IF Trimmed(SubSeq(sent, Consumed + 1, d - 1)) = <<>> THEN requestLines
            ELSE Append(requestLines, Trimmed(SubSeq(sent, Consumed + 1, d - 1)))
    BY <1>1, <1>5
  <2> HIDE DEF d
  <2> QED BY <2>1 DEF Trimmed, Blank, RequestReader!Trimmed, RequestReader!Blank
<1> HIDE DEF d
<1>8. \E f \in Consumed + 1 .. Len(sent) :
        /\ RequestReader!LineEndsAt(f)
        /\ f > Consumed + 1
        /\ requestLines' =
            IF RequestReader!Trimmed(SubSeq(sent, Consumed + 1, f - 1)) = <<>>
            THEN requestLines
            ELSE Append(requestLines,
                        RequestReader!Trimmed(SubSeq(sent, Consumed + 1, f - 1)))
        /\ Consumed' = f
  BY <1>3, <1>4, <1>6, <1>7
<1> QED BY <1>2, <1>8 DEF RequestReader!TakeLine

\* An empty line in the buffer is one of the stream.
LEMMA EmptyLineEndsRequest ==
  ASSUME InputInv, EmptyLine
  PROVE  RequestReader!EmptyLine
<1>1. /\ pc # "caller" /\ readIndex \in Nat /\ writeIndex \in Nat /\ received \in Nat
      /\ readIndex < writeIndex /\ readIndex' = readIndex + 1
      /\ UNCHANGED <<sent, hungUp, received, writeIndex, requestLines>>
      /\ readIndex \in r .. writeIndex /\ ScanStopsAt(readIndex)
  BY DEF EmptyLine, ScanStopsAt, InputInv, InputTypeOK, BufferHoldsStream, clientVars
<1>2. Consumed \in Nat /\ Consumed' = Consumed + 1
  BY <1>1, LineOfStream DEF Consumed
<1>3. /\ Consumed + 1 \in Consumed + 1 .. Len(sent)
      /\ sent[Consumed + 1] = Newline
  <2>1. Consumed + readIndex - readIndex + 1 = Consumed + 1
    BY <1>1, <1>2
  <2> QED BY <1>1, <2>1, ScanIsSearch
<1>4. RequestReader!LineEndsAt(Consumed + 1)
  <2>1. \A i \in Consumed + 1 .. (Consumed + 1) - 1 : FALSE
    BY <1>2
  <2> QED BY <1>3, <2>1 DEF RequestReader!LineEndsAt, RequestReader!Newline, Newline
<1>5. RequestReader!Return(IF requestLines = <<>> THEN "empty_request"
                                                  ELSE "request_read")
  BY <1>1 DEF EmptyLine, Return, RequestReader!Return
<1> QED BY <1>1, <1>2, <1>4, <1>5 DEF RequestReader!EmptyLine

\* The end of the stream in the middle of a line is one without a Newline.
LEMMA EndOfFileEndsRequest ==
  ASSUME InputInv, EndOfFile
  PROVE  RequestReader!EndOfFile
<1>1. /\ pc # "caller" /\ readIndex \in Nat /\ writeIndex \in Nat /\ received \in Nat
      /\ r = writeIndex /\ readIndex <= writeIndex /\ received = Len(sent) /\ hungUp
      /\ \A i \in readIndex .. writeIndex - 1 : buffer[i] # Newline
      /\ UNCHANGED <<sent, hungUp, received, readIndex, writeIndex, requestLines>>
  BY DEF EndOfFile, InputInv, InputTypeOK, BufferHoldsStream, clientVars, bufferVars
<1>2. Consumed \in Nat /\ Consumed + (writeIndex - readIndex) = Len(sent)
      /\ Consumed' = Consumed
  BY <1>1, LineOfStream DEF Consumed
<1>3. ScanStopsAt(writeIndex) /\ writeIndex \in r .. writeIndex
  BY <1>1 DEF ScanStopsAt
<1>4. \A i \in Consumed + 1 .. Len(sent) : sent[i] # Newline
  <2>1. Consumed + writeIndex - readIndex = Len(sent)
    BY <1>1, <1>2
  <2> QED BY <1>1, <1>3, <2>1, ScanIsSearch
<1>5. RequestReader!NoWholeLine
  BY <1>4 DEF RequestReader!NoWholeLine, RequestReader!Newline, Newline
<1>6. r # readIndex <=> Consumed < Len(sent)
  BY <1>1, <1>2
<1>7. RequestReader!Return(IF Consumed < Len(sent) THEN "unexpected_eof"
                           ELSE IF requestLines = <<>> THEN "eof" ELSE "request_read")
  BY <1>1, <1>6 DEF EndOfFile, Return, RequestReader!Return
<1> QED BY <1>1, <1>2, <1>5, <1>7 DEF RequestReader!EndOfFile

\* A line is refused only if the largest buffer does not hold it.
LEMMA LineTooLongIsTooLong ==
  ASSUME InputInv, LineTooLong
  PROVE  RequestReader!LineTooLong
<1>1. /\ pc # "caller" /\ readIndex = 0 /\ writeIndex = capacity /\ received \in Nat
      /\ capacity \in Sizes /\ 2 * capacity > MaximumSize
      /\ received <= Len(sent) /\ Len(sent) \in Nat /\ r \in Nat /\ r <= writeIndex
      /\ ScanStopsAt(writeIndex)
      /\ UNCHANGED <<sent, hungUp, received, readIndex, writeIndex, requestLines>>
  BY DEF LineTooLong, InputInv, InputTypeOK, BufferHoldsStream, clientVars, bufferVars
<1>2. capacity \in Nat /\ LongestLine = capacity
  BY <1>1, SizesPositive, LongestLineIsSize
<1>3. Consumed \in Nat /\ Consumed + capacity = received /\ Consumed' = Consumed
  <2>1. 0 \in readIndex .. writeIndex
    BY <1>1, <1>2
  <2>2. Consumed \in Nat /\ Consumed + (writeIndex - readIndex) = received
    BY <1>1, <2>1, LineOfStream
  <2> QED BY <1>1, <1>2, <2>2 DEF Consumed
<1>4. \A i \in Consumed + 1 .. Consumed + LongestLine : sent[i] # Newline
  <2>1. writeIndex \in r .. writeIndex
    BY <1>1, <1>2
  <2>2. Consumed + writeIndex - readIndex = Consumed + LongestLine
    BY <1>1, <1>2, <1>3
  <2> QED BY <1>1, <2>1, <2>2, ScanIsSearch
<1>5. RequestReader!Return("line_too_long")
  BY <1>1 DEF LineTooLong, Return, RequestReader!Return
<1> QED
  BY <1>1, <1>2, <1>3, <1>4, <1>5
     DEF RequestReader!LineTooLong, RequestReader!Newline, Newline

\* The search, and reading, moving and enlarging the buffer are internal steps.
LEMMA BufferStutters ==
  ASSUME InputInv,
         NeedData \/ Shift \/ Grow \/ \E n \in 1 .. capacity : ReadSome(n)
  PROVE  ReaderStutters
<1> USE DEF ReaderStutters, Consumed, InputInv, InputTypeOK, clientVars, bufferVars
<1>1. CASE NeedData
  BY <1>1 DEF NeedData
<1>2. CASE Shift
  BY <1>2 DEF Shift
<1>3. CASE Grow
  BY <1>3 DEF Grow
<1>4. ASSUME NEW n \in 1 .. capacity, ReadSome(n) PROVE ReaderStutters
  <2>1. n \in Nat
    BY SizesPositive
  <2> QED BY <1>4, <2>1 DEF ReadSome
<1> QED BY <1>1, <1>2, <1>3, <1>4

\* What readRequest does, the reader of requests does.
LEMMA ReadingImplementsReader ==
  ASSUME InputInv, Reading
  PROVE  \/ RequestReader!TakeLine
         \/ RequestReader!EmptyLine
         \/ RequestReader!EndOfFile
         \/ RequestReader!LineTooLong
         \/ RequestReader!GiveUp
         \/ ReaderStutters
<1>1. CASE TimeOut
  <2>1. UNCHANGED <<sent, hungUp, Consumed, requestLines>>
    BY <1>1 DEF TimeOut, Consumed, clientVars, bufferVars
  <2>2. CASE queryStarted \/ IdleTimeout
    BY <1>1, <2>1
       DEF TimeOut, Return, RequestReader!GiveUp, RequestReader!Return, ReaderStutters
  <2>3. CASE ~(queryStarted \/ IdleTimeout)
    BY <1>1, <2>1, <2>3 DEF TimeOut, ReaderStutters
  <2> QED BY <2>2, <2>3
<1>2. CASE Terminated
  BY <1>2 DEF Terminated, Return, Consumed, clientVars, bufferVars,
              RequestReader!GiveUp, RequestReader!Return
<1> QED
  BY <1>1, <1>2, FullLineTakesLine, EmptyLineEndsRequest, EndOfFileEndsRequest,
     LineTooLongIsTooLong, BufferStutters
     DEF Reading

\* The caller and the client do the same in both.
LEMMA OthersImplementReader ==
  ASSUME InputInv
  PROVE  /\ ReadRequest => RequestReader!ReadRequest
         /\ \A n : TakeLines(n) => RequestReader!TakeLines(n)
         /\ \A c : Send(c) => RequestReader!Send(c)
         /\ HangUp => RequestReader!HangUp
         /\ Terminate => ReaderStutters
<1>1. ASSUME ReadRequest PROVE RequestReader!ReadRequest
  BY <1>1 DEF ReadRequest, RequestReader!ReadRequest, Consumed, clientVars, bufferVars
<1>2. ASSUME NEW n, TakeLines(n) PROVE RequestReader!TakeLines(n)
  BY <1>2 DEF TakeLines, RequestReader!TakeLines, Consumed, clientVars, bufferVars
<1>3. ASSUME NEW c, Send(c) PROVE RequestReader!Send(c)
  BY <1>3 DEF Send, RequestReader!Send, Consumed, bufferVars, callVars
<1>4. ASSUME HangUp PROVE RequestReader!HangUp
  BY <1>4 DEF HangUp, RequestReader!HangUp, Consumed, bufferVars, callVars
<1>5. ASSUME Terminate PROVE ReaderStutters
  BY <1>5 DEF Terminate, ReaderStutters, Consumed, clientVars, bufferVars, callVars
<1> QED BY <1>1, <1>2, <1>3, <1>4, <1>5

\* Every step of the input side is one of the reader, or none.
LEMMA InputStepImplementsReader ==
  InputInv /\ [InputNext]_inputVars => [RequestReader!Next]_(RequestReader!vars)
<1> SUFFICES ASSUME InputInv, [InputNext]_inputVars
             PROVE  RequestReader!Next \/ ReaderStutters
  BY DEF ReaderStutters, RequestReader!vars
<1>1. CASE UNCHANGED inputVars
  BY <1>1 DEF inputVars, clientVars, bufferVars, callVars, ReaderStutters, Consumed
<1>2. CASE Environment
  BY <1>2, OthersImplementReader
     DEF Environment, RequestReader!Next, RequestReader!Bytes, Bytes,
         RequestReader!Blank, RequestReader!Newline, Blank, Newline
<1>3. CASE ReadRequest
  BY <1>3, OthersImplementReader DEF RequestReader!Next
<1>4. CASE Reading
  BY <1>4, ReadingImplementsReader DEF RequestReader!Next
<1>5. ASSUME NEW n \in 1 .. Len(requestLines), TakeLines(n)
      PROVE  RequestReader!Next
  BY <1>5, OthersImplementReader DEF RequestReader!Next
<1> QED BY <1>1, <1>2, <1>3, <1>4, <1>5 DEF InputNext

\* A new connection has read nothing.
LEMMA InputInitImplementsReader == InputInit => RequestReader!Init
  BY DEF InputInit, RequestReader!Init, Consumed

------------------------------------------------------------------------------
(* The request loop *)

Pieces == [request : Nat, part : {"header", "front", "back"}]

LoopTypeOK ==
    /\ phase \in {"loop", "request", "flush", "closed"}
    /\ keepalive \in BOOLEAN
    /\ gone \in BOOLEAN
    /\ output \in Seq(Pieces)
    /\ replies \in Seq(Pieces)
    /\ commands \in Seq(Lines)
    /\ answered \in Seq(Lines)

TypeOK == InputTypeOK /\ LoopTypeOK

\* readRequest runs for answerRequest only; a request has a line; and no other
\* request is asked for before the last one was taken.
CallInv ==
    /\ pc # "caller" => phase = "request" /\ result = "none"
    /\ result = "request_read" => requestLines # <<>>
    /\ phase \in {"loop", "flush"} => result = "none" \/ ~keepalive
    /\ phase = "request" => keepalive

\* The output is the rest of the answer to the last request, which is in order
\* after what the client has received, unless the client does not read any more
\* or the threads are to terminate.
ReplyInv ==
    /\ \A i \in DOMAIN replies : replies[i].request <= Len(answered)
    /\ output # <<>> => phase = "flush" /\ output[Len(output)].part = "back"
    /\ \A i \in DOMAIN output : output[i].request = Len(answered)
    /\ \A i \in 1 .. Len(output) - 1 : Follows(output[i], output[i + 1])
    /\ ~gone /\ replies # <<>> =>
           \/ output # <<>> /\ Follows(replies[Len(replies)], Head(output))
           \/ output = <<>> /\ replies[Len(replies)].part = "back"
           \/ output = <<>> /\ shouldTerminate /\ phase # "request"

ConnectionInv ==
    /\ InputInv
    /\ LoopTypeOK
    /\ CallInv
    /\ ReplyInv
    /\ OnlyTheLastReplyIsCut

\* Every step of the connection is one of its input side, or leaves that alone.
LEMMA ConnectionReads ==
  ASSUME InputTypeOK, CallInv, [Next]_vars
  PROVE  [InputNext]_inputVars
<1>1. CASE Outside
  BY <1>1 DEF Outside, InputNext
<1>2. CASE Leave
  <2>1. CASE hungUp
    BY <1>2, <2>1 DEF Leave, inputVars, clientVars
  <2>2. CASE ~hungUp
    BY <1>2, <2>2 DEF Leave, HangUp, Environment, InputNext
  <2> QED BY <2>1, <2>2
<1>3. CASE BeginRequest
  BY <1>3 DEF BeginRequest, InputNext
<1>4. CASE Read
  BY <1>4 DEF Read, InputNext
<1>5. ASSUME NEW n \in 1 .. Len(requestLines), Request(n) PROVE InputNext
  BY <1>5 DEF Request, InputNext
<1>6. ASSUME result = "request_read"
      PROVE  1 \in 1 .. Len(requestLines) /\ Len(requestLines) \in 1 .. Len(requestLines)
  <2>1. requestLines # <<>> /\ requestLines \in Seq(Lines)
    BY <1>6 DEF CallInv, InputTypeOK
  <2> QED BY <2>1
<1>7. ASSUME NEW fixed16 \in BOOLEAN, NEW keep \in BOOLEAN, GetRequest(fixed16, keep)
      PROVE  InputNext
  BY <1>5, <1>6, <1>7 DEF GetRequest, Request
<1>8. CASE CommandRequest \/ OtherRequest
  BY <1>5, <1>6, <1>8 DEF CommandRequest, OtherRequest, Request
<1>9. CASE CloseConnection \/ RequestFailed \/ WritePiece \/ GiveUpWriting \/ Flushed
  BY <1>9 DEF CloseConnection, RequestFailed, WritePiece, GiveUpWriting, Flushed
<1>10. CASE Closed \/ UNCHANGED vars
  BY <1>10 DEF Closed, vars
<1> QED BY <1>1, <1>2, <1>3, <1>4, <1>7, <1>8, <1>9, <1>10 DEF Next

\* A new connection is in the loop and has answered nothing.
LEMMA ConnectionInvInit == Init => ConnectionInv
<1> SUFFICES ASSUME Init PROVE ConnectionInv
  OBVIOUS
<1>1. InputInv
  BY InputInvInit DEF Init
<1>2. LoopTypeOK
  <2>1. <<>> \in Seq(Pieces) /\ <<>> \in Seq(Lines)
    OBVIOUS
  <2>2. keepalive \in BOOLEAN /\ gone \in BOOLEAN
    BY Zenon DEF Init
  <2> QED BY <2>1, <2>2 DEF Init, LoopTypeOK
<1>3. CallInv
  BY DEF Init, InputInit, CallInv
<1>4. ReplyInv /\ OnlyTheLastReplyIsCut
  BY DEF Init, ReplyInv, OnlyTheLastReplyIsCut
<1> QED BY <1>1, <1>2, <1>3, <1>4 DEF ConnectionInv

\* readRequest returns a request only if it has a line.
LEMMA ReadingCalls ==
  ASSUME InputTypeOK, CallInv, Reading
  PROVE  /\ pc' # "caller" => result' = "none"
         /\ result' = "request_read" => requestLines' # <<>>
         /\ shouldTerminate' = shouldTerminate
<1> USE DEF InputTypeOK, CallInv
<1>1. CASE FullLine
  <2>1. PICK line : requestLines' = IF line = <<>> THEN requestLines
                                                   ELSE Append(requestLines, line)
    BY <1>1 DEF FullLine
  <2> QED BY <1>1, <2>1 DEF FullLine
<1>2. CASE EmptyLine
  BY <1>2 DEF EmptyLine, Return
<1>3. CASE NeedData \/ Shift \/ Grow
  BY <1>3 DEF NeedData, Shift, Grow
<1>4. CASE LineTooLong \/ Terminated
  BY <1>4 DEF LineTooLong, Terminated, Return
<1>5. ASSUME NEW n \in 1 .. capacity, ReadSome(n)
      PROVE  /\ pc' # "caller" => result' = "none"
             /\ result' = "request_read" => requestLines' # <<>>
             /\ shouldTerminate' = shouldTerminate
  BY <1>5 DEF ReadSome
<1>6. CASE EndOfFile
  BY <1>6 DEF EndOfFile, Return
<1>7. CASE TimeOut
  BY <1>7 DEF TimeOut, Return
<1> QED BY <1>1, <1>2, <1>3, <1>4, <1>5, <1>6, <1>7 DEF Reading

\* What a request does to the connection, whatever it asks for.
LEMMA RequestCalls ==
  ASSUME InputTypeOK, LoopTypeOK, CallInv,
         NEW n \in {1, Len(requestLines)}, Request(n)
  PROVE  /\ n \in 1 .. Len(requestLines)
         /\ Head(requestLines) \in Lines
         /\ answered' = Append(answered, Head(requestLines))
         /\ answered' \in Seq(Lines) /\ Len(answered') = Len(answered) + 1
         /\ phase = "request" /\ phase' = "flush"
         /\ pc' = "caller" /\ result' = "none"
         /\ UNCHANGED <<gone, replies, shouldTerminate>>
<1>1. requestLines # <<>> /\ requestLines \in Seq(Lines)
  BY DEF Request, CallInv, InputTypeOK
<1>2. Head(requestLines) \in Lines /\ n \in 1 .. Len(requestLines)
  BY <1>1
<1>3. answered \in Seq(Lines)
  BY DEF LoopTypeOK
<1> QED BY <1>2, <1>3 DEF Request, TakeLines

\* The pieces of an answer follow each other.
LEMMA ReplySound ==
  ASSUME NEW n \in Nat, NEW fixed16, NEW out, out = Reply(n, fixed16)
  PROVE  /\ out \in Seq(Pieces) /\ out # <<>>
         /\ out[Len(out)].part = "back"
         /\ \A i \in DOMAIN out : out[i].request = n
         /\ \A i \in 1 .. Len(out) - 1 : Follows(out[i], out[i + 1])
         /\ Head(out).request = n /\ Head(out).part # "back"
<1> DEFINE Piece(part) == [request |-> n, part |-> part]
<1>1. /\ Follows(Piece("header"), Piece("front"))
      /\ Follows(Piece("front"), Piece("back"))
  BY DEF Follows
<1>2. CASE fixed16
  <2> DEFINE first == <<Piece("header")>>
             body == <<Piece("front"), Piece("back")>>
  <2>1. out = first \o body
    BY <1>2 DEF Reply
  <2>2. first \in Seq(Pieces) /\ body \in Seq(Pieces)
    BY DEF Pieces
  <2>3. /\ Len(first) = 1 /\ first[1] = Piece("header")
        /\ Len(body) = 2 /\ body[1] = Piece("front") /\ body[2] = Piece("back")
    OBVIOUS
  <2> HIDE DEF first, body, Piece
  <2>4. /\ out \in Seq(Pieces) /\ Len(out) = 3
        /\ out[1] = first[1] /\ out[2] = body[1] /\ out[3] = body[2]
    BY <2>1, <2>2, <2>3, OneBeforeTwo
  <2>5. /\ out # <<>> /\ DOMAIN out = 1 .. 3 /\ Head(out) = out[1]
    BY <2>4
  <2>6. \A i \in 1 .. Len(out) - 1 : Follows(out[i], out[i + 1])
    BY <1>1, <2>3, <2>4
  <2> QED BY <2>3, <2>4, <2>5, <2>6 DEF Piece
<1>3. CASE ~fixed16
  <2>1. out = <<Piece("front"), Piece("back")>>
    BY <1>3 DEF Reply
  <2> QED BY <1>1, <2>1 DEF Pieces
<1> QED BY <1>2, <1>3

\* What happens outside: the client writes or leaves, Nagios terminates.
LEMMA OutsideKeeps ==
  ASSUME ConnectionInv, Outside \/ Leave
  PROVE  ConnectionInv'
<1> USE DEF ConnectionInv
<1>1. /\ UNCHANGED <<phase, keepalive, output, replies, commands, answered>>
      /\ UNCHANGED <<requestLines, pc, result>>
      /\ gone => gone'
      /\ gone' \in BOOLEAN
      /\ shouldTerminate => shouldTerminate'
  <2>1. CASE Outside
    BY <2>1 DEF Outside, Environment, Send, HangUp, Terminate, loopVars, outputVars,
                callVars, LoopTypeOK
  <2>2. CASE Leave
    BY <2>2 DEF Leave, callVars
  <2> QED BY <2>1, <2>2
<1>2. InputInv'
  <2>1. [InputNext]_inputVars
    BY ConnectionReads DEF Next, InputInv
  <2> QED BY <2>1, InputStep
<1>3. LoopTypeOK'
  BY <1>1 DEF LoopTypeOK
<1>4. CallInv'
  BY <1>1 DEF CallInv
<1>5. ReplyInv'
  BY <1>1, Zenon DEF ReplyInv, LoopTypeOK
<1>6. OnlyTheLastReplyIsCut'
  BY <1>1 DEF OnlyTheLastReplyIsCut
<1> QED BY <1>2, <1>3, <1>4, <1>5, <1>6

\* The steps of the loop before there is an answer, and after it was written.
LEMMA LoopKeeps ==
  ASSUME ConnectionInv, BeginRequest \/ CloseConnection \/ RequestFailed \/ Flushed
  PROVE  ConnectionInv'
<1> USE DEF ConnectionInv
<1>1. /\ UNCHANGED <<output, gone, replies, commands, answered, shouldTerminate>>
      /\ UNCHANGED <<requestLines, result>>
  BY DEF BeginRequest, ReadRequest, CloseConnection, RequestFailed, Flushed, outputVars,
         inputVars, callVars
<1>2. InputInv'
  <2>1. [InputNext]_inputVars
    BY ConnectionReads DEF Next, InputInv
  <2> QED BY <2>1, InputStep
<1>3. LoopTypeOK'
  <2>1. phase' \in {"loop", "request", "flush", "closed"}
    BY DEF BeginRequest, CloseConnection, RequestFailed, Flushed
  <2>2. keepalive' \in BOOLEAN
    BY DEF BeginRequest, CloseConnection, RequestFailed, Flushed, LoopTypeOK
  <2> QED BY <1>1, <2>1, <2>2 DEF LoopTypeOK
<1>4. CallInv'
  BY <1>1 DEF CallInv, BeginRequest, ReadRequest, CloseConnection, RequestFailed,
              Flushed, inputVars, callVars
<1>5. ReplyInv'
  <2>1. output # <<>> => phase = "flush" /\ phase' = "flush"
    BY DEF ReplyInv, BeginRequest, CloseConnection, RequestFailed, Flushed
  <2>2. shouldTerminate /\ phase # "request" => phase' # "request"
    BY DEF BeginRequest, CloseConnection, RequestFailed, Flushed
  <2>3. phase' = "request" => ~shouldTerminate
    BY DEF BeginRequest, CloseConnection, RequestFailed, Flushed
  <2>4. ~gone /\ replies # <<>> =>
           \/ output # <<>> /\ Follows(replies[Len(replies)], Head(output))
           \/ output = <<>> /\ replies[Len(replies)].part = "back"
           \/ output = <<>> /\ shouldTerminate /\ phase' # "request"
    BY <2>2 DEF ReplyInv
  <2> QED BY <1>1, <2>1, <2>4 DEF ReplyInv
<1>6. OnlyTheLastReplyIsCut'
  BY <1>1 DEF OnlyTheLastReplyIsCut
<1> QED BY <1>2, <1>3, <1>4, <1>5, <1>6

\* readRequest is running.
LEMMA ReadKeeps == ASSUME ConnectionInv, Read PROVE ConnectionInv'
<1> USE DEF ConnectionInv
<1>1. UNCHANGED <<phase, keepalive, output, gone, replies, commands, answered>>
  BY DEF Read, loopVars, outputVars
<1>2. InputInv'
  BY ReadingKeepsBuffer DEF Read
<1>3. /\ pc' # "caller" => result' = "none"
      /\ result' = "request_read" => requestLines' # <<>>
      /\ shouldTerminate' = shouldTerminate
  BY ReadingCalls DEF Read, InputInv
<1>4. LoopTypeOK'
  BY <1>1 DEF LoopTypeOK
<1>5. CallInv'
  BY <1>1, <1>3 DEF CallInv, Read
<1>6. ReplyInv'
  BY <1>1, <1>3 DEF ReplyInv
<1>7. OnlyTheLastReplyIsCut'
  BY <1>1 DEF OnlyTheLastReplyIsCut
<1> QED BY <1>2, <1>4, <1>5, <1>6, <1>7

\* An answer is begun when the one before has been written, or will not be.
LEMMA RequestKeeps ==
  ASSUME ConnectionInv,
         \/ \E fixed16, keep \in BOOLEAN : GetRequest(fixed16, keep)
         \/ CommandRequest
         \/ OtherRequest
  PROVE  ConnectionInv'
<1> USE DEF ConnectionInv
<1>1. PICK n \in {1, Len(requestLines)} : Request(n)
  BY DEF GetRequest, CommandRequest, OtherRequest
<1>2. /\ n \in 1 .. Len(requestLines)
      /\ Head(requestLines) \in Lines
      /\ answered' \in Seq(Lines) /\ Len(answered') = Len(answered) + 1
      /\ phase = "request" /\ phase' = "flush"
      /\ pc' = "caller" /\ result' = "none"
      /\ UNCHANGED <<gone, replies, shouldTerminate>>
  BY <1>1, RequestCalls DEF InputInv
<1>3. InputInv'
  BY <1>1, <1>2, CallerKeepsBuffer DEF Request
<1>4. output = <<>> /\ Len(answered) \in Nat
  BY <1>2 DEF ReplyInv, LoopTypeOK
<1>5. \/ output' = <<>>
      \/ \E fixed16 \in BOOLEAN : output' = Reply(Len(answered) + 1, fixed16)
  BY <1>4 DEF GetRequest, CommandRequest, OtherRequest
<1>6. \/ output' = <<>>
      \/ /\ output' \in Seq(Pieces) /\ output' # <<>>
         /\ output'[Len(output')].part = "back"
         /\ \A i \in DOMAIN output' : output'[i].request = Len(answered')
         /\ \A i \in 1 .. Len(output') - 1 : Follows(output'[i], output'[i + 1])
         /\ Head(output').request = Len(answered) + 1 /\ Head(output').part # "back"
  <2>1. CASE output' = <<>>
    BY <2>1
  <2>2. ASSUME NEW fixed16 \in BOOLEAN, output' = Reply(Len(answered) + 1, fixed16)
        PROVE  /\ output' \in Seq(Pieces) /\ output' # <<>>
               /\ output'[Len(output')].part = "back"
               /\ \A i \in DOMAIN output' : output'[i].request = Len(answered')
               /\ \A i \in 1 .. Len(output') - 1 : Follows(output'[i], output'[i + 1])
               /\ Head(output').request = Len(answered) + 1
               /\ Head(output').part # "back"
    <3>1. Len(answered) + 1 \in Nat /\ Len(answered') = Len(answered) + 1
      BY <1>2, <1>4
    <3> DEFINE out == output'
               m == Len(answered) + 1
    <3>2. out = Reply(m, fixed16) /\ m \in Nat /\ Len(answered') = m
      BY <2>2, <3>1
    <3> HIDE DEF out, m
    <3>3. /\ out \in Seq(Pieces) /\ out # <<>>
          /\ out[Len(out)].part = "back"
          /\ \A i \in DOMAIN out : out[i].request = m
          /\ \A i \in 1 .. Len(out) - 1 : Follows(out[i], out[i + 1])
          /\ Head(out).request = m /\ Head(out).part # "back"
      BY <3>2, ReplySound
    <3> QED BY <3>2, <3>3 DEF out, m
  <2> QED BY <1>5, <2>1, <2>2
<1>7. LoopTypeOK'
  <2>1. output' \in Seq(Pieces)
    <3>1. <<>> \in Seq(Pieces)
      OBVIOUS
    <3> QED BY <1>6, <3>1
  <2>2. keepalive' \in BOOLEAN
    BY DEF GetRequest, CommandRequest, OtherRequest
  <2>3. commands \in Seq(Lines) /\ Append(commands, Head(requestLines)) \in Seq(Lines)
    BY <1>2 DEF LoopTypeOK
  <2>4. commands' \in {commands, Append(commands, Head(requestLines))}
    BY DEF GetRequest, CommandRequest, OtherRequest
  <2>5. commands' \in Seq(Lines)
    BY <2>3, <2>4
  <2>6. gone' \in BOOLEAN /\ replies' \in Seq(Pieces)
    BY <1>2 DEF LoopTypeOK
  <2> QED BY <1>2, <2>1, <2>2, <2>5, <2>6 DEF LoopTypeOK
<1>8. CallInv'
  BY <1>2 DEF CallInv
<1>9. ReplyInv'
  <2>1. /\ replies \in Seq(Pieces)
        /\ \A i \in DOMAIN replies : replies[i].request <= Len(answered)
        /\ ~gone /\ replies # <<>> => replies[Len(replies)].part = "back"
    BY <1>2, <1>4 DEF ReplyInv, LoopTypeOK
  <2>2. \A i \in DOMAIN replies : replies[i].request \in Nat
    <3>1. \A i \in DOMAIN replies : replies[i] \in Pieces
      BY <2>1
    <3> QED BY <3>1 DEF Pieces
  <2>3. \A i \in DOMAIN replies : replies[i].request <= Len(answered')
    BY <1>2, <1>4, <2>1, <2>2
  <2>4. replies # <<>> => Len(replies) \in DOMAIN replies
    BY <2>1
  <2>5. CASE output' = <<>>
    BY <1>2, <2>1, <2>3, <2>5 DEF ReplyInv
  <2>6. CASE output' # <<>>
    <3>1. ~gone /\ replies # <<>> => Follows(replies[Len(replies)], Head(output'))
      <4> SUFFICES ASSUME ~gone, replies # <<>>
                   PROVE  Follows(replies[Len(replies)], Head(output'))
        OBVIOUS
      <4>1. Len(replies) \in DOMAIN replies /\ replies[Len(replies)].part = "back"
        BY <2>1, <2>4
      <4>2. /\ replies[Len(replies)].request \in Nat
            /\ replies[Len(replies)].request <= Len(answered)
        BY <2>1, <2>2, <4>1
      <4>3. Head(output').request = Len(answered) + 1 /\ Head(output').part # "back"
        BY <1>6, <2>6
      <4> QED BY <1>4, <4>1, <4>2, <4>3 DEF Follows
    <3> QED BY <1>2, <1>6, <2>3, <2>6, <3>1 DEF ReplyInv
  <2> QED BY <2>5, <2>6
<1>10. OnlyTheLastReplyIsCut'
  BY <1>2 DEF OnlyTheLastReplyIsCut
<1> QED BY <1>3, <1>7, <1>8, <1>9, <1>10

\* A piece of the answer is written.
LEMMA WritePieceKeeps == ASSUME ConnectionInv, WritePiece PROVE ConnectionInv'
<1> USE DEF ConnectionInv
<1>1. /\ UNCHANGED <<phase, keepalive, gone, commands, answered>>
      /\ UNCHANGED inputVars
      /\ ~gone /\ output # <<>> /\ phase = "flush"
      /\ replies' = Append(replies, Head(output)) /\ output' = Tail(output)
  BY DEF WritePiece
<1>2. /\ output \in Seq(Pieces) /\ replies \in Seq(Pieces)
      /\ output[Len(output)].part = "back"
      /\ \A i \in DOMAIN output : output[i].request = Len(answered)
      /\ \A i \in 1 .. Len(output) - 1 : Follows(output[i], output[i + 1])
      /\ replies # <<>> => Follows(replies[Len(replies)], Head(output))
      /\ Len(answered) \in Nat
  BY <1>1 DEF ReplyInv, LoopTypeOK
<1>3. Head(output) = output[1] /\ output[1] \in Pieces /\ Len(output) \in Nat
      /\ Len(output) > 0 /\ Len(replies) \in Nat
  BY <1>1, <1>2
<1>4. /\ output' \in Seq(Pieces) /\ Len(output') = Len(output) - 1
      /\ \A i \in 1 .. Len(output) - 1 : output'[i] = output[i + 1]
  BY <1>1, <1>2, <1>3
<1>5. /\ replies' \in Seq(Pieces) /\ Len(replies') = Len(replies) + 1
      /\ \A i \in 1 .. Len(replies) : replies'[i] = replies[i]
      /\ replies'[Len(replies) + 1] = output[1]
  BY <1>1, <1>2, <1>3
<1>6. InputInv' /\ CallInv'
  <2>1. [InputNext]_inputVars
    BY <1>1
  <2> QED BY <1>1, <2>1, InputStep DEF CallInv, inputVars, callVars
<1>7. LoopTypeOK'
  BY <1>1, <1>4, <1>5 DEF LoopTypeOK
<1>8. OnlyTheLastReplyIsCut'
  <2>1. ASSUME NEW i \in 1 .. Len(replies)
        PROVE  Follows(replies'[i], replies'[i + 1])
    <3>1. CASE i = Len(replies)
      BY <1>2, <1>3, <1>5, <3>1
    <3>2. CASE i # Len(replies)
      <4>1. i \in 1 .. Len(replies) - 1 /\ i + 1 \in 1 .. Len(replies)
        BY <1>3, <3>2
      <4> QED BY <1>5, <4>1 DEF OnlyTheLastReplyIsCut
    <3> QED BY <3>1, <3>2
  <2> QED BY <1>3, <1>5, <2>1 DEF OnlyTheLastReplyIsCut
<1>9. ReplyInv'
  <2>1. \A i \in DOMAIN replies' : replies'[i].request <= Len(answered)
    <3>1. \A i \in 1 .. Len(replies) : replies[i].request <= Len(answered)
      BY <1>2 DEF ReplyInv
    <3>2. output[1].request <= Len(answered)
      BY <1>2, <1>3
    <3> QED BY <1>3, <1>5, <3>1, <3>2
  <2>2. output' # <<>> => output'[Len(output')].part = "back"
    BY <1>2, <1>3, <1>4
  <2>3. \A i \in DOMAIN output' : output'[i].request = Len(answered)
    <3>1. DOMAIN output' = 1 .. Len(output) - 1
      BY <1>3, <1>4
    <3>2. \A i \in 1 .. Len(output) - 1 : i + 1 \in DOMAIN output
      BY <1>2, <1>3
    <3> QED BY <1>2, <1>4, <3>1, <3>2
  <2>4. \A i \in 1 .. Len(output') - 1 : Follows(output'[i], output'[i + 1])
    BY <1>2, <1>3, <1>4
  <2>5. CASE Len(output) = 1
    <3>1. output' = <<>>
      BY <1>4, <2>5
    <3>2. replies'[Len(replies')] = output[1] /\ output[1] = output[Len(output)]
      BY <1>3, <1>5, <2>5
    <3>3. replies'[Len(replies')].part = "back"
      BY <1>2, <3>2
    <3> QED BY <1>1, <2>1, <3>1, <3>3 DEF ReplyInv
  <2>6. CASE Len(output) # 1
    <3>1. output' # <<>> /\ Head(output') = output[2]
      BY <1>3, <1>4, <2>6
    <3>2. Follows(replies'[Len(replies')], Head(output'))
      <4>1. Len(output) > 1 /\ 1 \in 1 .. Len(output) - 1
        <5> DEFINE n == Len(output)
        <5>1. n \in Nat /\ n > 0 /\ n # 1
          BY <1>3, <2>6
        <5> HIDE DEF n
        <5>2. n > 1 /\ 1 \in 1 .. n - 1
          BY <5>1
        <5> QED BY <5>2 DEF n
      <4>2. Follows(output[1], output[1 + 1])
        BY <1>2, <4>1
      <4> QED BY <1>3, <1>5, <3>1, <4>2
    <3> QED BY <1>1, <2>1, <2>2, <2>3, <2>4, <3>1, <3>2 DEF ReplyInv
  <2> QED BY <2>5, <2>6
<1> QED BY <1>6, <1>7, <1>8, <1>9

\* What is left of the answer is given up.
LEMMA GiveUpKeeps == ASSUME ConnectionInv, GiveUpWriting PROVE ConnectionInv'
<1> USE DEF ConnectionInv
<1>1. /\ UNCHANGED <<phase, keepalive, gone, replies, commands, answered>>
      /\ UNCHANGED inputVars
      /\ gone \/ shouldTerminate
      /\ phase = "flush" /\ output' = <<>>
  BY DEF GiveUpWriting
<1>2. InputInv' /\ CallInv'
  <2>1. [InputNext]_inputVars
    BY <1>1
  <2> QED BY <1>1, <2>1, InputStep DEF CallInv, inputVars, callVars
<1>3. LoopTypeOK'
  BY <1>1 DEF LoopTypeOK
<1>4. ReplyInv'
  BY <1>1 DEF ReplyInv, inputVars
<1>5. OnlyTheLastReplyIsCut'
  BY <1>1 DEF OnlyTheLastReplyIsCut
<1> QED BY <1>2, <1>3, <1>4, <1>5

\* Every step of the connection keeps its invariant.
LEMMA ConnectionStep == ConnectionInv /\ [Next]_vars => ConnectionInv'
<1> SUFFICES ASSUME ConnectionInv, [Next]_vars PROVE ConnectionInv'
  OBVIOUS
<1>1. CASE Closed \/ UNCHANGED vars
  <2>1. UNCHANGED inputVars /\ UNCHANGED loopVars
    BY <1>1 DEF Closed, vars
  <2>2. InputInv'
    BY <2>1, InputStep DEF ConnectionInv
  <2>3. LoopTypeOK' /\ CallInv' /\ ReplyInv' /\ OnlyTheLastReplyIsCut'
    BY <2>1 DEF ConnectionInv, loopVars, outputVars, inputVars, callVars, LoopTypeOK,
                CallInv, ReplyInv, OnlyTheLastReplyIsCut
  <2> QED BY <2>2, <2>3 DEF ConnectionInv
<1> QED
  BY <1>1, OutsideKeeps, LoopKeeps, ReadKeeps, RequestKeeps, WritePieceKeeps,
     GiveUpKeeps
     DEF Next

\* ConnectionInv is invariant.
LEMMA ConnectionInvariant == Spec => []ConnectionInv
<1>1. Init => ConnectionInv
  BY ConnectionInvInit
<1>2. ConnectionInv /\ [Next]_vars => ConnectionInv'
  BY ConnectionStep
<1> QED BY <1>1, <1>2, PTL DEF Spec

------------------------------------------------------------------------------
(* The requests and their answers *)

\* The lines with text behind one place and up to another.
Text(s, start, end) == {e \in LineEnds(s) : start < e /\ e <= end /\ HasText(s, e)}

\* What comes next in the stream, if anything, begins a paragraph.
ParagraphStart(start) ==
    \/ start = 0
    \/ start \in LineEnds(sent) /\ LineTo(sent, start) = <<>>
    \/ hungUp /\ start = Len(sent)

\* The requests up to that place have been answered, and no others.
AnsweredUpTo(start) ==
    \E ends \in [DOMAIN answered -> FirstLines(sent)] :
        /\ \A i, j \in DOMAIN ends : i < j => ends[i] < ends[j]
        /\ \A i \in DOMAIN ends : answered[i] = Trimmed(LineTo(sent, ends[i]))
        /\ \A e \in FirstLines(sent) : e <= start <=> \E i \in DOMAIN ends : e = ends[i]

\* The lines in requestLines are those behind that place.
NextRequest(start) ==
    /\ ParagraphStart(start)
    /\ \A e \in LineEnds(sent) :
           start < e /\ e <= Consumed /\ LineTo(sent, e) = <<>>
               => result = "request_read" /\ e = Consumed
    /\ requestLines = <<>> => Text(sent, start, Consumed) = {}
    /\ requestLines # <<>> =>
           \E d \in Text(sent, start, Consumed) :
               /\ \A e \in Text(sent, start, Consumed) : d <= e
               /\ Head(requestLines) = Trimmed(LineTo(sent, d))
               /\ Len(requestLines) > 1 => \E e \in Text(sent, start, Consumed) : d < e
    /\ result = "request_read" => ParagraphStart(Consumed)

\* As long as the connection may go on.
MayGoOn == keepalive /\ result \in {"none", "request_read"}

AnswerInv ==
    /\ Consumed > 0 => sent[Consumed] = Newline
    /\ CommandsAreSingleLines(sent) =>
           \E start \in 0 .. Consumed :
               /\ AnsweredUpTo(start)
               /\ MayGoOn => NextRequest(start)

\* Where readRequest is, there is a stream that has been read to a line end.
LEMMA ConsumedTyped ==
  ASSUME ConnectionInv
  PROVE  sent \in Seq(Bytes) /\ Consumed \in Nat /\ Consumed <= Len(sent)
<1>1. readIndex \in readIndex .. writeIndex /\ readIndex \in Nat /\ writeIndex \in Nat
      /\ readIndex <= writeIndex
  BY DEF ConnectionInv, InputInv, InputTypeOK, BufferHoldsStream
<1>2. Consumed \in Nat /\ Consumed + (writeIndex - readIndex) = received
  BY <1>1, LineOfStream DEF ConnectionInv
<1> QED BY <1>1, <1>2 DEF ConnectionInv, InputInv, InputTypeOK

\* The requests answered remain answered.
LEMMA AnsweredStays ==
  ASSUME NEW start, AnsweredUpTo(start), UNCHANGED <<sent, answered>>
  PROVE  AnsweredUpTo(start)'
  BY DEF AnsweredUpTo

\* Steps that have nothing to do with requests: the client may hang up, and the
\* connection may come to its end.
LEMMA AnswerInvStutters ==
  ASSUME AnswerInv, UNCHANGED <<sent, Consumed, requestLines, answered>>,
         hungUp => hungUp',
         MayGoOn' => MayGoOn /\ result' = result
  PROVE  AnswerInv'
<1>1. Consumed' > 0 => sent'[Consumed'] = Newline
  BY DEF AnswerInv
<1>2. ASSUME CommandsAreSingleLines(sent)
      PROVE  \E start \in 0 .. Consumed :
                AnsweredUpTo(start)' /\ (MayGoOn' => NextRequest(start)')
  <2>1. PICK start \in 0 .. Consumed :
            AnsweredUpTo(start) /\ (MayGoOn => NextRequest(start))
    BY <1>2 DEF AnswerInv
  <2>2. AnsweredUpTo(start)'
    BY <2>1, AnsweredStays
  <2>3. \A place : ParagraphStart(place) => ParagraphStart(place)'
    BY DEF ParagraphStart
  <2>4. ASSUME MayGoOn' PROVE NextRequest(start)'
    <3>1. NextRequest(start) /\ result' = result
      BY <2>1, <2>4
    <3> QED BY <2>3, <3>1 DEF NextRequest
  <2> QED BY <2>2, <2>4
<1> QED BY <1>1, <1>2 DEF AnswerInv

\* What the client writes comes behind all requests.
LEMMA SendKeepsAnswers ==
  ASSUME ConnectionInv, AnswerInv, NEW c \in Bytes, Send(c),
         UNCHANGED <<answered, keepalive>>
  PROVE  AnswerInv'
<1>1. /\ sent \in Seq(Bytes) /\ Consumed \in Nat /\ Consumed <= Len(sent)
      /\ Len(sent) \in Nat
  BY ConsumedTyped
<1>2. sent' = Append(sent, c) /\ Consumed' = Consumed
      /\ UNCHANGED <<hungUp, requestLines, result>> /\ ~hungUp
  BY DEF Send, bufferVars, callVars, Consumed
<1>3. \A i \in 1 .. Len(sent) : sent'[i] = sent[i]
  BY <1>1, <1>2
<1>4. /\ LineEnds(sent) = {e \in LineEnds(sent') : e <= Len(sent)}
      /\ \A e \in LineEnds(sent) : LineTo(sent', e) = LineTo(sent, e)
      /\ FirstLines(sent) = {e \in FirstLines(sent') : e <= Len(sent)}
      /\ CommandsAreSingleLines(sent') => CommandsAreSingleLines(sent)
  BY <1>1, <1>2, AppendKeepsLines, AppendKeepsRequests
<1>5. /\ LineEnds(sent) \subseteq Nat /\ LineEnds(sent') \subseteq Nat
      /\ FirstLines(sent) \subseteq LineEnds(sent)
      /\ FirstLines(sent') \subseteq LineEnds(sent')
  <2>1. sent' \in Seq(Bytes)
    BY <1>1, <1>2
  <2> QED BY <1>1, <2>1 DEF LineEnds, FirstLines
<1>6. Consumed' > 0 => sent'[Consumed'] = Newline
  BY <1>1, <1>2, <1>3 DEF AnswerInv
<1>7. ASSUME CommandsAreSingleLines(sent')
      PROVE  \E start \in 0 .. Consumed :
                AnsweredUpTo(start)' /\ (MayGoOn' => NextRequest(start)')
  <2>1. PICK start \in 0 .. Consumed :
            AnsweredUpTo(start) /\ (MayGoOn => NextRequest(start))
    BY <1>4, <1>7 DEF AnswerInv
  <2>2. AnsweredUpTo(start)'
    <3>1. PICK ends \in [DOMAIN answered -> FirstLines(sent)] :
            /\ \A i, j \in DOMAIN ends : i < j => ends[i] < ends[j]
            /\ \A i \in DOMAIN ends : answered[i] = Trimmed(LineTo(sent, ends[i]))
            /\ \A e \in FirstLines(sent) : e <= start <=> \E i \in DOMAIN ends : e = ends[i]
      BY <2>1 DEF AnsweredUpTo
    <3>2. ends \in [DOMAIN answered' -> FirstLines(sent')]
      BY <1>4
    <3>3. \A i \in DOMAIN ends : ends[i] \in LineEnds(sent)
      BY <1>5
    <3>4. \A i \in DOMAIN ends : answered'[i] = Trimmed(LineTo(sent', ends[i]))
      BY <1>4, <3>1, <3>3
    <3>5. ASSUME NEW e \in FirstLines(sent')
          PROVE  e <= start <=> \E i \in DOMAIN ends : e = ends[i]
      <4>1. e \in Nat /\ start \in Nat /\ start <= Len(sent)
        BY <1>1, <1>5
      <4>2. CASE e <= Len(sent)
        BY <1>4, <3>1, <4>2
      <4>3. CASE ~(e <= Len(sent))
        <5>1. ~(e <= start) /\ e \notin FirstLines(sent)
          BY <1>1, <1>4, <4>1, <4>3
        <5> QED BY <5>1
      <4> QED BY <4>2, <4>3
    <3> QED BY <3>1, <3>2, <3>4, <3>5 DEF AnsweredUpTo
  <2>3. ASSUME MayGoOn' PROVE NextRequest(start)'
    <3>1. NextRequest(start)
      BY <1>2, <2>1, <2>3 DEF MayGoOn
    <3>2. \A place : ParagraphStart(place) => ParagraphStart(place)'
      BY <1>2, <1>4 DEF ParagraphStart
    <3>3. Text(sent', start, Consumed) = Text(sent, start, Consumed)
      <4>1. \A e \in LineEnds(sent') : e <= Consumed => e \in LineEnds(sent)
        BY <1>1, <1>4, <1>5
      <4>2. \A e \in LineEnds(sent) : e \in LineEnds(sent')
        BY <1>4
      <4> QED BY <1>4, <4>1, <4>2 DEF Text, HasText
    <3>4. \A e \in LineEnds(sent') :
            start < e /\ e <= Consumed /\ LineTo(sent', e) = <<>>
               => result = "request_read" /\ e = Consumed
      <4>1. \A e \in LineEnds(sent') : e <= Consumed => e \in LineEnds(sent)
        BY <1>1, <1>4, <1>5
      <4> QED BY <1>4, <3>1, <4>1 DEF NextRequest
    <3>5. requestLines # <<>> =>
           \E d \in Text(sent', start, Consumed) :
               /\ \A e \in Text(sent', start, Consumed) : d <= e
               /\ Head(requestLines) = Trimmed(LineTo(sent', d))
               /\ Len(requestLines) > 1 => \E e \in Text(sent', start, Consumed) : d < e
      <4>1. \A d \in Text(sent, start, Consumed) : LineTo(sent', d) = LineTo(sent, d)
        BY <1>4 DEF Text
      <4> QED BY <3>1, <3>3, <4>1 DEF NextRequest
    <3> QED BY <1>2, <3>1, <3>2, <3>3, <3>4, <3>5 DEF NextRequest
  <2> QED BY <2>2, <2>3
<1> QED BY <1>2, <1>6, <1>7 DEF AnswerInv

\* The next line of the stream begins where the last one has ended.
LEMMA NextLine ==
  ASSUME ConnectionInv, AnswerInv, NEW e, RequestReader!LineEndsAt(e)
  PROVE  /\ e \in LineEnds(sent) /\ e \in Nat /\ e > Consumed
         /\ LineTo(sent, e) = SubSeq(sent, Consumed + 1, e - 1)
         /\ \A f \in LineEnds(sent) : f <= e => f <= Consumed \/ f = e
<1>1. sent \in Seq(Bytes) /\ Consumed \in Nat /\ Consumed <= Len(sent)
  BY ConsumedTyped
<1>2. /\ e \in Consumed + 1 .. Len(sent) /\ sent[e] = Newline
      /\ \A i \in Consumed + 1 .. e - 1 : sent[i] # Newline
  BY DEF RequestReader!LineEndsAt, RequestReader!Newline, Newline
<1>3. e \in LineEnds(sent) /\ e \in Nat /\ e > Consumed
  BY <1>1, <1>2 DEF LineEnds
<1>4. Consumed + 1 \in 1 .. e /\ StartsAt(sent, Consumed + 1, e)
  <2>1. (Consumed + 1) - 1 = Consumed
    BY <1>1
  <2> QED BY <1>1, <1>2, <2>1 DEF StartsAt, AnswerInv
<1>5. LineTo(sent, e) = SubSeq(sent, Consumed + 1, e - 1)
  BY <1>1, <1>3, <1>4, LineToIs
<1>6. ASSUME NEW f \in LineEnds(sent), f <= e PROVE f <= Consumed \/ f = e
  <2>1. f \in Nat /\ sent[f] = Newline
    BY <1>1 DEF LineEnds
  <2> QED BY <1>1, <1>2, <1>3, <1>6, <2>1
<1> QED BY <1>3, <1>5, <1>6

\* A line is added to the next request, if there is text in it.
LEMMA TakeLineKeepsAnswers ==
  ASSUME ConnectionInv, AnswerInv, pc # "caller", RequestReader!TakeLine,
         UNCHANGED <<answered, keepalive>>
  PROVE  AnswerInv'
<1>1. PICK e \in Consumed + 1 .. Len(sent) :
        /\ RequestReader!LineEndsAt(e)
        /\ e > Consumed + 1
        /\ requestLines' = IF RequestReader!Trimmed(SubSeq(sent, Consumed + 1, e - 1)) = <<>>
                           THEN requestLines
                           ELSE Append(requestLines,
                                       RequestReader!Trimmed(SubSeq(sent, Consumed + 1, e - 1)))
        /\ Consumed' = e
        /\ UNCHANGED <<sent, hungUp, result>>
  BY DEF RequestReader!TakeLine
<1>2. /\ e \in LineEnds(sent) /\ e \in Nat /\ e > Consumed
      /\ LineTo(sent, e) = SubSeq(sent, Consumed + 1, e - 1)
      /\ \A f \in LineEnds(sent) : f <= e => f <= Consumed \/ f = e
  BY <1>1, NextLine
<1>3. /\ sent \in Seq(Bytes) /\ Consumed \in Nat /\ Consumed <= Len(sent)
      /\ LineEnds(sent) \subseteq Nat
  BY ConsumedTyped DEF LineEnds
<1>4. LineTo(sent, e) # <<>>
  <2>1. Len(SubSeq(sent, Consumed + 1, e - 1)) = e - 1 - Consumed
    BY <1>1, <1>2, <1>3
  <2> QED BY <1>1, <1>2, <1>3, <2>1
<1>5. requestLines' = IF Trimmed(LineTo(sent, e)) = <<>> THEN requestLines
                     ELSE Append(requestLines, Trimmed(LineTo(sent, e)))
  <2> DEFINE line == SubSeq(sent, Consumed + 1, e - 1)
  <2>1. RequestReader!Trimmed(line) = Trimmed(line)
    <3> HIDE DEF line
    <3> QED BY DEF Trimmed, Blank, RequestReader!Trimmed, RequestReader!Blank
  <2> QED BY <1>1, <1>2, <2>1
<1>6. result = "none" /\ requestLines \in Seq(Lines)
  BY DEF ConnectionInv, CallInv, InputInv, InputTypeOK
<1>7. Consumed' > 0 => sent'[Consumed'] = Newline
  BY <1>1, <1>2 DEF LineEnds
<1>8. ASSUME CommandsAreSingleLines(sent)
      PROVE  \E start \in 0 .. e : AnsweredUpTo(start)' /\ (MayGoOn' => NextRequest(start)')
  <2>1. PICK start \in 0 .. Consumed :
            AnsweredUpTo(start) /\ (MayGoOn => NextRequest(start))
    BY <1>8 DEF AnswerInv
  <2>2. start \in 0 .. e /\ AnsweredUpTo(start)'
    BY <1>1, <1>2, <1>3, <2>1, AnsweredStays
  <2>3. ASSUME MayGoOn' PROVE NextRequest(start)'
    <3>1. NextRequest(start)
      BY <1>1, <2>1, <2>3 DEF MayGoOn
    <3>2. ParagraphStart(start)'
      BY <1>1, <3>1 DEF NextRequest, ParagraphStart
    <3>3. \A f \in LineEnds(sent) : start < f /\ f <= e => LineTo(sent, f) # <<>>
      BY <1>2, <1>4, <1>6, <3>1 DEF NextRequest
    <3>4. Text(sent, start, e) = Text(sent, start, Consumed)
                                    \cup {f \in {e} : HasText(sent, f)}
      BY <1>2, <1>3, <2>1 DEF Text
    <3>5. Text(sent, start, Consumed) \subseteq Nat
          /\ \A f \in Text(sent, start, Consumed) : f < e
      BY <1>2, <1>3 DEF Text
    <3>6. requestLines' = <<>> => Text(sent, start, e) = {}
      BY <1>5, <1>6, <3>1, <3>4 DEF NextRequest, HasText
    <3>7. requestLines' # <<>> =>
           \E d \in Text(sent, start, e) :
               /\ \A f \in Text(sent, start, e) : d <= f
               /\ Head(requestLines') = Trimmed(LineTo(sent, d))
               /\ Len(requestLines') > 1 => \E f \in Text(sent, start, e) : d < f
      <4>1. CASE ~HasText(sent, e)
        <5>1. requestLines' = requestLines /\ Text(sent, start, e) = Text(sent, start, Consumed)
          BY <1>5, <3>4, <4>1 DEF HasText
        <5> QED BY <3>1, <5>1 DEF NextRequest
      <4>2. CASE HasText(sent, e) /\ requestLines = <<>>
        <5>1. Text(sent, start, e) = {e}
          BY <3>1, <3>4, <4>2 DEF NextRequest
        <5>2. requestLines' = <<Trimmed(LineTo(sent, e))>>
          BY <1>5, <4>2 DEF HasText
        <5>3. Head(requestLines') = Trimmed(LineTo(sent, e)) /\ Len(requestLines') = 1
          BY <5>2
        <5>4. e \in Text(sent, start, e) /\ \A f \in Text(sent, start, e) : e <= f
          BY <1>2, <5>1
        <5> QED BY <5>3, <5>4
      <4>3. CASE HasText(sent, e) /\ requestLines # <<>>
        <5>1. requestLines' = Append(requestLines, Trimmed(LineTo(sent, e)))
          BY <1>5, <4>3 DEF HasText
        <5>2. Head(requestLines') = Head(requestLines)
          BY <1>6, <4>3, <5>1
        <5>3. PICK d \in Text(sent, start, Consumed) :
                /\ \A f \in Text(sent, start, Consumed) : d <= f
                /\ Head(requestLines) = Trimmed(LineTo(sent, d))
          BY <3>1, <4>3 DEF NextRequest
        <5>4. d \in Text(sent, start, e) /\ e \in Text(sent, start, e) /\ d < e /\ d <= e
          BY <1>2, <3>4, <3>5, <4>3
        <5>5. \A f \in Text(sent, start, e) : d <= f
          BY <3>4, <5>3, <5>4
        <5> QED BY <5>2, <5>3, <5>4, <5>5
      <4> QED BY <4>1, <4>2, <4>3
    <3> QED BY <1>1, <1>6, <3>2, <3>3, <3>6, <3>7 DEF NextRequest
  <2> QED BY <2>2, <2>3
<1> QED BY <1>1, <1>7, <1>8 DEF AnswerInv

\* Nothing is left of an empty line.
LEMMA TrimmedEmpty == Trimmed(<<>>) = <<>>
<1>1. <<>> \in Seq(Bytes)
  OBVIOUS
<1> QED BY <1>1, TrimmedSound

\* An empty line ends the paragraph.
LEMMA EmptyLineKeepsAnswers ==
  ASSUME ConnectionInv, AnswerInv, pc # "caller", RequestReader!EmptyLine,
         UNCHANGED <<answered, keepalive>>
  PROVE  AnswerInv'
<1>1. /\ RequestReader!LineEndsAt(Consumed + 1)
      /\ Consumed' = Consumed + 1
      /\ UNCHANGED <<sent, hungUp, requestLines>>
      /\ result' \in {"empty_request", "request_read"}
  BY DEF RequestReader!EmptyLine, RequestReader!Return
<1>2. /\ sent \in Seq(Bytes) /\ Consumed \in Nat /\ Consumed <= Len(sent)
      /\ LineEnds(sent) \subseteq Nat
  BY ConsumedTyped DEF LineEnds
<1>9. PICK e \in Nat : e = Consumed + 1
  BY <1>2
<1>3. /\ e \in LineEnds(sent) /\ e \in Nat /\ e > Consumed
      /\ LineTo(sent, e) = SubSeq(sent, Consumed + 1, e - 1)
      /\ \A f \in LineEnds(sent) : f <= e => f <= Consumed \/ f = e
  BY <1>1, <1>9, NextLine
<1>4. LineTo(sent, e) = <<>> /\ ~HasText(sent, e)
  <2>1. SubSeq(sent, Consumed + 1, e - 1) = <<>>
    BY <1>2, <1>9
  <2> QED BY <1>3, <2>1, TrimmedEmpty DEF HasText
<1>5. result = "none"
  BY DEF ConnectionInv, CallInv
<1>6. Consumed' > 0 => sent'[Consumed'] = Newline
  BY <1>1, <1>3, <1>9 DEF LineEnds
<1>7. Consumed' = e
  BY <1>1, <1>9
<1>8. ASSUME CommandsAreSingleLines(sent)
      PROVE  \E start \in 0 .. e : AnsweredUpTo(start)' /\ (MayGoOn' => NextRequest(start)')
  <2>1. PICK start \in 0 .. Consumed :
            AnsweredUpTo(start) /\ (MayGoOn => NextRequest(start))
    BY <1>8 DEF AnswerInv
  <2>2. start \in 0 .. e /\ AnsweredUpTo(start)'
    BY <1>1, <1>2, <1>3, <2>1, AnsweredStays
  <2>3. ASSUME MayGoOn' PROVE NextRequest(start)'
    <3>1. NextRequest(start) /\ result' = "request_read"
      BY <1>1, <1>5, <2>1, <2>3 DEF MayGoOn
    <3>2. ParagraphStart(start)' /\ ParagraphStart(e)'
      BY <1>1, <1>3, <1>4, <3>1 DEF NextRequest, ParagraphStart
    <3>3. \A f \in LineEnds(sent) : start < f /\ f <= e /\ LineTo(sent, f) = <<>> => f = e
      BY <1>3, <1>5, <3>1 DEF NextRequest
    <3>4. Text(sent, start, e) = Text(sent, start, Consumed)
      BY <1>2, <1>3, <1>4 DEF Text
    <3> QED BY <1>1, <1>7, <3>1, <3>2, <3>3, <3>4 DEF NextRequest
  <2> QED BY <2>2, <2>3
<1> QED BY <1>1, <1>6, <1>7, <1>8 DEF AnswerInv

\* The end of the stream ends the last paragraph.
LEMMA EndOfFileKeepsAnswers ==
  ASSUME ConnectionInv, AnswerInv, pc # "caller", RequestReader!EndOfFile,
         UNCHANGED <<answered, keepalive>>
  PROVE  AnswerInv'
<1>1. /\ UNCHANGED <<sent, hungUp, Consumed, requestLines>>
      /\ hungUp
      /\ result' = IF Consumed < Len(sent) THEN "unexpected_eof"
                   ELSE IF requestLines = <<>> THEN "eof" ELSE "request_read"
  BY DEF RequestReader!EndOfFile, RequestReader!Return
<1>2. Consumed \in Nat /\ Consumed <= Len(sent) /\ Len(sent) \in Nat
  BY ConsumedTyped
<1>3. result = "none"
  BY DEF ConnectionInv, CallInv
<1>4. Consumed' > 0 => sent'[Consumed'] = Newline
  BY <1>1 DEF AnswerInv
<1>5. ASSUME CommandsAreSingleLines(sent)
      PROVE  \E start \in 0 .. Consumed :
                AnsweredUpTo(start)' /\ (MayGoOn' => NextRequest(start)')
  <2>1. PICK start \in 0 .. Consumed :
            AnsweredUpTo(start) /\ (MayGoOn => NextRequest(start))
    BY <1>5 DEF AnswerInv
  <2>2. AnsweredUpTo(start)'
    BY <1>1, <2>1, AnsweredStays
  <2>3. ASSUME MayGoOn' PROVE NextRequest(start)'
    <3>1. NextRequest(start) /\ result' = "request_read" /\ Consumed = Len(sent)
      BY <1>1, <1>2, <1>3, <2>1, <2>3 DEF MayGoOn
    <3>2. ParagraphStart(start)' /\ ParagraphStart(Consumed)'
      BY <1>1, <3>1 DEF NextRequest, ParagraphStart
    <3>3. \A f \in LineEnds(sent) :
              ~(start < f /\ f <= Consumed /\ LineTo(sent, f) = <<>>)
      BY <1>3, <3>1 DEF NextRequest
    <3> QED BY <1>1, <3>1, <3>2, <3>3 DEF NextRequest
  <2> QED BY <2>2, <2>3
<1> QED BY <1>1, <1>4, <1>5 DEF AnswerInv

\* The request that is answered is the next one of the stream.
LEMMA RequestIsNext ==
  ASSUME ConnectionInv, NEW start \in 0 .. Consumed, NextRequest(start),
         result = "request_read"
  PROVE  \E d \in FirstLines(sent) :
            /\ start < d /\ d <= Consumed /\ d \in Nat
            /\ \A e \in FirstLines(sent) : start < e /\ e <= Consumed => e = d
            /\ Head(requestLines) = Trimmed(LineTo(sent, d))
            /\ Head(LineTo(sent, d)) = Head(Head(requestLines))
            /\ Len(requestLines) > 1 =>
                   \E e \in LineEnds(sent) :
                       d < e /\ SameParagraph(sent, d, e) /\ HasText(sent, e)
<1>1. /\ sent \in Seq(Bytes) /\ Consumed \in Nat /\ Consumed <= Len(sent)
      /\ LineEnds(sent) \subseteq Nat /\ start \in Nat
  BY ConsumedTyped DEF LineEnds
<1>2. requestLines # <<>> /\ requestLines \in Seq(Lines)
  BY DEF ConnectionInv, CallInv, InputInv, InputTypeOK
<1>3. PICK d \in Text(sent, start, Consumed) :
        /\ \A e \in Text(sent, start, Consumed) : d <= e
        /\ Head(requestLines) = Trimmed(LineTo(sent, d))
        /\ Len(requestLines) > 1 => \E e \in Text(sent, start, Consumed) : d < e
  BY <1>2 DEF NextRequest
<1>4. /\ d \in LineEnds(sent) /\ d \in Nat /\ start < d /\ d <= Consumed
      /\ HasText(sent, d)
  BY <1>1, <1>3 DEF Text
<1>5. ASSUME NEW i \in LineEnds(sent), start < i, i <= Consumed, LineTo(sent, i) = <<>>
      PROVE  i = Consumed /\ ~HasText(sent, i)
  BY <1>5, TrimmedEmpty DEF NextRequest, HasText
<1>6. ASSUME NEW e \in Text(sent, start, Consumed), d < e
      PROVE  SameParagraph(sent, d, e)
  <2>1. e \in LineEnds(sent) /\ e \in Nat /\ e <= Consumed /\ HasText(sent, e)
    BY <1>1 DEF Text
  <2> SUFFICES ASSUME NEW i \in LineEnds(sent), i \in d .. e, LineTo(sent, i) = <<>>
               PROVE  FALSE
    BY DEF SameParagraph
  <2>2. start < i /\ i <= Consumed
    BY <1>1, <1>4, <2>1
  <2>3. i = Consumed /\ ~HasText(sent, i)
    BY <1>5, <2>2
  <2> QED BY <1>1, <2>1, <2>3
<1>7. d \in FirstLines(sent)
  <2> SUFFICES ASSUME NEW c \in LineEnds(sent), c < d, SameParagraph(sent, c, d),
                      HasText(sent, c)
               PROVE  FALSE
    BY <1>4 DEF FirstLines
  <2>1. c \in Nat
    BY <1>1
  <2>2. CASE start < c
    <3>1. c \in Text(sent, start, Consumed)
      BY <1>1, <1>4, <2>1, <2>2 DEF Text
    <3>2. d <= c
      BY <1>3, <3>1
    <3> QED BY <1>4, <2>1, <3>2
  <2>3. CASE c <= start
    <3>1. start # 0 /\ start # Len(sent)
      <4>1. c > 0
        BY <1>1 DEF LineEnds
      <4> QED BY <1>1, <1>4, <2>1, <2>3, <4>1
    <3>2. start \in LineEnds(sent) /\ LineTo(sent, start) = <<>>
      BY <3>1 DEF NextRequest, ParagraphStart
    <3>3. start \in c .. d
      BY <1>1, <1>4, <2>1, <2>3
    <3> QED BY <3>2, <3>3 DEF SameParagraph
  <2> QED BY <1>1, <2>1, <2>2, <2>3
<1>8. ASSUME NEW e \in FirstLines(sent), start < e, e <= Consumed
      PROVE  e = d
  <2>1. e \in LineEnds(sent) /\ HasText(sent, e) /\ e \in Nat
    BY <1>1 DEF FirstLines
  <2>2. e \in Text(sent, start, Consumed)
    BY <1>8, <2>1 DEF Text
  <2>3. d <= e
    BY <1>3, <2>2
  <2>4. ASSUME d < e PROVE FALSE
    BY <1>4, <1>6, <2>2, <2>4 DEF FirstLines
  <2> QED BY <1>4, <2>1, <2>3, <2>4
<1>9. Head(LineTo(sent, d)) = Head(Head(requestLines))
  <2>1. LineTo(sent, d) \in Seq(Bytes)
    <3>1. PICK b \in 1 .. d : StartsAt(sent, b, d)
      BY <1>1, <1>4, LineStarts
    <3>2. LineTo(sent, d) = SubSeq(sent, b, d - 1)
      BY <1>1, <1>4, <3>1, LineToIs
    <3> QED BY <1>1, <1>4, <3>1, <3>2
  <2> QED BY <1>3, <1>4, <2>1, TrimmedSound DEF HasText
<1>10. ASSUME Len(requestLines) > 1
       PROVE  \E e \in LineEnds(sent) :
                 d < e /\ SameParagraph(sent, d, e) /\ HasText(sent, e)
  BY <1>3, <1>6, <1>10 DEF Text
<1> QED BY <1>3, <1>4, <1>7, <1>8, <1>9, <1>10

\* One more request is answered.
LEMMA AnsweredNext ==
  ASSUME ConnectionInv, NEW start \in 0 .. Consumed, AnsweredUpTo(start),
         NEW d \in FirstLines(sent), d \in Nat, start < d, d <= Consumed,
         \A e \in FirstLines(sent) : start < e /\ e <= Consumed => e = d,
         sent' = sent, answered' = Append(answered, Trimmed(LineTo(sent, d)))
  PROVE  \E ends \in [DOMAIN answered' -> FirstLines(sent)] :
            /\ \A i, j \in DOMAIN ends : i < j => ends[i] < ends[j]
            /\ \A i \in DOMAIN ends : answered'[i] = Trimmed(LineTo(sent, ends[i]))
            /\ \A e \in FirstLines(sent) : e <= Consumed <=> \E i \in DOMAIN ends : e = ends[i]
<1>1. PICK ends \in [DOMAIN answered -> FirstLines(sent)] :
        /\ \A i, j \in DOMAIN ends : i < j => ends[i] < ends[j]
        /\ \A i \in DOMAIN ends : answered[i] = Trimmed(LineTo(sent, ends[i]))
        /\ \A e \in FirstLines(sent) : e <= start <=> \E i \in DOMAIN ends : e = ends[i]
  BY DEF AnsweredUpTo
<1>2. answered \in Seq(Lines) /\ Len(answered) \in Nat
  BY DEF ConnectionInv, LoopTypeOK
<1>3. /\ FirstLines(sent) \subseteq Nat /\ Consumed \in Nat /\ start \in Nat
      /\ start <= Consumed
  BY ConsumedTyped DEF FirstLines, LineEnds
<1> DEFINE n == Len(answered)
           more == [i \in 1 .. n + 1 |-> IF i = n + 1 THEN d ELSE ends[i]]
<1>4. /\ DOMAIN ends = 1 .. n /\ n \in Nat
      /\ \A i \in 1 .. n : ends[i] \in FirstLines(sent) /\ ends[i] \in Nat
                          /\ ends[i] <= start
  BY <1>1, <1>2, <1>3
<1>5. /\ answered' = Append(answered, Trimmed(LineTo(sent, d)))
      /\ DOMAIN answered' = 1 .. n + 1
      /\ \A i \in 1 .. n : answered'[i] = answered[i]
      /\ answered'[n + 1] = Trimmed(LineTo(sent, d))
  BY <1>2
<1> HIDE DEF n
<1>6. /\ more \in [1 .. n + 1 -> FirstLines(sent)] /\ DOMAIN more = 1 .. n + 1
      /\ more[n + 1] = d /\ \A i \in 1 .. n : more[i] = ends[i]
  BY <1>4
<1> HIDE DEF more
<1>7. ASSUME NEW i \in 1 .. n + 1, NEW j \in 1 .. n + 1, i < j PROVE more[i] < more[j]
  <2>1. i \in 1 .. n
    BY <1>4, <1>7
  <2>2. CASE j = n + 1
    BY <1>3, <1>4, <1>6, <2>1, <2>2
  <2>3. CASE j # n + 1
    <3>1. j \in 1 .. n
      BY <1>4, <2>3
    <3> QED BY <1>1, <1>4, <1>6, <1>7, <2>1, <3>1
  <2> QED BY <2>2, <2>3
<1>8. ASSUME NEW i \in 1 .. n + 1 PROVE answered'[i] = Trimmed(LineTo(sent, more[i]))
  <2>1. CASE i = n + 1
    BY <1>5, <1>6, <2>1
  <2>2. CASE i # n + 1
    <3>1. i \in 1 .. n
      BY <1>4, <2>2
    <3> QED BY <1>1, <1>4, <1>5, <1>6, <3>1
  <2> QED BY <2>1, <2>2
<1>9. ASSUME NEW e \in FirstLines(sent)
      PROVE  e <= Consumed <=> \E i \in 1 .. n + 1 : e = more[i]
  <2>1. e \in Nat
    BY <1>3
  <2>2. ASSUME e <= Consumed PROVE \E i \in 1 .. n + 1 : e = more[i]
    <3>1. CASE e <= start
      <4>1. PICK i \in 1 .. n : e = ends[i]
        BY <1>1, <1>4, <3>1
      <4> QED BY <1>4, <1>6, <4>1
    <3>2. CASE start < e
      <4>1. e = d /\ n + 1 \in 1 .. n + 1
        BY <1>4, <2>2, <3>2
      <4> QED BY <1>6, <4>1
    <3> QED BY <1>3, <2>1, <3>1, <3>2
  <2>3. ASSUME NEW i \in 1 .. n + 1, e = more[i] PROVE e <= Consumed
    <3>1. CASE i = n + 1
      BY <1>6, <2>3, <3>1
    <3>2. CASE i # n + 1
      <4>1. i \in 1 .. n
        BY <1>4, <3>2
      <4> QED BY <1>3, <1>4, <1>6, <2>1, <2>3, <4>1
    <3> QED BY <3>1, <3>2
  <2> QED BY <2>2, <2>3
<1>10. more \in [DOMAIN answered' -> FirstLines(sent)]
  BY <1>5, <1>6
<1> WITNESS more \in [DOMAIN answered' -> FirstLines(sent)]
<1> QED BY <1>6, <1>7, <1>8, <1>9

\* GET takes all lines, and COMMAND all there are if it is sent as one line; after
\* any other method the connection is closed.
LEMMA RequestKeepsAnswers ==
  ASSUME ConnectionInv, AnswerInv,
         \/ \E fixed16, keep \in BOOLEAN : GetRequest(fixed16, keep)
         \/ CommandRequest
         \/ OtherRequest
  PROVE  AnswerInv'
<1>1. PICK n \in {1, Len(requestLines)} : Request(n)
  BY DEF GetRequest, CommandRequest, OtherRequest
<1>2. /\ n \in 1 .. Len(requestLines)
      /\ answered' = Append(answered, Head(requestLines))
      /\ pc' = "caller" /\ result' = "none" /\ result = "request_read"
      /\ TakeLines(n)
  BY <1>1, RequestCalls DEF ConnectionInv, InputInv, Request
<1>3. UNCHANGED <<sent, hungUp, Consumed>>
      /\ requestLines' = SubSeq(requestLines, n + 1, Len(requestLines))
  BY <1>2 DEF TakeLines, clientVars, bufferVars, Consumed
<1>4. Consumed \in Nat /\ requestLines \in Seq(Lines) /\ requestLines # <<>>
  BY <1>2, ConsumedTyped DEF ConnectionInv, InputInv, InputTypeOK
<1>5. Consumed' > 0 => sent'[Consumed'] = Newline
  BY <1>3 DEF AnswerInv
<1>6. keepalive
  BY <1>1 DEF ConnectionInv, CallInv, Request
<1>7. ASSUME CommandsAreSingleLines(sent)
      PROVE  AnsweredUpTo(Consumed)' /\ (MayGoOn' => NextRequest(Consumed)')
  <2>1. PICK start \in 0 .. Consumed : AnsweredUpTo(start) /\ NextRequest(start)
    BY <1>2, <1>6, <1>7 DEF AnswerInv, MayGoOn
  <2>2. PICK d \in FirstLines(sent) :
            /\ start < d /\ d <= Consumed /\ d \in Nat
            /\ \A e \in FirstLines(sent) : start < e /\ e <= Consumed => e = d
            /\ Head(requestLines) = Trimmed(LineTo(sent, d))
            /\ Head(LineTo(sent, d)) = Head(Head(requestLines))
            /\ Len(requestLines) > 1 =>
                   \E e \in LineEnds(sent) :
                       d < e /\ SameParagraph(sent, d, e) /\ HasText(sent, e)
    BY <1>2, <2>1, RequestIsNext
  <2>3. \E ends \in [DOMAIN answered' -> FirstLines(sent)] :
            /\ \A i, j \in DOMAIN ends : i < j => ends[i] < ends[j]
            /\ \A i \in DOMAIN ends : answered'[i] = Trimmed(LineTo(sent, ends[i]))
            /\ \A e \in FirstLines(sent) : e <= Consumed <=> \E i \in DOMAIN ends : e = ends[i]
    <3>1. answered' = Append(answered, Trimmed(LineTo(sent, d)))
      BY <1>2, <2>2
    <3> QED BY <1>3, <2>1, <2>2, <3>1, AnsweredNext
  <2>4. AnsweredUpTo(Consumed)'
    BY <1>3, <2>3 DEF AnsweredUpTo
  <2>5. ASSUME MayGoOn' PROVE requestLines' = <<>>
    <3>1. CASE n = Len(requestLines)
      BY <1>3, <1>4, <3>1
    <3>2. CASE n # Len(requestLines)
      <4>1. Len(requestLines) > 1
        BY <1>1, <1>2, <1>4, <3>2
      <4>2. CommandRequest
        <5>1. ~OtherRequest
          BY <2>5 DEF OtherRequest, MayGoOn
        <5>2. ~\E fixed16, keep \in BOOLEAN : GetRequest(fixed16, keep)
          <6> SUFFICES ASSUME NEW fixed16 \in BOOLEAN, NEW keep \in BOOLEAN,
                              GetRequest(fixed16, keep)
                       PROVE  FALSE
            OBVIOUS
          <6>1. requestLines' = SubSeq(requestLines, Len(requestLines) + 1, Len(requestLines))
            BY DEF GetRequest, Request, TakeLines
          <6>2. Len(requestLines') = 0
            BY <1>4, <6>1
          <6>3. Len(requestLines') = Len(requestLines) - n
            BY <1>2, <1>3, <1>4
          <6> QED BY <1>2, <1>4, <3>2, <6>2, <6>3
        <5> QED BY <5>1, <5>2
      <4>3. Head(LineTo(sent, d)) = "C"
        BY <2>2, <4>2 DEF CommandRequest
      <4>4. PICK e \in LineEnds(sent) :
                d < e /\ SameParagraph(sent, d, e) /\ HasText(sent, e)
        BY <2>2, <4>1
      <4> QED BY <1>7, <4>3, <4>4 DEF CommandsAreSingleLines
    <3> QED BY <3>1, <3>2
  <2>6. ASSUME MayGoOn' PROVE NextRequest(Consumed)'
    <3>1. ParagraphStart(Consumed)'
      BY <1>2, <1>3, <2>1 DEF NextRequest, ParagraphStart
    <3>2. Text(sent, Consumed, Consumed) = {}
      BY <1>4, ConsumedTyped DEF Text, LineEnds
    <3>3. \A e \in LineEnds(sent) : ~(Consumed < e /\ e <= Consumed)
      BY <1>4, ConsumedTyped DEF LineEnds
    <3> QED BY <1>2, <1>3, <2>5, <2>6, <3>1, <3>2, <3>3 DEF NextRequest
  <2> QED BY <2>4, <2>6
<1>8. Consumed \in 0 .. Consumed
  BY <1>4
<1> QED BY <1>3, <1>5, <1>7, <1>8 DEF AnswerInv

\* readRequest is running.
LEMMA ReadKeepsAnswers ==
  ASSUME ConnectionInv, AnswerInv, Read
  PROVE  AnswerInv'
<1>1. UNCHANGED <<answered, keepalive>> /\ Reading
  BY DEF Read, loopVars
<1>2. pc # "caller" /\ result = "none"
  BY <1>1 DEF ConnectionInv, CallInv, Reading, FullLine, EmptyLine, NeedData, Shift,
              Grow, LineTooLong, ReadSome, EndOfFile, TimeOut, Terminated
<1>3. CASE RequestReader!LineTooLong \/ RequestReader!GiveUp
  <2>1. /\ UNCHANGED <<sent, hungUp, Consumed, requestLines>>
        /\ result' \in {"line_too_long", "timeout", "should_terminate"}
    BY <1>3 DEF RequestReader!LineTooLong, RequestReader!GiveUp, RequestReader!Return
  <2> QED BY <1>1, <2>1, AnswerInvStutters DEF MayGoOn
<1>4. CASE ReaderStutters
  BY <1>1, <1>4, AnswerInvStutters DEF ReaderStutters, MayGoOn
<1> QED
  BY <1>1, <1>2, <1>3, <1>4, ReadingImplementsReader, TakeLineKeepsAnswers,
     EmptyLineKeepsAnswers, EndOfFileKeepsAnswers
     DEF ConnectionInv

\* Every step of the connection answers what the client sends, in its order.
LEMMA AnswerStep ==
  ConnectionInv /\ AnswerInv /\ [Next]_vars => AnswerInv'
<1> SUFFICES ASSUME ConnectionInv, AnswerInv, [Next]_vars PROVE AnswerInv'
  OBVIOUS
<1>1. CASE Outside
  <2>1. ASSUME NEW c \in Bytes, Send(c) PROVE AnswerInv'
    BY <1>1, <2>1, SendKeepsAnswers DEF Outside, loopVars
  <2>2. CASE HangUp \/ Terminate
    BY <1>1, <2>2, AnswerInvStutters
       DEF Outside, HangUp, Terminate, loopVars, clientVars, bufferVars, callVars,
           Consumed, MayGoOn
  <2> QED BY <1>1, <2>1, <2>2 DEF Outside, Environment
<1>2. CASE Leave
  BY <1>2, AnswerInvStutters DEF Leave, bufferVars, callVars, Consumed, MayGoOn
<1>3. CASE BeginRequest
  BY <1>3, AnswerInvStutters
     DEF BeginRequest, ReadRequest, clientVars, bufferVars, Consumed, MayGoOn
<1>4. CASE RequestFailed
  BY <1>4, AnswerInvStutters
     DEF RequestFailed, inputVars, clientVars, bufferVars, callVars, Consumed, MayGoOn
<1>5. CASE CloseConnection \/ WritePiece \/ GiveUpWriting \/ Flushed \/ Closed
           \/ UNCHANGED vars
  <2>1. UNCHANGED <<inputVars, keepalive, answered>>
    BY <1>5 DEF CloseConnection, WritePiece, GiveUpWriting, Flushed, Closed, vars, loopVars
  <2> QED BY <2>1, AnswerInvStutters
          DEF inputVars, clientVars, bufferVars, callVars, Consumed, MayGoOn
<1> QED
  BY <1>1, <1>2, <1>3, <1>4, <1>5, ReadKeepsAnswers, RequestKeepsAnswers DEF Next

\* A new connection has answered nothing.
LEMMA AnswerInvInit == Init => AnswerInv
<1> SUFFICES ASSUME Init PROVE AnswerInv
  OBVIOUS
<1>1. /\ sent = <<>> /\ Consumed = 0 /\ requestLines = <<>> /\ result = "none"
      /\ answered = <<>>
  BY DEF Init, InputInit, Consumed
<1>2. LineEnds(sent) = {} /\ FirstLines(sent) = {} /\ Text(sent, 0, Consumed) = {}
  BY <1>1 DEF LineEnds, FirstLines, Text
<1>3. AnsweredUpTo(0)
  <2> DEFINE none == [i \in {} |-> 0]
  <2>1. DOMAIN answered = {} /\ none \in [DOMAIN answered -> FirstLines(sent)]
        /\ DOMAIN none = {}
    BY <1>1
  <2> HIDE DEF none
  <2> QED BY <1>2, <2>1 DEF AnsweredUpTo
<1>4. NextRequest(0)
  BY <1>1, <1>2 DEF NextRequest, ParagraphStart
<1>5. 0 \in 0 .. Consumed
  BY <1>1
<1> QED BY <1>1, <1>3, <1>4, <1>5 DEF AnswerInv

\* What has been answered is what was asked, in its order.
LEMMA AnswersInOrder ==
  ASSUME ConnectionInv, AnswerInv
  PROVE  RequestsAsSent
<1> SUFFICES ASSUME CommandsAreSingleLines(sent)
             PROVE  \E ends \in [DOMAIN answered -> FirstLines(sent)] :
                      /\ \A i, j \in DOMAIN ends : i < j => ends[i] < ends[j]
                      /\ \A i \in DOMAIN ends : answered[i] = Trimmed(LineTo(sent, ends[i]))
                      /\ \A i \in DOMAIN ends, e \in FirstLines(sent) :
                             e < ends[i] => \E j \in DOMAIN ends : e = ends[j]
  BY DEF RequestsAsSent
<1>1. PICK start \in 0 .. Consumed : AnsweredUpTo(start)
  BY DEF AnswerInv
<1>2. PICK ends \in [DOMAIN answered -> FirstLines(sent)] :
        /\ \A i, j \in DOMAIN ends : i < j => ends[i] < ends[j]
        /\ \A i \in DOMAIN ends : answered[i] = Trimmed(LineTo(sent, ends[i]))
        /\ \A e \in FirstLines(sent) : e <= start <=> \E i \in DOMAIN ends : e = ends[i]
  BY <1>1 DEF AnsweredUpTo
<1>3. FirstLines(sent) \subseteq Nat /\ start \in Nat
  BY ConsumedTyped DEF FirstLines, LineEnds
<1>4. ASSUME NEW i \in DOMAIN ends, NEW e \in FirstLines(sent), e < ends[i]
      PROVE  \E j \in DOMAIN ends : e = ends[j]
  <2>1. ends[i] \in FirstLines(sent) /\ ends[i] <= start
    BY <1>2
  <2>2. e <= start
    BY <1>3, <1>4, <2>1
  <2> QED BY <1>2, <2>2
<1> WITNESS ends \in [DOMAIN answered -> FirstLines(sent)]
<1> QED BY <1>2, <1>4

------------------------------------------------------------------------------
(* Theorems *)

\* Every variable of a connection and of its buffer keeps its type, for any
\* stream and any sizes of the buffer.
THEOREM TypeCorrect == Spec => []TypeOK
<1>1. ConnectionInv => TypeOK
  BY DEF ConnectionInv, InputInv, TypeOK
<1> QED BY <1>1, ConnectionInvariant, PTL

\* However the bytes arrive, and however often the buffer is shifted and
\* enlarged, it holds the stream from the current line on (InputBuffer.cc).
THEOREM NoByteIsLost == Spec => []BufferHoldsStream
<1>1. ConnectionInv => BufferHoldsStream
  BY DEF ConnectionInv, InputInv
<1> QED BY <1>1, ConnectionInvariant, PTL

\* Only the last answer a client receives can be incomplete, for any number of
\* requests on the connection (OutputBuffer.cc, client_thread).
THEOREM RepliesAreWhole == Spec => []OnlyTheLastReplyIsCut
<1>1. ConnectionInv => OnlyTheLastReplyIsCut
  BY DEF ConnectionInv
<1> QED BY <1>1, ConnectionInvariant, PTL

\* InputBuffer::readRequest hands out the lines and requests of the stream as
\* the reader without a buffer does, for any sizes of the buffer.
THEOREM BufferImplementsReader == Spec => ImplementsRequestReader
<1>1. Init => RequestReader!Init
  BY InputInitImplementsReader DEF Init
<1>2. ConnectionInv /\ [Next]_vars => [RequestReader!Next]_(RequestReader!vars)
  <2> SUFFICES ASSUME ConnectionInv, [Next]_vars
               PROVE  [RequestReader!Next]_(RequestReader!vars)
    OBVIOUS
  <2>1. [InputNext]_inputVars
    BY ConnectionReads DEF ConnectionInv, InputInv
  <2> QED BY <2>1, InputStepImplementsReader DEF ConnectionInv
<1> QED
  BY <1>1, <1>2, ConnectionInvariant, PTL
     DEF Spec, ImplementsRequestReader, RequestReader!Spec

\* Requests are answered once, in the order sent, and none is made up of parts of
\* others, for any stream in which commands are single lines (Store::answerRequest,
\* InputBuffer::readRequest).
THEOREM AnswersAreInOrder == Spec => []RequestsAsSent
<1>1. Init => AnswerInv
  BY AnswerInvInit
<1>2. ConnectionInv /\ AnswerInv /\ [Next]_vars => AnswerInv'
  BY AnswerStep
<1>3. ConnectionInv /\ AnswerInv => RequestsAsSent
  BY AnswersInOrder
<1> QED BY <1>1, <1>2, <1>3, ConnectionInvariant, PTL DEF Spec
==============================================================================
