------------------------------ MODULE InputBuffer ------------------------------
(***************************************************************************)
(* The input side of one client connection: src/InputBuffer.cc.            *)
(*                                                                         *)
(* readRequest looks for the end of a line in a buffer, and reads, shifts  *)
(* or enlarges it when there is none.  readIndex is the beginning of the   *)
(* current line, r the place where the search goes on, writeIndex the end  *)
(* of the data.  What is left of the stream and of the lines is kept for   *)
(* the next call.                                                          *)
(*                                                                         *)
(* Time is abstracted: a call of readData may time out at any moment, if   *)
(* there is a query timeout, and the idle timeout may have been reached    *)
(* whenever it is looked at.                                               *)
(***************************************************************************)
EXTENDS Naturals, Sequences

CONSTANTS Letters,      \* what a client writes beside blanks and line ends
          InitialSize,  \* initial_buffer_size
          MaximumSize,  \* maximum_buffer_size
          QueryTimeout, \* is there a query timeout?
          IdleTimeout,  \* is there an idle timeout?
          Streams       \* bound: what a client may write, with all prefixes

Blank == " "
Newline == "\n"
Nul == "nul"
Bytes == Letters \cup {Blank, Newline}

ASSUME SizeAssumption ==
    /\ InitialSize \in Nat \ {0}
    /\ MaximumSize \in Nat
    /\ InitialSize <= MaximumSize
    /\ {QueryTimeout, IdleTimeout} \subseteq BOOLEAN
    /\ Streams \subseteq Seq(Bytes)
    /\ {Blank, Newline, Nul} \cap Letters = {}

VARIABLES sent,            \* all the client has written
          hungUp,          \* the client writes no more
          received,        \* number of bytes read from the socket
          buffer,          \* _readahead_buffer
          capacity,        \* its capacity
          readIndex,       \* _read_index
          writeIndex,      \* _write_index
          r,               \* how far readRequest has looked for a line end
          requestLines,    \* _request_lines
          queryStarted,    \* query_started
          pc,              \* "caller", or readRequest in "scan" or in "read"
          result,          \* what readRequest returned, "none" when taken
          shouldTerminate  \* _termination_flag

clientVars == <<sent, hungUp>>
bufferVars == <<received, buffer, capacity, readIndex, writeIndex>>
callVars == <<r, requestLines, queryStarted, pc, result>>
inputVars == <<clientVars, bufferVars, callVars, shouldTerminate>>

InputInit ==
    /\ sent = <<>>
    /\ hungUp = FALSE
    /\ received = 0
    /\ buffer = [i \in 0 .. InitialSize - 1 |-> Nul]
    /\ capacity = InitialSize
    /\ readIndex = 0
    /\ writeIndex = 0
    /\ r = 0
    /\ requestLines = <<>>
    /\ queryStarted = FALSE
    /\ pc = "caller"
    /\ result = "none"
    /\ shouldTerminate = FALSE

------------------------------------------------------------------------------
\* The client and Nagios.
Send(c) ==
    /\ ~hungUp
    /\ Append(sent, c) \in Streams
    /\ sent' = Append(sent, c)
    /\ UNCHANGED <<hungUp, bufferVars, callVars, shouldTerminate>>

HangUp ==
    /\ ~hungUp
    /\ hungUp' = TRUE
    /\ UNCHANGED <<sent, bufferVars, callVars, shouldTerminate>>

Terminate ==
    /\ ~shouldTerminate
    /\ shouldTerminate' = TRUE
    /\ UNCHANGED <<clientVars, bufferVars, callVars>>

------------------------------------------------------------------------------
\* The caller asks for a request when it has taken a line of the last one.
ReadRequest ==
    /\ pc = "caller"
    /\ result = "none"
    /\ pc' = "scan"
    /\ r' = readIndex
    /\ queryStarted' = FALSE
    /\ UNCHANGED <<clientVars, bufferVars, requestLines, result, shouldTerminate>>

\* nextLine, n times: the caller takes lines from the front.
TakeLines(n) ==
    /\ pc = "caller"
    /\ result \in {"none", "request_read"}
    /\ requestLines' = SubSeq(requestLines, n + 1, Len(requestLines))
    /\ result' = "none"
    /\ UNCHANGED <<clientVars, bufferVars, r, queryStarted, pc, shouldTerminate>>

Return(res) ==
    /\ pc' = "caller"
    /\ result' = res

\* Where the search for a Newline from r on stops.
ScanStopsAt(e) ==
    /\ e \in r .. writeIndex
    /\ \A i \in r .. e - 1 : buffer[i] # Newline
    /\ e < writeIndex => buffer[e] = Newline

Line(first, end) == [i \in 1 .. end - first |-> buffer[first + i - 1]]

\* Mutant of Trimmed: one byte too many goes.
TrimmedTooMuch(line) ==
    LET last == CHOOSE n \in 0 .. Len(line) :
                    /\ n > 0 => line[n] # Blank
                    /\ \A i \in n + 1 .. Len(line) : line[i] = Blank
    IN  SubSeq(line, 1, IF last > 1 THEN last - 1 ELSE last)

\* The loop over isspace: white space at the end of a line is dropped.
Trimmed(line) ==
    LET last == CHOOSE n \in 0 .. Len(line) :
                    /\ n > 0 => line[n] # Blank
                    /\ \A i \in n + 1 .. Len(line) : line[i] = Blank
    IN  SubSeq(line, 1, last)

\* A line that is not empty belongs to the request, unless it is all blank.
FullLine ==
    /\ pc = "scan"
    /\ \E e \in r .. writeIndex :
        /\ ScanStopsAt(e)
        /\ e < writeIndex
        /\ e > readIndex
        /\ LET line == Trimmed(Line(readIndex, e)) IN
           requestLines' = IF line = <<>> THEN requestLines
                                          ELSE Append(requestLines, line)
        /\ readIndex' = e + 1
        /\ r' = e + 1
    /\ queryStarted' = TRUE
    /\ UNCHANGED <<clientVars, received, buffer, capacity, writeIndex, pc, result,
                   shouldTerminate>>

\* An empty line ends the request.
EmptyLine ==
    /\ pc = "scan"
    /\ ScanStopsAt(readIndex)
    /\ readIndex < writeIndex
    /\ readIndex' = readIndex + 1
    /\ r' = readIndex + 1
    /\ Return(IF requestLines = <<>> THEN "empty_request" ELSE "request_read")
    /\ UNCHANGED <<clientVars, received, buffer, capacity, writeIndex,
                   requestLines, queryStarted, shouldTerminate>>

\* All data has been searched: there is room for more.
NeedData ==
    /\ pc = "scan"
    /\ ScanStopsAt(writeIndex)
    /\ writeIndex < capacity
    /\ pc' = "read"
    /\ r' = writeIndex
    /\ UNCHANGED <<clientVars, bufferVars, requestLines, queryStarted, result,
                   shouldTerminate>>

\* Mutant of Shift: the size of what is left is one short.
ShiftOneShort ==
    /\ pc = "scan"
    /\ ScanStopsAt(writeIndex)
    /\ writeIndex = capacity
    /\ readIndex > 0
    /\ buffer' = [i \in DOMAIN buffer |->
                    IF i + 1 < writeIndex - readIndex THEN buffer[i + readIndex]
                                                      ELSE buffer[i]]
    /\ readIndex' = 0
    /\ writeIndex' = writeIndex - readIndex
    /\ r' = writeIndex - readIndex
    /\ UNCHANGED <<clientVars, received, capacity, requestLines, queryStarted, pc,
                   result, shouldTerminate>>

\* There is room at the beginning: memmove, and all indexes move along.
Shift ==
    /\ pc = "scan"
    /\ ScanStopsAt(writeIndex)
    /\ writeIndex = capacity
    /\ readIndex > 0
    /\ buffer' = [i \in DOMAIN buffer |->
                    IF i < writeIndex - readIndex THEN buffer[i + readIndex]
                                                  ELSE buffer[i]]
    /\ readIndex' = 0
    /\ writeIndex' = writeIndex - readIndex
    /\ r' = writeIndex - readIndex
    /\ UNCHANGED <<clientVars, received, capacity, requestLines, queryStarted, pc,
                   result, shouldTerminate>>

\* The buffer is full of one line: twice the capacity.
Grow ==
    /\ pc = "scan"
    /\ ScanStopsAt(writeIndex)
    /\ writeIndex = capacity
    /\ readIndex = 0
    /\ 2 * capacity <= MaximumSize
    /\ capacity' = 2 * capacity
    /\ buffer' = [i \in 0 .. 2 * capacity - 1 |->
                    IF i < capacity THEN buffer[i] ELSE Nul]
    /\ r' = writeIndex
    /\ UNCHANGED <<clientVars, received, readIndex, writeIndex, requestLines,
                   queryStarted, pc, result, shouldTerminate>>

\* ... as long as that is within the maximum.
LineTooLong ==
    /\ pc = "scan"
    /\ ScanStopsAt(writeIndex)
    /\ writeIndex = capacity
    /\ readIndex = 0
    /\ 2 * capacity > MaximumSize
    /\ r' = writeIndex
    /\ Return("line_too_long")
    /\ UNCHANGED <<clientVars, bufferVars, requestLines, queryStarted,
                   shouldTerminate>>

------------------------------------------------------------------------------
\* readData: read(2) returns n bytes.  The flag may have been set since the
\* condition of the loop was evaluated.
ReadSome(n) ==
    /\ pc = "read"
    /\ n <= Len(sent) - received
    /\ n <= capacity - writeIndex
    /\ buffer' = [i \in DOMAIN buffer |->
                    IF i \in writeIndex .. writeIndex + n - 1
                    THEN sent[received + i - writeIndex + 1] ELSE buffer[i]]
    /\ received' = received + n
    /\ writeIndex' = writeIndex + n
    /\ pc' = "scan"
    /\ UNCHANGED <<clientVars, capacity, readIndex, r, requestLines, queryStarted,
                   result, shouldTerminate>>

\* readData: the end of the stream, which may end a request but not a line.
EndOfFile ==
    /\ pc = "read"
    /\ hungUp
    /\ received = Len(sent)
    /\ Return(IF r # readIndex THEN "unexpected_eof"
              ELSE IF requestLines = <<>> THEN "eof" ELSE "request_read")
    /\ UNCHANGED <<clientVars, bufferVars, r, requestLines, queryStarted,
                   shouldTerminate>>

\* readData: the query timeout.  Between two queries it is ignored, unless the
\* idle timeout has been reached too.
TimeOut ==
    /\ pc = "read"
    /\ QueryTimeout
    /\ \/ /\ queryStarted \/ IdleTimeout
          /\ Return("timeout")
       \/ /\ ~queryStarted
          /\ pc' = "scan"
          /\ UNCHANGED result
    /\ UNCHANGED <<clientVars, bufferVars, r, requestLines, queryStarted,
                   shouldTerminate>>

Terminated ==
    /\ pc = "read"
    /\ shouldTerminate
    /\ Return("should_terminate")
    /\ UNCHANGED <<clientVars, bufferVars, r, requestLines, queryStarted,
                   shouldTerminate>>

\* What readRequest does once it has been called.
Reading ==
    \/ FullLine
    \/ EmptyLine
    \/ NeedData
    \/ Shift
    \/ Grow
    \/ LineTooLong
    \/ \E n \in 1 .. capacity : ReadSome(n)
    \/ EndOfFile
    \/ TimeOut
    \/ Terminated

Environment ==
    \/ \E c \in Bytes : Send(c)
    \/ HangUp
    \/ Terminate

InputNext ==
    \/ Environment
    \/ ReadRequest
    \/ Reading
    \/ \E n \in 1 .. Len(requestLines) : TakeLines(n)

InputSpec == InputInit /\ [][InputNext]_inputVars

------------------------------------------------------------------------------
Results == {"none", "request_read", "empty_request", "eof", "unexpected_eof",
            "line_too_long", "timeout", "should_terminate"}

\* Number of bytes that have become lines.
Consumed == received - (writeIndex - readIndex)

\* Whatever was read, shifted and enlarged: the buffer holds the bytes of the
\* stream from the beginning of the current line on, none lost, none twice.
\* And no line end has been overlooked.
BufferHoldsStream ==
    /\ 0 <= readIndex /\ readIndex <= writeIndex /\ writeIndex <= capacity
    /\ r <= writeIndex
    /\ writeIndex - readIndex <= received
    /\ \A i \in readIndex .. writeIndex - 1 :
           buffer[i] = sent[Consumed + i - readIndex + 1]
    /\ pc # "caller" =>
           /\ readIndex <= r
           /\ \A i \in readIndex .. r - 1 : buffer[i] # Newline
    /\ pc = "read" => r = writeIndex

\* The sizes that doubling the first one reaches within the maximum.
IsSetOfSizes(S) ==
    /\ InitialSize \in S
    /\ \A n \in S : 2 * n <= MaximumSize => 2 * n \in S
Sizes ==
    {n \in InitialSize .. MaximumSize :
        \A S \in SUBSET (InitialSize .. MaximumSize) : IsSetOfSizes(S) => n \in S}

\* readRequest hands out exactly the lines and requests of the stream.
LongestLine == CHOOSE n \in Sizes : 2 * n > MaximumSize

RequestReader == INSTANCE RequestReader WITH
    LineLimit <- LongestLine,
    pos <- Consumed,
    reading <- pc # "caller"

ImplementsRequestReader == RequestReader!Spec
==============================================================================
