----------------------------- MODULE RequestReader -----------------------------
(***************************************************************************)
(* What InputBuffer::readRequest promises to its caller, without a buffer: *)
(* the bytes of a client are one stream, the stream is a sequence of       *)
(* lines, and a request is what comes before an empty line or the end of   *)
(* the stream.  InputBuffer implements it.                                 *)
(***************************************************************************)
EXTENDS Naturals, Sequences

CONSTANTS Letters,   \* what a client writes beside blanks and line ends
          LineLimit  \* the length from which on a line may be refused

Blank == " "
Newline == "\n"
Bytes == Letters \cup {Blank, Newline}

VARIABLES sent,         \* all the client has written
          hungUp,       \* the client writes no more
          pos,          \* number of bytes that have become lines
          requestLines, \* lines read and not yet handed to the caller
          reading,      \* readRequest is running
          result        \* what it returned

vars == <<sent, hungUp, pos, requestLines, reading, result>>

Init ==
    /\ sent = <<>>
    /\ hungUp = FALSE
    /\ pos = 0
    /\ requestLines = <<>>
    /\ reading = FALSE
    /\ result = "none"

\* The line without the white space at its end.
Trimmed(line) ==
    LET last == CHOOSE n \in 0 .. Len(line) :
                    /\ n > 0 => line[n] # Blank
                    /\ \A i \in n + 1 .. Len(line) : line[i] = Blank
    IN  SubSeq(line, 1, last)

\* There is a line from pos on, and e is the place of its Newline.
LineEndsAt(e) ==
    /\ e \in pos + 1 .. Len(sent)
    /\ sent[e] = Newline
    /\ \A i \in pos + 1 .. e - 1 : sent[i] # Newline

NoWholeLine == \A i \in pos + 1 .. Len(sent) : sent[i] # Newline

Send(c) ==
    /\ ~hungUp
    /\ sent' = Append(sent, c)
    /\ UNCHANGED <<hungUp, pos, requestLines, reading, result>>

HangUp ==
    /\ hungUp' = TRUE
    /\ UNCHANGED <<sent, pos, requestLines, reading, result>>

\* The caller may ask for a request once it has taken the last one.
ReadRequest ==
    /\ ~reading
    /\ result = "none"
    /\ reading' = TRUE
    /\ UNCHANGED <<sent, hungUp, pos, requestLines, result>>

Return(res) ==
    /\ reading
    /\ reading' = FALSE
    /\ result' = res

TakeLine ==
    /\ reading
    /\ \E e \in pos + 1 .. Len(sent) :
        /\ LineEndsAt(e)
        /\ e > pos + 1
        /\ LET line == Trimmed(SubSeq(sent, pos + 1, e - 1)) IN
           requestLines' = IF line = <<>> THEN requestLines
                                          ELSE Append(requestLines, line)
        /\ pos' = e
    /\ UNCHANGED <<sent, hungUp, reading, result>>

\* An empty line ends the request.
EmptyLine ==
    /\ LineEndsAt(pos + 1)
    /\ pos' = pos + 1
    /\ Return(IF requestLines = <<>> THEN "empty_request" ELSE "request_read")
    /\ UNCHANGED <<sent, hungUp, requestLines>>

\* So does the end of the stream, unless it is in the middle of a line.
EndOfFile ==
    /\ hungUp
    /\ NoWholeLine
    /\ Return(IF pos < Len(sent) THEN "unexpected_eof"
              ELSE IF requestLines = <<>> THEN "eof" ELSE "request_read")
    /\ UNCHANGED <<sent, hungUp, pos, requestLines>>

LineTooLong ==
    /\ Len(sent) >= pos + LineLimit
    /\ \A i \in pos + 1 .. pos + LineLimit : sent[i] # Newline
    /\ Return("line_too_long")
    /\ UNCHANGED <<sent, hungUp, pos, requestLines>>

GiveUp ==
    /\ Return("timeout") \/ Return("should_terminate")
    /\ UNCHANGED <<sent, hungUp, pos, requestLines>>

\* The caller takes lines from the front.
TakeLines(n) ==
    /\ ~reading
    /\ result \in {"none", "request_read"}
    /\ requestLines' = SubSeq(requestLines, n + 1, Len(requestLines))
    /\ result' = "none"
    /\ UNCHANGED <<sent, hungUp, pos, reading>>

Next ==
    \/ \E c \in Bytes : Send(c)
    \/ HangUp
    \/ ReadRequest
    \/ TakeLine
    \/ EmptyLine
    \/ EndOfFile
    \/ LineTooLong
    \/ GiveUp
    \/ \E n \in 1 .. Len(requestLines) : TakeLines(n)

Spec == Init /\ [][Next]_vars
==============================================================================
