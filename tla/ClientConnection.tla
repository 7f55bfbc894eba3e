--------------------------- MODULE ClientConnection ---------------------------
(***************************************************************************)
(* One connection: the request loop of client_thread in src/module.cc,     *)
(* Store::answerRequest in src/Store.cc and src/OutputBuffer.cc, on top of *)
(* the InputBuffer.                                                        *)
(*                                                                         *)
(* A line that begins with "G" stands for GET, with "C" for COMMAND, any   *)
(* other for LOGROTATE or an unknown method.  What a query answers, and    *)
(* whether it asks for the fixed16 header and for keep-alive, is chosen    *)
(* freely, but a query without headers asks for neither.  The body of an   *)
(* answer is two pieces, so that it can be cut in the middle.              *)
(***************************************************************************)
EXTENDS InputBuffer

VARIABLES phase,     \* where client_thread is with this connection
          keepalive, \* keepalive
          output,    \* what the OutputBuffer still has to write
          gone,      \* the client does not read any more
          commands,  \* what Nagios was told to do
          replies,   \* what the client has received
          answered   \* ghost: the first lines of the requests answered

outputVars == <<output, gone, replies>>
loopVars == <<phase, keepalive, outputVars, commands, answered>>
vars == <<inputVars, loopVars>>

Init ==
    /\ InputInit
    /\ phase = "loop"
    /\ keepalive = TRUE
    /\ output = <<>>
    /\ gone = FALSE
    /\ commands = <<>>
    /\ replies = <<>>
    /\ answered = <<>>

------------------------------------------------------------------------------
\* The client writes, or shuts down its side of the connection, or Nagios
\* terminates the threads.
Outside ==
    /\ phase # "closed"
    /\ Environment
    /\ UNCHANGED loopVars

\* The client closes the connection altogether.
Leave ==
    /\ ~gone
    /\ gone' = TRUE
    /\ hungUp' = TRUE
    /\ UNCHANGED <<sent, bufferVars, callVars, shouldTerminate, phase, keepalive,
                   output, replies, commands, answered>>

------------------------------------------------------------------------------
\* client_thread: another round, with a new OutputBuffer ...
BeginRequest ==
    /\ phase = "loop"
    /\ keepalive
    /\ ~shouldTerminate
    /\ ReadRequest
    /\ phase' = "request"
    /\ UNCHANGED <<keepalive, outputVars, commands, answered>>

\* ... or close(cc).
CloseConnection ==
    /\ phase = "loop"
    /\ ~keepalive \/ shouldTerminate
    /\ phase' = "closed"
    /\ UNCHANGED <<inputVars, keepalive, outputVars, commands, answered>>

Read ==
    /\ phase = "request"
    /\ Reading
    /\ UNCHANGED loopVars

\* answerRequest: readRequest returned anything but a request.  The error
\* message is lost, because no header was asked for.
RequestFailed ==
    /\ phase = "request"
    /\ pc = "caller"
    /\ result # "request_read"
    /\ keepalive' = FALSE
    /\ phase' = "flush"
    /\ UNCHANGED <<inputVars, outputVars, commands, answered>>

\* answerRequest: there is a request, and n of its lines are taken.
Request(n) ==
    /\ phase = "request"
    /\ result = "request_read"
    /\ TakeLines(n)
    /\ phase' = "flush"
    /\ answered' = Append(answered, Head(requestLines))
    /\ UNCHANGED <<gone, replies>>

\* OutputBuffer::flush of the answer to the n-th request.
Reply(n, fixed16) ==
    LET Piece(part) == [request |-> n, part |-> part]
        body == <<Piece("front"), Piece("back")>>
    IN  IF fixed16 THEN <<Piece("header")>> \o body ELSE body

\* Mutant of GetRequest: the headers are not taken.
GetRequestLeavingHeaders(fixed16, keep) ==
    /\ Request(1)
    /\ Head(Head(requestLines)) = "G"
    /\ Len(requestLines) = 1 => ~fixed16 /\ ~keep
    /\ output' = Reply(Len(answered) + 1, fixed16)
    /\ keepalive' = keep
    /\ UNCHANGED commands

\* GET takes all lines.
GetRequest(fixed16, keep) ==
    /\ Request(Len(requestLines))
    /\ Head(Head(requestLines)) = "G"
    /\ Len(requestLines) = 1 => ~fixed16 /\ ~keep
    /\ output' = Reply(Len(answered) + 1, fixed16)
    /\ keepalive' = keep
    /\ UNCHANGED commands

\* COMMAND takes one line and has no answer; it is dropped if there is no room
\* for a time stamp.
CommandRequest ==
    /\ Request(1)
    /\ Head(Head(requestLines)) = "C"
    /\ commands' = IF Len(Head(requestLines)) > 1
                   THEN Append(commands, Head(requestLines)) ELSE commands
    /\ keepalive' = TRUE
    /\ UNCHANGED output

OtherRequest ==
    /\ Request(1)
    /\ Head(Head(requestLines)) \notin {"G", "C"}
    /\ keepalive' = FALSE
    /\ UNCHANGED <<output, commands>>

------------------------------------------------------------------------------
\* writeData: the client receives a piece.  The flag may have been set since
\* the condition of the loop was evaluated.
WritePiece ==
    /\ phase = "flush"
    /\ output # <<>>
    /\ ~gone
    /\ replies' = Append(replies, Head(output))
    /\ output' = Tail(output)
    /\ UNCHANGED <<inputVars, phase, keepalive, gone, commands, answered>>

\* Mutant of GiveUpWriting: a busy client is given up too.
GiveUpWritingEarly ==
    /\ phase = "flush"
    /\ output # <<>>
    /\ output' = <<>>
    /\ UNCHANGED <<inputVars, phase, keepalive, gone, replies, commands, answered>>

\* writeData: the client is gone, or the threads are to terminate.  What is left
\* is lost, and the header and the body meet the same fate.
GiveUpWriting ==
    /\ phase = "flush"
    /\ output # <<>>
    /\ gone \/ shouldTerminate
    /\ output' = <<>>
    /\ UNCHANGED <<inputVars, phase, keepalive, gone, replies, commands, answered>>

\* ~OutputBuffer is done.
Flushed ==
    /\ phase = "flush"
    /\ output = <<>>
    /\ phase' = "loop"
    /\ UNCHANGED <<inputVars, keepalive, outputVars, commands, answered>>

\* The connection is closed for good.
Closed ==
    /\ phase = "closed"
    /\ UNCHANGED vars

Next ==
    \/ Outside
    \/ Leave
    \/ BeginRequest
    \/ CloseConnection
    \/ Read
    \/ RequestFailed
    \/ \E fixed16, keep \in BOOLEAN : GetRequest(fixed16, keep)
    \/ CommandRequest
    \/ OtherRequest
    \/ WritePiece
    \/ GiveUpWriting
    \/ Flushed
    \/ Closed

Spec == Init /\ [][Next]_vars

------------------------------------------------------------------------------
\* What the client means by a stream s: the requests are its paragraphs.  A line
\* is named by the place of its Newline.
LineEnds(s) == {e \in DOMAIN s : s[e] = Newline}
StartsAt(s, b, e) ==
    /\ b > 1 => s[b - 1] = Newline
    /\ \A i \in b .. e - 1 : s[i] # Newline
LineTo(s, e) == SubSeq(s, CHOOSE b \in 1 .. e : StartsAt(s, b, e), e - 1)
HasText(s, e) == Trimmed(LineTo(s, e)) # <<>>
SameParagraph(s, d, e) ==
    \A i \in LineEnds(s) : i \in d .. e => LineTo(s, i) # <<>>

FirstLines(s) ==
    {e \in LineEnds(s) :
        /\ HasText(s, e)
        /\ \A d \in LineEnds(s) : d < e /\ SameParagraph(s, d, e) => ~HasText(s, d)}

\* COMMAND takes the first line only.  A client that sends more lines with it
\* finds them at the beginning of its next request.
CommandsAreSingleLines(s) ==
    \A d \in FirstLines(s) : Head(LineTo(s, d)) = "C" =>
        \A e \in LineEnds(s) : d < e /\ SameParagraph(s, d, e) => ~HasText(s, e)

\* Requests are answered once, in the order sent, and none is made up of parts
\* of others, whatever is pipelined and however the bytes arrive; for a client
\* that sends a command as a single line.
RequestsAsSent ==
    CommandsAreSingleLines(sent) =>
        \E ends \in [DOMAIN answered -> FirstLines(sent)] :
            /\ \A i, j \in DOMAIN ends : i < j => ends[i] < ends[j]
            /\ \A i \in DOMAIN ends : answered[i] = Trimmed(LineTo(sent, ends[i]))
            /\ \A i \in DOMAIN ends, e \in FirstLines(sent) :
                   e < ends[i] => \E j \in DOMAIN ends : e = ends[j]

\* What the client receives next: the rest of an answer, or a later answer.
Follows(a, b) ==
    CASE a.part = "header" -> b = [a EXCEPT !.part = "front"]
      [] a.part = "front" -> b = [a EXCEPT !.part = "back"]
      [] a.part = "back" -> b.request > a.request /\ b.part # "back"

\* The client can tell the answers apart: every one follows the one before, and
\* only the last one it gets can be incomplete.
OnlyTheLastReplyIsCut ==
    \A i \in 1 .. Len(replies) - 1 : Follows(replies[i], replies[i + 1])
==============================================================================
