-------------------------- MODULE MCClientConnection --------------------------
(* Small instances of ClientConnection for TLC. *)
EXTENDS ClientConnection

\* Every stream of five bytes, and some with several requests.
LongStreams ==
    {<<"G", "\n", "C", "\n", "\n", "G", "C", "\n", "\n">>, \* GET, GET
     <<"C", "G", "\n", "\n", "G", "\n", "G", "\n", "\n">>, \* COMMAND, GET
     <<"C", "G", "\n", "G", "\n", "\n", "G", "\n", "\n">>, \* a command of two lines
     <<"G", "\n", "G", "\n", " ", "\n", "\n", "C", "\n">>, \* a blank line inside
     <<"G", "C", "G", "C", "G", "C", "\n", "\n", "G">>}    \* too long for a line

SomeStreams ==
    UNION {[1 .. n -> {"G", "C", " ", "\n"}] : n \in 1 .. 5}
        \cup {SubSeq(s, 1, n) : s \in LongStreams, n \in 1 .. 9}
==============================================================================
