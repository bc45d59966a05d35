------------------------------ MODULE LineService ------------------------------
(***************************************************************************)
(* What the sessions of cmail-smtpd and cmail-popd expect of their input:  *)
(* a client sends a stream of bytes, and the lines of it are handled one   *)
(* after the other, whatever pieces it arrives in.                         *)
(*                                                                         *)
(* Three things are part of the bargain.  A line ends with CR and LF in    *)
(* one piece: a "cut" is a CR that ended a piece, and ends no line.  A     *)
(* line that is incomplete and ends in two NULs is forgotten.  And a line  *)
(* may be too long: to be handled, or to be waited for.                    *)
(***************************************************************************)
EXTENDS Integers, Sequences, FiniteSetsExt

CONSTANTS Size,    \* bytes a session keeps of a line that is incomplete
          MaxLine, \* length from which on a line is too long, CR and LF included
          Bytes    \* the bytes there are

VARIABLES rest, \* what was received and is not handled
          line, \* the line handled last
          open  \* the connection is up

vars == <<rest, line, open>>

NoLine == [text |-> <<>>, kind |-> "none"]

\* Where the lines of s end.
Ends(s) == {i \in 1 .. Len(s) - 1 : s[i] = "CR" /\ s[i + 1] = "LF"}

\* A piece: only its last byte may be marked, and is when it is a CR.
IsPiece(s) ==
    \A i \in 1 .. Len(s) :
        s[i] \in IF i < Len(s) THEN Bytes ELSE (Bytes \ {"CR"}) \cup {"cut"}

Nuls(s) == {i \in 1 .. Len(s) : s[i] = "NUL"}

\* Handlers see a line as a string of C.
AsString(s) == IF Nuls(s) = {} THEN s ELSE SubSeq(s, 1, Min(Nuls(s)) - 1)

Handled(s) ==
    IF Len(s) >= MaxLine - 2 THEN [text |-> <<>>, kind |-> "too long"]
    ELSE [text |-> AsString(s), kind |-> "handled"]

Forgotten(s) == Len(s) > 1 /\ s[Len(s)] = "NUL" /\ s[Len(s) - 1] = "NUL"

Receive ==
    /\ open
    /\ Ends(rest) = {} /\ Len(rest) < Size - 1
    /\ Len(rest) < Len(rest') /\ Len(rest') <= Size
    /\ SubSeq(rest', 1, Len(rest)) = rest
    /\ IsPiece(SubSeq(rest', Len(rest) + 1, Len(rest')))
    /\ UNCHANGED <<line, open>>

\* The first line is handled; the handler may close the connection.
HandleLine ==
    /\ Ends(rest) # {}
    /\ LET i == Min(Ends(rest))
       IN  /\ line' = Handled(SubSeq(rest, 1, i - 1))
           /\ rest' = SubSeq(rest, i + 2, Len(rest))
    /\ open' \in {open, FALSE}
    /\ line'.kind = "too long" => open' = open

Forget ==
    /\ Ends(rest) = {} /\ Forgotten(rest)
    /\ rest' = <<>>
    /\ UNCHANGED <<line, open>>

\* The client, a failing read, a timeout, or a line that does not end.
Close ==
    /\ open' = FALSE
    /\ UNCHANGED <<rest, line>>

\* The slot of a closed connection is given to the next one.
Accept ==
    /\ ~open
    /\ open' = TRUE /\ rest' = <<>> /\ line' = NoLine

Init == rest = <<>> /\ line = NoLine /\ open = TRUE

Next == Receive \/ HandleLine \/ Forget \/ Close \/ Accept

Spec == Init /\ [][Next]_vars
===============================================================================
