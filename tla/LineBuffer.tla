------------------------------ MODULE LineBuffer ------------------------------
(***************************************************************************)
(* How client_process of cmail-smtpd and of cmail-popd turns reads into    *)
(* lines: the buffer of a connection and common_next_line.                 *)
(*                                                                         *)
(* common_next_line ends a line by two NULs in the place of CR and LF and  *)
(* leaves the offset behind them.  The next call takes two NULs in front   *)
(* of the offset for that, and moves what follows to the front.  It looks  *)
(* for CR and LF among the bytes that are new only.                        *)
(*                                                                         *)
(* A CR that was the last byte of a read is written "cut"; the code makes  *)
(* no difference between the two.                                          *)
(***************************************************************************)
EXTENDS Integers, Sequences, FiniteSetsExt

CONSTANTS Size,    \* CMAIL_RECEIVE_BUFFER_LENGTH
          MaxLine, \* SMTP_MAX_LINE_LENGTH, or POP_MAX_LINE_LENGTH
          Bytes    \* the bytes clients send

ASSUME BufferAssumption ==
    /\ Size \in Nat /\ MaxLine \in Nat
    /\ 2 < MaxLine /\ MaxLine <= Size
    /\ Bytes \subseteq {"CR", "LF", "NUL", "x"}

VARIABLES buf,  \* recv_buffer, as far as it holds bytes of the client
          off,  \* recv_offset; what is behind it in buf is new
          busy, \* the loop over the lines of a read runs
          line, \* the line handled last
          open  \* the connection is up

vars == <<buf, off, busy, line, open>>

IsCR(b) == b \in {"CR", "cut"}
NoLine == [text |-> <<>>, kind |-> "none"]

-------------------------------------------------------------------------------
(* common_next_line *)

Terminated == off > 1 /\ buf[off] = "NUL" /\ buf[off - 1] = "NUL"

\* Mutant of Front: the offset stays behind the line that was moved away.
FrontForgotten == off

\* The offset and the buffer behind the copyback.
Front == IF Terminated THEN 0 ELSE off
Moved == IF Terminated THEN SubSeq(buf, off + 1, Len(buf)) ELSE buf

\* Where CR and LF are among the new bytes.
LineEnds ==
    {i \in Front + 1 .. Len(Moved) - 1 : IsCR(Moved[i]) /\ Moved[i + 1] = "LF"}

\* No line is complete: all bytes are old now.
NoMoreLines ==
    /\ buf' = Moved
    /\ off' = Len(Moved)

Nuls(s) == {i \in 1 .. Len(s) : s[i] = "NUL"}

\* Handlers read the line as a string.
AsString(s) == IF Nuls(s) = {} THEN s ELSE SubSeq(s, 1, Min(Nuls(s)) - 1)

\* Mutant of TooLong: a line may fill the limit.
TooLongWithSlack(length) == length > MaxLine

TooLong(length) == length >= MaxLine - 2

\* The CR and LF at i are overwritten, and what is in front of them is a line.
TakeLine(i) ==
    /\ buf' = [Moved EXCEPT ![i] = "NUL", ![i + 1] = "NUL"]
    /\ off' = i + 1
    /\ line' = IF TooLong(i - 1) THEN [text |-> <<>>, kind |-> "too long"]
               ELSE [text |-> AsString(SubSeq(Moved, 1, i - 1)), kind |-> "handled"]

-------------------------------------------------------------------------------
(* client_process *)

Left == Size - off >= 2

\* A piece of the stream, marked.
Piece(s) == IF s[Len(s)] = "CR" THEN [s EXCEPT ![Len(s)] = "cut"] ELSE s

\* A read that brings bytes, at most as many as there is room for.
Read ==
    /\ open /\ ~busy
    /\ Left
    /\ \E n \in 1 .. Size - off : \E s \in [1..n -> Bytes] : buf' = buf \o Piece(s)
    /\ busy' = TRUE
    /\ UNCHANGED <<off, line, open>>

\* No room is left: 500 Line too long.
CloseTooLong ==
    /\ open /\ ~busy
    /\ ~Left
    /\ open' = FALSE
    /\ UNCHANGED <<buf, off, busy, line>>

\* One round of the loop.  The handler may close the connection, which does not
\* end the loop; the limit of failed commands closes it and does.
HandleLine ==
    /\ busy
    /\ LineEnds # {}
    /\ TakeLine(Min(LineEnds))
    /\ \/ UNCHANGED <<busy, open>>
       \/ line'.kind = "handled" /\ open' = FALSE /\ busy' \in BOOLEAN

EndOfRead ==
    /\ busy
    /\ LineEnds = {}
    /\ NoMoreLines
    /\ busy' = FALSE
    /\ UNCHANGED <<line, open>>

\* The client disconnects, the read fails, the connection is timed out, or the
\* daemon stops.
Close ==
    /\ open /\ ~busy
    /\ open' = FALSE
    /\ UNCHANGED <<buf, off, busy, line>>

\* client_accept initialises the offset of the connection that gets the slot.
Accept ==
    /\ ~open /\ ~busy
    /\ open' = TRUE
    /\ buf' = <<>> /\ off' = 0 /\ line' = NoLine
    /\ UNCHANGED busy

Init == buf = <<>> /\ off = 0 /\ busy = FALSE /\ line = NoLine /\ open = TRUE

Next == Read \/ CloseTooLong \/ HandleLine \/ EndOfRead \/ Close \/ Accept

Spec == Init /\ [][Next]_vars

-------------------------------------------------------------------------------
(* Properties *)

\* Everything in the buffer fits in it; what is behind the offset is looked at
\* before the session waits for more.
TypeOK ==
    /\ buf \in Seq(Bytes \cup {"cut", "NUL"}) /\ Len(buf) <= Size
    /\ off \in 0 .. Len(buf)
    /\ busy \in BOOLEAN /\ open \in BOOLEAN
    /\ open /\ ~busy => off = Len(buf)
    /\ line.kind \in {"none", "handled", "too long"}
    /\ Len(line.text) < MaxLine - 2

\* The bytes that wait for the rest of their line.
Rest == SubSeq(buf, IF Terminated THEN off + 1 ELSE 1, Len(buf))

Service == INSTANCE LineService WITH rest <- Rest

\* However a stream is cut into reads and wherever its lines lie in the buffer,
\* the same lines are handled, in their order, each once, none of them with
\* bytes of another, except that a CR and LF in two reads do not end a line and
\* that two NULs at the end of a read discard what is in front of them.
ImplementsLines == Service!Spec
===============================================================================
