------------------------------ MODULE PathParser ------------------------------
(***************************************************************************)
(* The paths of a mail: how path_parse of cmail-smtpd reads the argument   *)
(* of MAIL and RCPT, what the handlers make of the result, and what        *)
(* redirect routes read of the paths when the mail is complete.            *)
(*                                                                         *)
(* A path is an array of characters and the position of its delimiter.     *)
(* path_parse writes over what the array holds, and only path_reset clears *)
(* it.  The paths of recipients come from the pool cleared.  The reverse   *)
(* path belongs to the session, and a MAIL that can not be parsed leaves   *)
(* it as it is.  The route of a path lies behind its array, so that what is    *)
(* read behind the last cell are the bytes of a pointer, route.router.     *)
(*                                                                         *)
(* Characters are read one at a time.  In an array only @ and the rest ("x") *)
(* are told apart, and whether an earlier command wrote them.              *)
(***************************************************************************)
EXTENDS Integers, Sequences, FiniteSetsExt

CONSTANTS MaxPath, \* SMTP_MAX_PATH_LENGTH
          Chars,   \* the characters clients send
          None

AllChars == {"@", "quote", "escape", "(", ")", "<", ">", ":", "space", "control", "x"}

ASSUME PathAssumption ==
    /\ MaxPath \in Nat \ {0}
    /\ Chars \subseteq AllChars
    /\ None \notin {"reverse", "forward"}

VARIABLES path,    \* the two paths
          cur,     \* the path that is parsed, or None
          mode,    \* where in the argument the parser is
          quotes,  \* local variables of path_parse
          comment,
          out,
          stage,   \* IDLE, RECIPIENTS, or READY with a recipient
          dirty    \* history: the reverse path was written by a MAIL that failed

vars == <<path, cur, mode, quotes, comment, out, stage, dirty>>
parser == <<cur, mode, quotes, comment, out>>

Index == 0 .. MaxPath - 1
Nul == [char |-> "nul", old |-> FALSE]
Cell == {Nul} \cup [char : {"x", "@"}, old : BOOLEAN]

\* The first byte behind the array: zero without a router, and now and then with
\* one, or something that is no text of anybody.
Router == [char |-> "router", old |-> FALSE]
Behind == {Nul, Router}

\* Mutant of Fresh: the array keeps its text.
FreshText(p) == [cells |-> p.cells, delim |-> 0, seps |-> {}, behind |-> Nul]

\* path_reset.  seps is history: where an @ out of quotes was written.
Fresh(p) == [cells |-> [i \in Index |-> Nul], delim |-> 0, seps |-> {}, behind |-> Nul]

NewPath == [cells |-> [i \in Index |-> Nul], delim |-> 0, seps |-> {}, behind |-> Nul]

-------------------------------------------------------------------------------
(* path_parse *)

P == path[cur]
Parsing == cur # None

\* What an array holds when a command begins is text of an earlier one.
Aged(p) == [cells |-> [i \in Index |-> IF p.cells[i] = Nul THEN Nul
                                       ELSE [p.cells[i] EXCEPT !.old = TRUE]],
            delim |-> p.delim, seps |-> {}, behind |-> p.behind]

Written(p, i, cell) ==
    [cells |-> [p.cells EXCEPT ![i] = cell], delim |-> p.delim, seps |-> p.seps,
     behind |-> p.behind]

StartParse(name) ==
    /\ cur' = name /\ mode' = "lead"
    /\ quotes' = FALSE /\ comment' = FALSE /\ out' = 0
    /\ path' = [path EXCEPT ![name] = Aged(@)]

\* Mutant of HasRoom: the array is filled to its end.
HasRoomForAll == out < MaxPath

HasRoom == out < MaxPath - 1

Printable(c) == c # "control"

\* A character is appended to the path.
Append1(c) ==
    /\ path' = [path EXCEPT ![cur] =
                    Written(P, out, [char |-> IF c = "@" THEN "@" ELSE "x", old |-> FALSE])]
    /\ out' = out + 1

AppendPrintable(c) == IF Printable(c) THEN Append1(c) ELSE UNCHANGED <<path, out>>

\* An @ that ends the local part.
IsSeparator(c) == c = "@" /\ ~quotes

TwoDelimiters == P.delim # 0 \/ P.cells[0].char = "@"

\* The delimiter is set behind the first character.
SetDelimiter ==
    /\ path' = [path EXCEPT ![cur] =
                    [cells |-> Written(P, out, [char |-> "@", old |-> FALSE]).cells,
                     delim |-> out,
                     seps  |-> IF quotes THEN P.seps ELSE P.seps \cup {out},
                     behind |-> P.behind]]
    /\ out' = out + 1

\* Outside of comments, routes and escapes.
InText(c) ==
    /\ mode = "text" \/ (mode = "lead" /\ c # "space")
    /\ ~comment

LeadingSpace(c) ==
    /\ mode = "lead" /\ c = "space"
    /\ UNCHANGED <<path, mode, quotes, comment, out>>

\* Whatever is escaped is copied.
Escaped(c) ==
    /\ mode = "escape" /\ mode' = "text"
    /\ AppendPrintable(c)
    /\ UNCHANGED <<quotes, comment>>

\* A source route is skipped up to its colon.
InRoute(c) ==
    /\ mode = "route" /\ mode' = IF c = ":" THEN "text" ELSE "route"
    /\ UNCHANGED <<path, quotes, comment, out>>

InComment(c) ==
    /\ comment /\ comment' = (c # ")")
    /\ UNCHANGED <<path, mode, quotes, out>>

\* Characters that are not copied.  An @ at the beginning starts a route, in
\* quotes too; > ends the path.
Special(c) ==
    /\ InText(c)
    /\ \/ c = "@" /\ out = 0
       \/ c \in {"quote", "escape", "("}
       \/ c \in {"<", ">"} /\ ~quotes
    /\ mode' = CASE c = "@" -> "route" [] c = "escape" -> "escape" [] c = ">" -> "done"
                 [] OTHER -> "text"
    /\ quotes' = IF c = "quote" THEN ~quotes ELSE quotes
    /\ comment' = (c = "(")
    /\ UNCHANGED <<path, out>>

Separator(c) ==
    /\ InText(c) /\ out > 0 /\ IsSeparator(c)
    /\ ~TwoDelimiters /\ SetDelimiter
    /\ mode' = "text"
    /\ UNCHANGED <<quotes, comment>>

Copied(c) ==
    /\ InText(c)
    /\ c \notin {"quote", "escape", "(", ")"}
    /\ c = "@" => out > 0 /\ ~IsSeparator(c)
    /\ c \in {"<", ">"} => quotes
    /\ AppendPrintable(c)
    /\ mode' = "text"
    /\ UNCHANGED <<quotes, comment>>

\* The next character, when it does not make the parser give up.
Feed(c) ==
    /\ Parsing /\ HasRoom
    /\ \/ LeadingSpace(c) \/ Escaped(c) \/ InRoute(c) \/ InComment(c)
       \/ Special(c) \/ Separator(c) \/ Copied(c)
    /\ UNCHANGED <<cur, stage, dirty>>

\* A parenthesis that was not opened, or a second delimiter.
GivesUp(c) ==
    /\ Parsing /\ HasRoom /\ InText(c)
    /\ c = ")" \/ (out > 0 /\ IsSeparator(c) /\ TwoDelimiters)

-------------------------------------------------------------------------------
(* MAIL, RCPT and the end of a mail *)

Idle == mode' = "lead" /\ quotes' = FALSE /\ comment' = FALSE /\ out' = 0 /\ cur' = None

\* 501 Path rejected: the path of a recipient goes back to the pool.
Rejected ==
    IF cur = "forward"
    THEN path' = [path EXCEPT !["forward"] = Fresh(@)] /\ UNCHANGED <<stage, dirty>>
    ELSE dirty' = TRUE /\ UNCHANGED <<path, stage>>

Mail == ~Parsing /\ stage = "IDLE" /\ StartParse("reverse") /\ UNCHANGED <<stage, dirty>>

\* One recipient is enough: the others are like it.
Rcpt == ~Parsing /\ stage = "RECIPIENTS" /\ StartParse("forward") /\ UNCHANGED <<stage, dirty>>

Fail == (\E c \in Chars : GivesUp(c)) /\ Rejected /\ Idle

\* What path_parse leaves when it comes to its end, and path_resolve behind it.
Parsed(byte) ==
    [cells |-> Written(P, out, Nul).cells,
     delim |-> IF P.delim = 0 THEN out ELSE P.delim,
     seps  |-> P.seps, behind |-> byte]

\* The array is full, the path is closed, or the line is over.  The path is
\* resolved then, and refused or accepted.
Finish ==
    /\ Parsing
    /\ IF comment
       THEN \* the terminator is written before the comment is noticed
            IF cur = "forward" THEN Rejected
            ELSE /\ path' = [path EXCEPT ![cur] = Written(P, out, Nul)]
                 /\ dirty' = TRUE /\ UNCHANGED stage
       ELSE \/ /\ \E byte \in Behind : path' = [path EXCEPT ![cur] = Parsed(byte)]
               /\ stage' = IF cur = "reverse" THEN "RECIPIENTS" ELSE "READY"
               /\ UNCHANGED dirty
            \/ /\ path' = [path EXCEPT ![cur] = Fresh(@)]
               /\ dirty' = (dirty /\ cur = "forward")
               /\ UNCHANGED stage
    /\ Idle

\* mail_reset: RSET, EHLO, the end of the mail or of the connection.
MailReset ==
    /\ ~Parsing
    /\ path' = [name \in DOMAIN path |-> Fresh(path[name])]
    /\ stage' = "IDLE" /\ dirty' = FALSE
    /\ UNCHANGED parser

Init ==
    /\ path = [name \in {"reverse", "forward"} |-> NewPath]
    /\ cur = None /\ mode = "lead" /\ quotes = FALSE /\ comment = FALSE /\ out = 0
    /\ stage = "IDLE" /\ dirty = FALSE

Next == Mail \/ Rcpt \/ (\E c \in Chars : Feed(c)) \/ Fail \/ Finish \/ MailReset

Spec == Init /\ [][Next]_vars

-------------------------------------------------------------------------------
(* Router redirect of mail_route: the variables of its argument *)

\* The string of C that begins at i, in the array or behind its last cell.  How far
\* the bytes of the pointer go does not matter.
EndFrom(p, i) == Min({j \in Index : j >= i /\ p.cells[j] = Nul} \cup {MaxPath})
BehindArray(p) == IF p.behind = Nul THEN <<>> ELSE <<p.behind>>
StringAt(p, i) ==
    IF i \in Index THEN [k \in 1 .. EndFrom(p, i) - i |-> p.cells[i + k - 1]]
    ELSE BehindArray(p)
LocalPart(p) == [k \in 1 .. Min({p.delim, EndFrom(p, 0)}) |-> p.cells[k - 1]]

Forward == path["forward"]
Reverse == path["reverse"]

\* Mutant of Skip: the @ is taken for the first character of the domain.
SkipNothing == 0

\* What is skipped of a domain: its @, if the path of the recipient has one.
Skip == IF Forward.cells[Forward.delim] # Nul THEN 1 ELSE 0

ToLocal == LocalPart(Forward)
ToDomain == StringAt(Forward, Forward.delim + Skip)
FromLocal == LocalPart(Reverse)

\* The path of the recipient decides what is skipped of the reverse path.  If that
\* has no domain and fills its array, this is the string behind the array.
FromDomain == StringAt(Reverse, Reverse.delim + Skip)

-------------------------------------------------------------------------------
(* Properties *)

MailPath == [cells : [Index -> Cell], delim : Index, seps : SUBSET Index, behind : Behind]

\* Arrays are terminated, whatever was written to them, by the last cell at
\* least.
TypeOK ==
    /\ path \in [{"reverse", "forward"} -> MailPath]
    /\ \A name \in DOMAIN path : path[name].cells[MaxPath - 1] = Nul
    /\ cur \in {"reverse", "forward", None}
    /\ mode \in {"lead", "text", "route", "escape", "done"}
    /\ quotes \in BOOLEAN /\ comment \in BOOLEAN
    /\ out \in Index
    /\ stage \in {"IDLE", "RECIPIENTS", "READY"}
    /\ dirty \in BOOLEAN

\* A redirected mail is addressed with the paths of this mail: no text of an
\* earlier command is part of it, unless a MAIL before could not be parsed.
NothingStale ==
    stage = "READY" /\ ~dirty =>
        \A piece \in {ToLocal, ToDomain, FromLocal, FromDomain} :
            \A k \in DOMAIN piece : ~piece[k].old

Whole(p, local, domain) ==
    LET at == IF p.seps = {} THEN <<>> ELSE <<[char |-> "@", old |-> FALSE]>>
    IN  local \o at \o domain = StringAt(p, 0)

\* A path without a domain that leaves no room in its array.
Full(p) == p.delim = MaxPath - 1

\* For a recipient with a domain the variables are the local part and the domain
\* of the two paths, and of an empty reverse path they are empty; but nothing is
\* said of the domain of a reverse path that has none and fills its array.
PartsOfPaths ==
    stage = "READY" /\ ~dirty =>
        /\ Whole(Forward, ToLocal, ToDomain)
        /\ Forward.seps # {} /\ ~Full(Reverse) => Whole(Reverse, FromLocal, FromDomain)
===============================================================================
