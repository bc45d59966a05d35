------------------------------ MODULE PathProofs ------------------------------
(***************************************************************************)
(* Proofs about PathParser for arrays of any length.                       *)
(*                                                                         *)
(* The parser begins with an array that is empty, unless a MAIL before     *)
(* could not be parsed.  From there on the cells in front of out are the   *)
(* text of this command and those behind it are empty (PathOK), which is   *)
(* all that the redirect routes need.                                      *)
(***************************************************************************)
EXTENDS PathParser, SequenceTheorems, TLAPS

Names == {"reverse", "forward"}
At == [char |-> "@", old |-> FALSE]

\* The first n cells are text of this command, the others are empty.
Text(p, n) ==
    /\ \A i \in Index : i < n => p.cells[i] \in Cell \ {Nul} /\ ~p.cells[i].old
    /\ \A i \in Index : i >= n => p.cells[i] = Nul

\* The delimiter is where the separator is, or d when there is none.
Split(p, n, d) ==
    \/ p.seps = {} /\ p.delim = d
    \/ p.seps = {p.delim} /\ 0 < p.delim /\ p.delim < n /\ p.cells[p.delim] = At

PathOK(p, n, d) == p \in MailPath /\ n \in Index /\ Text(p, n) /\ Split(p, n, d)

Done(p) == \E n \in Index : PathOK(p, n, n)

\* Where the parser is, and what it has to work with.
Stages ==
    /\ cur = "reverse" => stage = "IDLE"
    /\ cur = "forward" => stage = "RECIPIENTS"

PathsOK ==
    /\ cur # "forward" /\ stage # "READY" => path["forward"] = NewPath
    /\ cur # "reverse" /\ stage = "IDLE" /\ ~dirty => path["reverse"] = NewPath
    /\ cur = "forward" \/ (cur = "reverse" /\ ~dirty) => PathOK(path[cur], out, 0)
    /\ stage # "IDLE" /\ ~dirty => Done(path["reverse"])
    /\ stage = "READY" => Done(path["forward"])

PInv == TypeOK /\ Stages /\ PathsOK

-------------------------------------------------------------------------------
(* The arrays *)

LEMMA IndexRange ==
    /\ \A i : i \in Index <=> i \in Nat /\ i < MaxPath
    /\ 0 \in Index /\ MaxPath - 1 \in Index
BY PathAssumption DEF Index

LEMMA NulCell == Nul \in Cell /\ [char |-> "x", old |-> FALSE] \in Cell \ {Nul}
                 /\ At \in Cell \ {Nul}
BY DEF Nul, Cell, At

LEMMA NewPathOK == NewPath \in MailPath /\ PathOK(NewPath, 0, 0)
<1>1. NewPath \in MailPath
    BY IndexRange, NulCell DEF NewPath, MailPath, Behind
<1>2. Text(NewPath, 0) /\ Split(NewPath, 0, 0)
    BY IndexRange DEF NewPath, Text, Split
<1> QED  BY <1>1, <1>2, IndexRange DEF PathOK

LEMMA FreshIsNew == \A p : Fresh(p) = NewPath
BY DEF Fresh, NewPath

\* Nothing in an empty array is old.
LEMMA AgedNew == Aged(NewPath) = NewPath
<1> DEFINE old(c) == [c EXCEPT !.old = TRUE]
           cells == [i \in Index |-> IF NewPath.cells[i] = Nul THEN Nul ELSE old(NewPath.cells[i])]
<1>1. cells = [i \in Index |-> Nul]
    <2> HIDE DEF old
    <2> QED  BY DEF NewPath
<1>2. Aged(NewPath) = [cells |-> cells, delim |-> NewPath.delim, seps |-> {},
                       behind |-> NewPath.behind]
    BY Zenon DEF Aged
<1> HIDE DEF cells
<1> QED  BY <1>1, <1>2 DEF NewPath

LEMMA AgedType ==
    ASSUME NEW p \in MailPath
    PROVE  Aged(p) \in MailPath /\ (p.cells[MaxPath - 1] = Nul => Aged(p).cells[MaxPath - 1] = Nul)
<1> DEFINE cells == [i \in Index |-> IF p.cells[i] = Nul THEN Nul
                                     ELSE [p.cells[i] EXCEPT !.old = TRUE]]
<1>1. \A i \in Index : cells[i] \in Cell
    <2> SUFFICES ASSUME NEW i \in Index, p.cells[i] # Nul
                 PROVE  [p.cells[i] EXCEPT !.old = TRUE] \in Cell
        BY NulCell
    <2>1. p.cells[i] \in [char : {"x", "@"}, old : BOOLEAN]
        BY DEF MailPath, Cell
    <2> QED  BY <2>1 DEF Cell
<1>2. cells[MaxPath - 1] = IF p.cells[MaxPath - 1] = Nul THEN Nul
                           ELSE [p.cells[MaxPath - 1] EXCEPT !.old = TRUE]
    BY IndexRange
<1>3. Aged(p) = [cells |-> cells, delim |-> p.delim, seps |-> {}, behind |-> p.behind]
    BY Zenon DEF Aged
<1>4. cells \in [Index -> Cell]
    BY <1>1
<1> HIDE DEF cells
<1> QED  BY <1>2, <1>3, <1>4 DEF MailPath

\* A cell that is written.
LEMMA WrittenType ==
    ASSUME NEW p \in MailPath, NEW n \in Index, NEW cell \in Cell, p.cells[MaxPath - 1] = Nul,
           cell = Nul \/ n < MaxPath - 1
    PROVE  /\ Written(p, n, cell) \in MailPath
           /\ Written(p, n, cell).cells[MaxPath - 1] = Nul
           /\ \A i \in Index : Written(p, n, cell).cells[i] = IF i = n THEN cell ELSE p.cells[i]
<1>1. [p.cells EXCEPT ![n] = cell] \in [Index -> Cell]
    BY DEF MailPath
<1>2. \A i \in Index : [p.cells EXCEPT ![n] = cell][i] = IF i = n THEN cell ELSE p.cells[i]
    BY DEF MailPath
<1> QED  BY <1>1, <1>2, IndexRange DEF Written, MailPath

\* A character behind the text makes the text longer.
LEMMA Longer ==
    ASSUME NEW p \in MailPath, NEW n \in Index, n < MaxPath - 1, p.cells[MaxPath - 1] = Nul,
           NEW cell \in Cell \ {Nul}, ~cell.old, Text(p, n)
    PROVE  Text(Written(p, n, cell), n + 1)
<1>1. \A i \in Index : Written(p, n, cell).cells[i] = IF i = n THEN cell ELSE p.cells[i]
    BY WrittenType
<1> QED  BY <1>1, IndexRange DEF Text

\* A character behind the text of a path that is parsed keeps the path in
\* order.
LEMMA Appended ==
    ASSUME NEW p \in MailPath, NEW n \in Index, n < MaxPath - 1, p.cells[MaxPath - 1] = Nul,
           NEW cell \in Cell \ {Nul}, ~cell.old, PathOK(p, n, 0)
    PROVE  PathOK(Written(p, n, cell), n + 1, 0)
<1>1. Written(p, n, cell) \in MailPath /\ Text(Written(p, n, cell), n + 1)
    BY WrittenType, Longer DEF PathOK
<1>2. \A i \in Index : Written(p, n, cell).cells[i] = IF i = n THEN cell ELSE p.cells[i]
    BY WrittenType
<1>3. Split(Written(p, n, cell), n + 1, 0)
    <2>1. Written(p, n, cell).delim = p.delim /\ Written(p, n, cell).seps = p.seps
        BY DEF Written
    <2>2. p.delim \in Index
        BY DEF MailPath
    <2> QED  BY <1>2, <2>1, <2>2, IndexRange DEF PathOK, Split
<1>4. n + 1 \in Index
    BY PathAssumption DEF Index
<1> QED  BY <1>1, <1>3, <1>4 DEF PathOK

\* The path with its delimiter at the character that is written.
Delimited(p, n) == [cells |-> Written(p, n, At).cells, delim |-> n,
                    seps |-> p.seps \cup {n}, behind |-> p.behind]

LEMMA DelimitedType ==
    ASSUME NEW p \in MailPath, NEW n \in Index, n < MaxPath - 1, p.cells[MaxPath - 1] = Nul
    PROVE  Delimited(p, n) \in MailPath /\ Delimited(p, n).cells[MaxPath - 1] = Nul
<1>1. Written(p, n, At) \in MailPath /\ Written(p, n, At).cells[MaxPath - 1] = Nul
    BY WrittenType, NulCell
<1>2. p.seps \cup {n} \in SUBSET Index
    BY DEF MailPath
<1> QED  BY <1>1, <1>2 DEF Delimited, MailPath

LEMMA DelimitedOK ==
    ASSUME NEW p \in MailPath, NEW n \in Index, n < MaxPath - 1, p.cells[MaxPath - 1] = Nul,
           PathOK(p, n, 0), p.delim = 0, n > 0
    PROVE  PathOK(Delimited(p, n), n + 1, 0)
<1>1. Delimited(p, n) \in MailPath
    BY DelimitedType
<1>2. ~At.old
    BY DEF At
<1>3. Text(Written(p, n, At), n + 1)
    BY <1>2, Longer, NulCell DEF PathOK
<1>4. Text(Delimited(p, n), n + 1)
    BY <1>3 DEF Text, Delimited
<1>5. Delimited(p, n).cells[n] = At
    BY WrittenType, NulCell DEF Delimited
<1>6. p.seps = {}
    BY DEF PathOK, Split
<1>7. Split(Delimited(p, n), n + 1, 0)
    BY <1>5, <1>6, IndexRange DEF Split, Delimited
<1>8. n + 1 \in Index
    BY PathAssumption DEF Index
<1> QED  BY <1>1, <1>4, <1>7, <1>8 DEF PathOK

\* What is left of a path that was parsed to its end.
Closed(p, n, byte) == [cells |-> Written(p, n, Nul).cells,
                       delim |-> IF p.delim = 0 THEN n ELSE p.delim,
                       seps  |-> p.seps, behind |-> byte]

LEMMA ClosedType ==
    ASSUME NEW p \in MailPath, NEW n \in Index, p.cells[MaxPath - 1] = Nul, NEW byte \in Behind
    PROVE  Closed(p, n, byte) \in MailPath /\ Closed(p, n, byte).cells[MaxPath - 1] = Nul
<1>1. Written(p, n, Nul) \in MailPath /\ Written(p, n, Nul).cells[MaxPath - 1] = Nul
    BY WrittenType, NulCell
<1> QED  BY <1>1 DEF Closed, MailPath

LEMMA ClosedOK ==
    ASSUME NEW p \in MailPath, NEW n \in Index, p.cells[MaxPath - 1] = Nul, PathOK(p, n, 0),
           NEW byte \in Behind
    PROVE  PathOK(Closed(p, n, byte), n, n)
<1>1. Closed(p, n, byte) \in MailPath
    BY ClosedType
<1>2. \A i \in Index : Closed(p, n, byte).cells[i] = p.cells[i]
    <2>1. p.cells[n] = Nul
        BY IndexRange DEF PathOK, Text
    <2>2. \A i \in Index : Written(p, n, Nul).cells[i] = IF i = n THEN Nul ELSE p.cells[i]
        BY WrittenType, NulCell
    <2> QED  BY <2>1, <2>2 DEF Closed
<1>3. Text(Closed(p, n, byte), n)
    BY <1>2, IndexRange DEF PathOK, Text
<1>4. Split(Closed(p, n, byte), n, n)
    <2>1. CASE p.delim = 0
        BY <2>1 DEF Split, PathOK, Closed
    <2>2. CASE p.delim # 0
        <3>1. Closed(p, n, byte).delim = p.delim /\ Closed(p, n, byte).seps = p.seps
            BY <2>2 DEF Closed
        <3>2. p.delim \in Index
            BY DEF MailPath
        <3> QED  BY <2>2, <3>1, <3>2, <1>2 DEF Split, PathOK
    <2> QED  BY <2>1, <2>2
<1> QED  BY <1>1, <1>3, <1>4 DEF PathOK

-------------------------------------------------------------------------------
(* One character *)

\* What a character does to the path: nothing, or it is appended, and an @ that
\* ends the local part sets the delimiter besides.
LEMMA FeedEffect ==
    ASSUME TypeOK, NEW c \in Chars, Feed(c)
    PROVE  /\ Parsing /\ out < MaxPath - 1
           /\ cur' = cur /\ stage' = stage /\ dirty' = dirty
           /\ mode' \in {"lead", "text", "route", "escape", "done"}
           /\ quotes' \in BOOLEAN /\ comment' \in BOOLEAN
           /\ \/ path' = path /\ out' = out
              \/ /\ out' = out + 1
                 /\ \E cell \in Cell \ {Nul} :
                        ~cell.old /\ path' = [path EXCEPT ![cur] = Written(P, out, cell)]
              \/ /\ out' = out + 1 /\ out > 0 /\ P.delim = 0
                 /\ path' = [path EXCEPT ![cur] = Delimited(P, out)]
<1> DEFINE Appends == /\ out' = out + 1
                      /\ \E cell \in Cell \ {Nul} :
                             ~cell.old /\ path' = [path EXCEPT ![cur] = Written(P, out, cell)]
           Delimits == /\ out' = out + 1 /\ out > 0 /\ P.delim = 0
                       /\ path' = [path EXCEPT ![cur] = Delimited(P, out)]
           Same == path' = path /\ out' = out
           Local == /\ mode' \in {"lead", "text", "route", "escape", "done"}
                    /\ quotes' \in BOOLEAN /\ comment' \in BOOLEAN
<1>1. Parsing /\ out < MaxPath - 1 /\ cur' = cur /\ stage' = stage /\ dirty' = dirty
    BY DEF Feed, HasRoom
<1>2. ASSUME Append1(c) PROVE Appends
    <2> DEFINE cell == [char |-> IF c = "@" THEN "@" ELSE "x", old |-> FALSE]
    <2>1. cell \in Cell \ {Nul} /\ ~cell.old
        BY DEF Cell, Nul
    <2>2. path' = [path EXCEPT ![cur] = Written(P, out, cell)] /\ out' = out + 1
        BY <1>2 DEF Append1
    <2> HIDE DEF cell
    <2> QED  BY <2>1, <2>2
<1>3. ASSUME AppendPrintable(c) PROVE Same \/ Appends
    BY <1>2, <1>3 DEF AppendPrintable
<1>4. ASSUME SetDelimiter, out > 0, ~TwoDelimiters, ~quotes PROVE Delimits
    <2>1. path' = [path EXCEPT ![cur] = Delimited(P, out)]
        BY <1>4 DEF SetDelimiter, Delimited, At
    <2> QED  BY <1>4, <2>1 DEF SetDelimiter, TwoDelimiters
<1>5. quotes \in BOOLEAN /\ comment \in BOOLEAN
      /\ mode \in {"lead", "text", "route", "escape", "done"}
    BY DEF TypeOK
<1> HIDE DEF Appends, Delimits
<1>6. Local /\ (Same \/ Appends \/ Delimits)
    <2>1. CASE LeadingSpace(c)
        BY <2>1, <1>5 DEF LeadingSpace
    <2>2. CASE Escaped(c)
        BY <2>2, <1>3, <1>5 DEF Escaped
    <2>3. CASE InRoute(c)
        BY <2>3, <1>5 DEF InRoute
    <2>4. CASE InComment(c)
        BY <2>4, <1>5 DEF InComment
    <2>5. CASE Special(c)
        <3>1. mode' \in {"route", "escape", "done", "text"}
            <4>1. mode' = CASE c = "@" -> "route" [] c = "escape" -> "escape"
                            [] c = ">" -> "done" [] OTHER -> "text"
                BY <2>5 DEF Special
            <4> QED  BY <4>1
        <3> QED  BY <2>5, <3>1, <1>5 DEF Special
    <2>6. CASE Separator(c)
        BY <2>6, <1>4, <1>5 DEF Separator, IsSeparator
    <2>7. CASE Copied(c)
        BY <2>7, <1>3, <1>5 DEF Copied
    <2> QED  BY <2>1, <2>2, <2>3, <2>4, <2>5, <2>6, <2>7 DEF Feed
<1> QED  BY <1>1, <1>6 DEF Appends, Delimits

-------------------------------------------------------------------------------
(* The invariant *)

LEMMA PInvInit == Init => PInv
<1> SUFFICES ASSUME Init PROVE PInv
    OBVIOUS
<1>1. NewPath \in MailPath /\ NewPath.cells[MaxPath - 1] = Nul
    BY NewPathOK, IndexRange DEF NewPath
<1>2. TypeOK
    BY <1>1, IndexRange DEF Init, TypeOK
<1>3. Stages /\ PathsOK
    BY PathAssumption DEF Init, Stages, PathsOK
<1> QED  BY <1>2, <1>3 DEF PInv

\* A change of one path to one of the right type keeps the types of both.
LEMMA PathsType ==
    ASSUME TypeOK, NEW name \in Names, NEW p \in MailPath, p.cells[MaxPath - 1] = Nul,
           path' = [path EXCEPT ![name] = p]
    PROVE  /\ path' \in [Names -> MailPath]
           /\ \A m \in DOMAIN path' : path'[m].cells[MaxPath - 1] = Nul
           /\ path'[name] = p
           /\ \A m \in Names \ {name} : path'[m] = path[m]
<1>1. path \in [Names -> MailPath] /\ \A m \in Names : path[m].cells[MaxPath - 1] = Nul
    BY DEF TypeOK, Names
<1> QED  BY <1>1

LEMMA StartInv ==
    ASSUME PInv, ~Parsing, NEW name \in Names, StartParse(name), UNCHANGED <<stage, dirty>>,
           name = "reverse" => stage = "IDLE", name = "forward" => stage = "RECIPIENTS"
    PROVE  PInv'
<1>1. path[name] \in MailPath /\ path[name].cells[MaxPath - 1] = Nul
    BY DEF PInv, TypeOK, Names
<1>2. path' = [path EXCEPT ![name] = Aged(path[name])]
    BY DEF StartParse
<1>3. Aged(path[name]) \in MailPath /\ Aged(path[name]).cells[MaxPath - 1] = Nul
    BY <1>1, AgedType
<1>4. /\ path' \in [Names -> MailPath]
      /\ \A m \in DOMAIN path' : path'[m].cells[MaxPath - 1] = Nul
      /\ path'[name] = Aged(path[name])
      /\ \A m \in Names \ {name} : path'[m] = path[m]
    BY <1>2, <1>3, PathsType DEF PInv
<1>5. TypeOK'
    BY <1>4, IndexRange DEF PInv, TypeOK, StartParse, Names
<1>6. Stages'
    BY DEF Stages, StartParse, Names
<1>7. PathsOK'
    <2>1. cur' = name /\ out' = 0 /\ stage' = stage /\ dirty' = dirty /\ cur = None
        BY DEF StartParse, Parsing
    <2>2. cur \notin Names
        BY <2>1, PathAssumption DEF Names
    <2>3. name = "forward" \/ (name = "reverse" /\ ~dirty) => path[name] = NewPath
        BY <2>2 DEF PInv, PathsOK, Names
    <2>4. name = "forward" \/ (name = "reverse" /\ ~dirty) => PathOK(path'[name], 0, 0)
        BY <2>3, <1>4, AgedNew, NewPathOK
    <2>5. CASE name = "reverse"
        BY <2>1, <2>2, <2>4, <2>5, <1>4 DEF PInv, PathsOK, Names
    <2>6. CASE name = "forward"
        BY <2>1, <2>2, <2>4, <2>6, <1>4 DEF PInv, PathsOK, Names
    <2> QED  BY <2>5, <2>6 DEF Names
<1> QED  BY <1>5, <1>6, <1>7 DEF PInv

LEMMA FeedInv ==
    ASSUME PInv, NEW c \in Chars, Feed(c)
    PROVE  PInv'
<1>1. /\ Parsing /\ out < MaxPath - 1
      /\ cur' = cur /\ stage' = stage /\ dirty' = dirty
      /\ mode' \in {"lead", "text", "route", "escape", "done"}
      /\ quotes' \in BOOLEAN /\ comment' \in BOOLEAN
      /\ \/ path' = path /\ out' = out
         \/ /\ out' = out + 1
            /\ \E cell \in Cell \ {Nul} :
                   ~cell.old /\ path' = [path EXCEPT ![cur] = Written(P, out, cell)]
         \/ /\ out' = out + 1 /\ out > 0 /\ P.delim = 0
            /\ path' = [path EXCEPT ![cur] = Delimited(P, out)]
    BY FeedEffect DEF PInv
<1>2. cur \in Names /\ out \in Index /\ P \in MailPath /\ P.cells[MaxPath - 1] = Nul
    BY <1>1 DEF PInv, TypeOK, Names, P, Parsing
<1>3. out + 1 \in Index
    BY <1>1, <1>2, PathAssumption DEF Index
<1>4. CASE path' = path /\ out' = out
    <2>1. TypeOK'
        BY <1>1, <1>4 DEF PInv, TypeOK
    <2>2. Stages' /\ PathsOK'
        BY <1>1, <1>4 DEF PInv, Stages, PathsOK
    <2> QED  BY <2>1, <2>2 DEF PInv
<1>5. ASSUME out' = out + 1, NEW p \in MailPath, p.cells[MaxPath - 1] = Nul,
             path' = [path EXCEPT ![cur] = p], PathOK(P, out, 0) => PathOK(p, out + 1, 0)
      PROVE  PInv'
    <2>1. /\ path' \in [Names -> MailPath]
          /\ \A m \in DOMAIN path' : path'[m].cells[MaxPath - 1] = Nul
          /\ path'[cur] = p
          /\ \A m \in Names \ {cur} : path'[m] = path[m]
        BY <1>2, <1>5, PathsType DEF PInv
    <2>2. TypeOK'
        BY <1>1, <1>2, <1>3, <1>5, <2>1 DEF PInv, TypeOK, Names
    <2>3. Stages'
        BY <1>1 DEF PInv, Stages
    <2>4. PathsOK'
        <3>1. cur = "forward" \/ (cur = "reverse" /\ ~dirty) => PathOK(p, out + 1, 0)
            BY <1>5 DEF PInv, PathsOK, P
        <3>2. CASE cur = "reverse"
            BY <1>1, <1>5, <2>1, <3>1, <3>2 DEF PInv, Stages, PathsOK, Names
        <3>3. CASE cur = "forward"
            BY <1>1, <1>5, <2>1, <3>1, <3>3 DEF PInv, Stages, PathsOK, Names
        <3> QED  BY <3>2, <3>3, <1>2 DEF Names
    <2> QED  BY <2>2, <2>3, <2>4 DEF PInv
<1>6. ASSUME out' = out + 1, NEW cell \in Cell \ {Nul}, ~cell.old,
             path' = [path EXCEPT ![cur] = Written(P, out, cell)]
      PROVE  PInv'
    <2>1. Written(P, out, cell) \in MailPath /\ Written(P, out, cell).cells[MaxPath - 1] = Nul
        BY <1>1, <1>2, WrittenType
    <2>2. PathOK(P, out, 0) => PathOK(Written(P, out, cell), out + 1, 0)
        BY <1>1, <1>2, <1>6, Appended
    <2> QED  BY <1>5, <1>6, <2>1, <2>2
<1>7. ASSUME out' = out + 1, out > 0, P.delim = 0,
             path' = [path EXCEPT ![cur] = Delimited(P, out)]
      PROVE  PInv'
    <2>1. Delimited(P, out) \in MailPath /\ Delimited(P, out).cells[MaxPath - 1] = Nul
        BY <1>1, <1>2, DelimitedType
    <2>2. PathOK(P, out, 0) => PathOK(Delimited(P, out), out + 1, 0)
        BY <1>1, <1>2, <1>7, DelimitedOK
    <2> QED  BY <1>5, <1>7, <2>1, <2>2
<1> QED  BY <1>1, <1>4, <1>6, <1>7

LEMMA FreshType == NewPath \in MailPath /\ NewPath.cells[MaxPath - 1] = Nul
BY NewPathOK, IndexRange DEF NewPath

\* What ends a parse: the path in cur becomes p, and the parser is idle.
LEMMA EndInv ==
    ASSUME PInv, Parsing, Idle, NEW p \in MailPath, p.cells[MaxPath - 1] = Nul,
           path' = [path EXCEPT ![cur] = p], stage' \in {"IDLE", "RECIPIENTS", "READY"},
           dirty' \in BOOLEAN,
           \/ cur = "forward" /\ p = NewPath /\ stage' = stage /\ dirty' = dirty
           \/ cur = "forward" /\ Done(p) /\ stage' = "READY" /\ dirty' = dirty
           \/ cur = "reverse" /\ stage' = stage /\ (~dirty' => p = NewPath)
           \/ cur = "reverse" /\ stage' = "RECIPIENTS" /\ (~dirty' => Done(p))
    PROVE  PInv'
<1>1. cur \in Names
    BY DEF PInv, TypeOK, Names, Parsing
<1>2. /\ path' \in [Names -> MailPath]
      /\ \A m \in DOMAIN path' : path'[m].cells[MaxPath - 1] = Nul
      /\ path'[cur] = p
      /\ \A m \in Names \ {cur} : path'[m] = path[m]
    BY <1>1, PathsType DEF PInv
<1>3. TypeOK'
    BY <1>2, IndexRange DEF TypeOK, Idle, Names
<1>4. cur' \notin Names
    BY PathAssumption DEF Idle, Names
<1>5. Stages'
    BY <1>4 DEF Stages, Names
<1>6. PathsOK'
    <2>1. CASE cur = "reverse"
        <3>1. stage = "IDLE" /\ path'["forward"] = NewPath /\ path'["reverse"] = p
            BY <1>2, <2>1 DEF PInv, Stages, PathsOK, Names
        <3> QED  BY <3>1, <2>1, <1>4 DEF PathsOK, Names
    <2>2. CASE cur = "forward"
        <3>1. stage = "RECIPIENTS" /\ path'["forward"] = p /\ path'["reverse"] = path["reverse"]
            BY <1>2, <2>2 DEF PInv, Stages, Names
        <3> QED  BY <3>1, <2>2, <1>4 DEF PInv, PathsOK, Names
    <2> QED  BY <1>1, <2>1, <2>2 DEF Names
<1> QED  BY <1>3, <1>5, <1>6 DEF PInv

LEMMA RejectedInv ==
    ASSUME PInv, Parsing, Idle, Rejected
    PROVE  PInv'
<1>1. CASE cur = "forward"
    <2>1. path' = [path EXCEPT ![cur] = NewPath] /\ stage' = stage /\ dirty' = dirty
        BY <1>1, FreshIsNew DEF Rejected
    <2> QED  BY <1>1, <2>1, FreshType, EndInv DEF PInv, TypeOK
<1>2. CASE cur = "reverse"
    <2>1. path' = path /\ stage' = stage /\ dirty' = TRUE
        BY <1>2 DEF Rejected
    <2>2. path \in [Names -> MailPath] /\ P \in MailPath /\ P.cells[MaxPath - 1] = Nul
        BY <1>2 DEF PInv, TypeOK, Names, P
    <2>3. path' = [path EXCEPT ![cur] = P]
        BY <1>2, <2>1, <2>2 DEF P
    <2> QED  BY <1>2, <2>1, <2>2, <2>3, EndInv DEF PInv, TypeOK
<1> QED  BY <1>1, <1>2 DEF PInv, TypeOK, Parsing

LEMMA FinishInv ==
    ASSUME PInv, Finish
    PROVE  PInv'
<1>1. Parsing /\ Idle
    BY DEF Finish
<1>2. /\ cur \in Names /\ out \in Index /\ P \in MailPath /\ P.cells[MaxPath - 1] = Nul
      /\ stage \in {"IDLE", "RECIPIENTS", "READY"} /\ dirty \in BOOLEAN
    BY <1>1 DEF PInv, TypeOK, Names, P, Parsing
<1>3. CASE comment /\ cur = "forward"
    BY <1>1, <1>3, RejectedInv DEF Finish
<1>4. CASE comment /\ cur = "reverse"
    <2>1. path' = [path EXCEPT ![cur] = Written(P, out, Nul)] /\ dirty' = TRUE /\ stage' = stage
        BY <1>4 DEF Finish
    <2>2. Written(P, out, Nul) \in MailPath /\ Written(P, out, Nul).cells[MaxPath - 1] = Nul
        BY <1>2, WrittenType, NulCell
    <2> QED  BY <1>1, <1>2, <1>4, <2>1, <2>2, EndInv
<1>5. CASE ~comment
    <2>1. ASSUME NEW byte \in Behind,
                 path' = [path EXCEPT ![cur] = Parsed(byte)],
                 stage' = IF cur = "reverse" THEN "RECIPIENTS" ELSE "READY",
                 dirty' = dirty
          PROVE  PInv'
        <3>1. Parsed(byte) = Closed(P, out, byte)
            BY DEF Parsed, Closed
        <3>2. Closed(P, out, byte) \in MailPath /\ Closed(P, out, byte).cells[MaxPath - 1] = Nul
            BY <1>2, ClosedType
        <3>3. cur = "forward" \/ ~dirty => PathOK(P, out, 0)
            BY <1>2 DEF PInv, PathsOK, P, Names
        <3>4. cur = "forward" \/ ~dirty => Done(Closed(P, out, byte))
            BY <1>2, <3>3, ClosedOK DEF Done
        <3> QED  BY <1>1, <1>2, <2>1, <3>1, <3>2, <3>4, EndInv DEF Names
    <2>2. CASE /\ path' = [path EXCEPT ![cur] = Fresh(@)]
               /\ dirty' = (dirty /\ cur = "forward")
               /\ stage' = stage
        <3>1. path' = [path EXCEPT ![cur] = NewPath]
            BY <2>2, FreshIsNew
        <3>2. cur = "forward" => dirty' = dirty
            BY <1>2, <2>2
        <3>3. dirty' \in BOOLEAN
            BY <2>2
        <3> QED  BY <1>1, <1>2, <2>2, <3>1, <3>2, <3>3, FreshType, EndInv DEF Names
    <2> QED  BY <1>5, <2>1, <2>2 DEF Finish
<1> QED  BY <1>2, <1>3, <1>4, <1>5 DEF Names, PInv, TypeOK

LEMMA MailResetInv ==
    ASSUME PInv, MailReset
    PROVE  PInv'
<1>1. path' = [name \in Names |-> NewPath]
    BY FreshIsNew DEF MailReset, PInv, TypeOK, Names
<1>2. cur' = cur /\ cur = None /\ mode' = mode /\ quotes' = quotes /\ comment' = comment
      /\ out' = out /\ stage' = "IDLE" /\ dirty' = FALSE
    BY DEF MailReset, Parsing, parser
<1>3. cur \notin Names
    BY <1>2, PathAssumption DEF Names
<1>4. TypeOK'
    BY <1>1, <1>2, FreshType DEF PInv, TypeOK, Names
<1>5. Stages' /\ PathsOK'
    BY <1>1, <1>2, <1>3 DEF Stages, PathsOK, Names
<1> QED  BY <1>4, <1>5 DEF PInv

LEMMA PInvStep == PInv /\ [Next]_vars => PInv'
<1> SUFFICES ASSUME PInv, [Next]_vars PROVE PInv'
    OBVIOUS
<1>1. CASE Mail
    BY <1>1, StartInv DEF Mail, Names
<1>2. CASE Rcpt
    BY <1>2, StartInv DEF Rcpt, Names
<1>3. ASSUME NEW c \in Chars, Feed(c) PROVE PInv'
    BY <1>3, FeedInv
<1>4. CASE Fail
    BY <1>4, RejectedInv DEF Fail, GivesUp
<1>5. CASE Finish
    BY <1>5, FinishInv
<1>6. CASE MailReset
    BY <1>6, MailResetInv
<1>7. CASE UNCHANGED vars
    BY <1>7 DEF PInv, TypeOK, Stages, PathsOK, vars
<1> QED  BY <1>1, <1>2, <1>3, <1>4, <1>5, <1>6, <1>7 DEF Next

LEMMA Invariance == Spec => []PInv
<1> QED  BY PInvInit, PInvStep, PTL DEF Spec

\* path_parse never writes over the terminator in the last cell of an array,
\* whatever the argument and whatever an earlier command left in the array.
THEOREM TypeCorrect == Spec => []TypeOK
<1>1. PInv => TypeOK
    BY DEF PInv
<1> QED  BY <1>1, Invariance, PTL

-------------------------------------------------------------------------------
(* What the routes read *)

LEMMA MinIs ==
    ASSUME NEW S \in SUBSET Nat, NEW m \in S, \A y \in S : m =< y
    PROVE  Min(S) = m
<1>1. Min(S) \in S /\ \A y \in S : Min(S) =< y
    BY Zenon DEF Min
<1>2. Min(S) \in Nat /\ m \in Nat
    BY <1>1
<1>3. Min(S) =< m /\ m =< Min(S)
    BY <1>1
<1> HIDE DEF Min
<1> QED  BY <1>2, <1>3

\* A string that begins in the text ends with it, and one that begins behind it
\* is empty.
LEMMA EndOfText ==
    ASSUME NEW p, NEW n \in Index, Text(p, n), NEW i \in 0 .. MaxPath
    PROVE  EndFrom(p, i) = IF i > n THEN i ELSE n
<1> DEFINE S == {j \in Index : j >= i /\ p.cells[j] = Nul} \cup {MaxPath}
           m == IF i > n THEN i ELSE n
<1>1. S \in SUBSET Nat
    BY PathAssumption DEF Index
<1>2. m \in S
    BY PathAssumption DEF Index, Text
<1>3. \A y \in S : m =< y
    BY PathAssumption DEF Index, Text
<1>4. EndFrom(p, i) = Min(S)
    BY Zenon DEF EndFrom
<1> HIDE DEF S, m
<1>5. Min(S) = m
    BY <1>1, <1>2, <1>3, MinIs
<1> QED  BY <1>4, <1>5 DEF m

LEMMA IsSeq ==
    ASSUME NEW n \in Nat, NEW S, NEW s \in [1 .. n -> S]
    PROVE  s \in Seq(S) /\ Len(s) = n
OBVIOUS

\* The pieces of a path that is parsed.
LEMMA Pieces ==
    ASSUME NEW p, NEW n \in Index, PathOK(p, n, n), NEW i \in 0 .. MaxPath
    PROVE  /\ LocalPart(p) = [k \in 1 .. p.delim |-> p.cells[k - 1]]
           /\ i \in Index =>
                StringAt(p, i) = [k \in 1 .. (IF i > n THEN i ELSE n) - i |-> p.cells[i + k - 1]]
           /\ i \notin Index => StringAt(p, i) = BehindArray(p)
           /\ p.delim \in Index /\ p.delim =< n
<1>1. p.delim \in Index /\ p.delim =< n
    BY DEF PathOK, Split, MailPath, Index
<1>2. EndFrom(p, i) = IF i > n THEN i ELSE n
    BY EndOfText DEF PathOK
<1>3. EndFrom(p, 0) = n
    <2>1. 0 \in 0 .. MaxPath /\ ~(0 > n)
        BY PathAssumption DEF Index
    <2> QED  BY <2>1, EndOfText DEF PathOK
<1>4. Min({p.delim, n}) = p.delim
    <2>1. {p.delim, n} \in SUBSET Nat /\ p.delim \in {p.delim, n}
          /\ \A y \in {p.delim, n} : p.delim =< y
        BY <1>1 DEF Index
    <2> QED  BY <2>1, MinIs
<1> QED  BY <1>1, <1>2, <1>3, <1>4 DEF LocalPart, StringAt

\* No piece of it is text of an earlier command.
LEMMA PiecesAreNew ==
    ASSUME NEW p, NEW n \in Index, PathOK(p, n, n), NEW i \in 0 .. MaxPath
    PROVE  /\ \A k \in DOMAIN LocalPart(p) : ~LocalPart(p)[k].old
           /\ \A k \in DOMAIN StringAt(p, i) : ~StringAt(p, i)[k].old
<1>1. \A j \in Index : ~p.cells[j].old
    BY PathAssumption DEF PathOK, Text, Nul, Index
<1> DEFINE length == (IF i > n THEN i ELSE n) - i
<1>2. /\ LocalPart(p) = [k \in 1 .. p.delim |-> p.cells[k - 1]]
      /\ i \in Index => StringAt(p, i) = [k \in 1 .. length |-> p.cells[i + k - 1]]
      /\ i \notin Index => StringAt(p, i) = BehindArray(p)
      /\ p.delim \in Index
    BY Pieces
<1>3. \A k \in 1 .. p.delim : k - 1 \in Index
    BY <1>2, PathAssumption DEF Index
<1>4. \A k \in 1 .. length : i + k - 1 \in Index
    BY PathAssumption DEF Index
<1> HIDE DEF length
<1>5. \A k \in DOMAIN LocalPart(p) : ~LocalPart(p)[k].old
    BY <1>1, <1>2, <1>3
<1>6. \A k \in DOMAIN StringAt(p, i) : ~StringAt(p, i)[k].old
    <2>1. CASE i \in Index
        BY <1>1, <1>2, <1>4, <2>1
    <2>2. CASE i \notin Index
        <3>1. \A k \in DOMAIN BehindArray(p) : BehindArray(p)[k] = Router
            <4>1. p.behind \in Behind
                BY DEF PathOK, MailPath
            <4> QED  BY <4>1 DEF BehindArray, Behind
        <3> QED  BY <1>2, <2>2, <3>1 DEF Router
    <2> QED  BY <2>1, <2>2
<1> QED  BY <1>5, <1>6

\* A path is its local part, its separator and what is behind it.
LEMMA PathIsWhole ==
    ASSUME NEW p, NEW n \in Index, PathOK(p, n, n), NEW skip \in {0, 1},
           p.seps # {} => skip = 1, p.delim + skip \in Index
    PROVE  Whole(p, LocalPart(p), StringAt(p, p.delim + skip))
<1> DEFINE d == p.delim
           at == IF p.seps = {} THEN <<>> ELSE <<At>>
           local == [k \in 1 .. d |-> p.cells[k - 1]]
           domain == [k \in 1 .. (IF d + skip > n THEN d + skip ELSE n) - (d + skip)
                            |-> p.cells[d + skip + k - 1]]
           whole == [k \in 1 .. n |-> p.cells[k - 1]]
<1>1. d \in Index /\ d =< n /\ n \in Nat /\ \A j \in Index : p.cells[j] \in Cell
    BY Pieces, PathAssumption DEF PathOK, MailPath, Index
<1>2. /\ d + skip \in Index /\ 0 \in Index
      /\ d + skip \in 0 .. MaxPath /\ 0 \in 0 .. MaxPath
    BY <1>1, PathAssumption DEF Index
<1>3. LocalPart(p) = local /\ StringAt(p, d + skip) = domain
    <2>1. LocalPart(p) = local
        BY <1>2, Pieces
    <2>2. ASSUME NEW i \in 0 .. MaxPath, i \in Index
          PROVE  StringAt(p, i) = [k \in 1 .. (IF i > n THEN i ELSE n) - i |-> p.cells[i + k - 1]]
        <3>1. i \in Index =>
                StringAt(p, i) = [k \in 1 .. (IF i > n THEN i ELSE n) - i |-> p.cells[i + k - 1]]
            BY Pieces
        <3> QED  BY <2>2, <3>1
    <2>3. StringAt(p, d + skip) = domain
        BY <1>2, <2>2, Zenon
    <2> QED  BY <2>1, <2>3
<1>4. StringAt(p, 0) = whole
    BY <1>1, <1>2, Pieces
<1>5. local \in Seq(Cell) /\ Len(local) = d
    <2>1. local \in [1 .. d -> Cell] /\ d \in Nat
        BY <1>1, PathAssumption DEF Index
    <2> QED  BY <2>1, IsSeq
<1>6. whole \in Seq(Cell) /\ Len(whole) = n
    <2>1. whole \in [1 .. n -> Cell]
        BY <1>1, PathAssumption DEF Index
    <2> QED  BY <1>1, <2>1, IsSeq
<1>7. CASE p.seps = {}
    <2>1. d = n /\ at = <<>>
        BY <1>7 DEF PathOK, Split
    <2>2. domain = <<>>
        <3>1. (IF d + skip > n THEN d + skip ELSE n) - (d + skip) = 0
            BY <1>1, <2>1
        <3> QED  BY <3>1
    <2>3. local = whole
        BY <2>1
    <2> HIDE DEF local, domain, whole, at, d
    <2>4. local \o at \o domain = whole
        BY <2>1, <2>2, <2>3, <1>6, ConcatEmptySeq
    <2> QED  BY <1>3, <1>4, <2>4 DEF Whole, at, At, d
<1>8. CASE p.seps # {}
    <2>1. d < n /\ p.cells[d] = At /\ at = <<At>> /\ skip = 1
        BY <1>8 DEF PathOK, Split
    <2>2. at \in Seq(Cell) /\ Len(at) = 1 /\ at[1] = At
        BY <2>1, NulCell
    <2>3. domain = [k \in 1 .. n - (d + 1) |-> p.cells[d + k]]
        <3>1. (IF d + skip > n THEN d + skip ELSE n) - (d + skip) = n - (d + 1)
            BY <1>1, <2>1 DEF Index
        <3>2. \A k \in 1 .. n - (d + 1) : d + skip + k - 1 = d + k
            BY <1>1, <2>1 DEF Index
        <3> QED  BY <3>1, <3>2
    <2>4. domain \in Seq(Cell) /\ Len(domain) = n - (d + 1)
        <3>1. n - (d + 1) \in Nat /\ \A k \in 1 .. n - (d + 1) : d + k \in Index
            BY <1>1, <2>1, PathAssumption DEF Index
        <3>2. domain \in [1 .. n - (d + 1) -> Cell]
            BY <1>1, <2>3, <3>1
        <3> QED  BY <3>1, <3>2, IsSeq
    <2>5. /\ \A k \in 1 .. d : local[k] = p.cells[k - 1]
          /\ \A k \in 1 .. n - (d + 1) : domain[k] = p.cells[d + k]
          /\ \A k \in 1 .. n : whole[k] = p.cells[k - 1]
        BY <2>3
    <2> HIDE DEF local, domain, whole, at
    <2>6. /\ local \o at \in Seq(Cell) /\ Len(local \o at) = d + 1
          /\ \A k \in 1 .. d + 1 : (local \o at)[k] = p.cells[k - 1]
        <3>1. /\ local \o at \in Seq(Cell) /\ Len(local \o at) = Len(local) + Len(at)
              /\ \A k \in 1 .. Len(local) + Len(at) :
                     (local \o at)[k] = IF k <= Len(local) THEN local[k] ELSE at[k - Len(local)]
            BY <1>5, <2>2, ConcatProperties
        <3>2. \A k \in 1 .. d + 1 : k <= d \/ (k = d + 1 /\ k - d = 1 /\ k - 1 = d)
            BY <1>1 DEF Index
        <3> QED  BY <1>5, <2>1, <2>2, <2>5, <3>1, <3>2, <1>1 DEF Index
    <2>7. /\ local \o at \o domain \in Seq(Cell) /\ Len(local \o at \o domain) = n
          /\ \A k \in 1 .. n : (local \o at \o domain)[k] = p.cells[k - 1]
        <3>1. /\ local \o at \o domain \in Seq(Cell)
              /\ Len(local \o at \o domain) = Len(local \o at) + Len(domain)
              /\ \A k \in 1 .. Len(local \o at) + Len(domain) :
                     (local \o at \o domain)[k] = IF k <= Len(local \o at) THEN (local \o at)[k]
                                                  ELSE domain[k - Len(local \o at)]
            <4> DEFINE la == local \o at
            <4>1. la \in Seq(Cell) /\ domain \in Seq(Cell)
                BY <2>4, <2>6
            <4> HIDE DEF la
            <4>2. /\ la \o domain \in Seq(Cell) /\ Len(la \o domain) = Len(la) + Len(domain)
                  /\ \A k \in 1 .. Len(la) + Len(domain) :
                         (la \o domain)[k] = IF k <= Len(la) THEN la[k] ELSE domain[k - Len(la)]
                BY <4>1, ConcatProperties
            <4> QED  BY <4>2 DEF la
        <3>2. Len(local \o at) + Len(domain) = n
            BY <1>1, <2>4, <2>6 DEF Index
        <3>3. ASSUME NEW k \in 1 .. n PROVE (local \o at \o domain)[k] = p.cells[k - 1]
            <4>1. CASE k <= d + 1
                BY <2>6, <3>1, <3>2, <4>1, <1>1 DEF Index
            <4>2. CASE ~(k <= d + 1)
                <5>1. k - (d + 1) \in 1 .. n - (d + 1) /\ d + (k - (d + 1)) = k - 1
                    BY <1>1, <4>2 DEF Index
                <5> QED  BY <2>5, <2>6, <3>1, <3>2, <4>2, <5>1
            <4> QED  BY <4>1, <4>2
        <3> QED  BY <3>1, <3>2, <3>3
    <2>8. local \o at \o domain = whole
        BY <1>6, <2>5, <2>7, SeqEqual
    <2> QED  BY <1>3, <1>4, <2>8 DEF Whole, at, At
<1> QED  BY <1>7, <1>8

\* A mail that is ready was made of two paths that were parsed.
LEMMA ReadyPaths ==
    ASSUME PInv, stage = "READY", ~dirty
    PROVE  \E m, n \in Index : /\ PathOK(Forward, m, m) /\ PathOK(Reverse, n, n)
                               /\ Skip \in {0, 1}
                               /\ Forward.delim + Skip \in 0 .. MaxPath
                               /\ Reverse.delim + Skip \in 0 .. MaxPath
                               /\ Forward.seps # {} => Skip = 1
                               /\ Forward.delim + Skip \in Index
                               /\ ~Full(Reverse) => Reverse.delim + Skip \in Index
<1>1. PICK m, n \in Index : PathOK(Forward, m, m) /\ PathOK(Reverse, n, n)
    BY DEF PInv, PathsOK, Done, Forward, Reverse
<1>2. Forward.delim \in Index /\ Reverse.delim \in Index
    BY <1>1 DEF PathOK, MailPath
<1>3. Forward.seps # {} => Forward.cells[Forward.delim] # Nul
    BY <1>1 DEF PathOK, Split, At, Nul
<1>4. Skip \in {0, 1} /\ (Forward.seps # {} => Skip = 1)
    BY <1>3 DEF Skip
<1>5. Forward.delim + Skip \in 0 .. MaxPath /\ Reverse.delim + Skip \in 0 .. MaxPath
    BY <1>2, <1>4, PathAssumption DEF Index
<1>6. Forward.delim + Skip \in Index
    <2>1. CASE Forward.seps = {}
        <3>1. Forward.cells[Forward.delim] = Nul
            BY <1>1, <1>2, <2>1, IndexRange DEF PathOK, Split, Text
        <3> QED  BY <1>2, <3>1 DEF Skip, Index
    <2>2. CASE Forward.seps # {}
        BY <1>1, <1>2, <1>4, <2>2, PathAssumption DEF PathOK, Split, Index
    <2> QED  BY <2>1, <2>2
<1>7. ~Full(Reverse) => Reverse.delim + Skip \in Index
    BY <1>2, <1>4, PathAssumption DEF Full, Index
<1> QED  BY <1>1, <1>4, <1>5, <1>6, <1>7

\* No text of an earlier mail, of this session or of another one, is in what a
\* redirect route makes of the paths of a mail, unless a MAIL before it could
\* not be parsed.
THEOREM NothingStaleIsSafe == Spec => []NothingStale
<1>1. PInv => NothingStale
    <2> SUFFICES ASSUME PInv, stage = "READY", ~dirty
                 PROVE  \A piece \in {ToLocal, ToDomain, FromLocal, FromDomain} :
                            \A k \in DOMAIN piece : ~piece[k].old
        BY DEF NothingStale
    <2>1. PICK m, n \in Index : /\ PathOK(Forward, m, m) /\ PathOK(Reverse, n, n)
                                /\ Forward.delim + Skip \in 0 .. MaxPath
                                /\ Reverse.delim + Skip \in 0 .. MaxPath
        BY ReadyPaths
    <2>2. /\ \A k \in DOMAIN ToLocal : ~ToLocal[k].old
          /\ \A k \in DOMAIN ToDomain : ~ToDomain[k].old
        BY <2>1, PiecesAreNew DEF ToLocal, ToDomain
    <2>3. /\ \A k \in DOMAIN FromLocal : ~FromLocal[k].old
          /\ \A k \in DOMAIN FromDomain : ~FromDomain[k].old
        BY <2>1, PiecesAreNew DEF FromLocal, FromDomain
    <2> QED  BY <2>2, <2>3
<1> QED  BY <1>1, Invariance, PTL

\* A redirect route splits the paths of a mail where the parser has put the
\* delimiter, and loses no character of them; of a reverse path only when the
\* recipient has a domain and the reverse path leaves room in its array or has a
\* domain (route.c 183-185).
THEOREM PartsOfPathsIsSafe == Spec => []PartsOfPaths
<1>1. PInv => PartsOfPaths
    <2> SUFFICES ASSUME PInv, stage = "READY", ~dirty
                 PROVE  /\ Whole(Forward, ToLocal, ToDomain)
                        /\ Forward.seps # {} /\ ~Full(Reverse)
                             => Whole(Reverse, FromLocal, FromDomain)
        BY DEF PartsOfPaths
    <2>1. PICK m, n \in Index : /\ PathOK(Forward, m, m) /\ PathOK(Reverse, n, n)
                                /\ Skip \in {0, 1}
                                /\ Forward.seps # {} => Skip = 1
                                /\ Forward.delim + Skip \in Index
                                /\ ~Full(Reverse) => Reverse.delim + Skip \in Index
        BY ReadyPaths
    <2>2. Whole(Forward, ToLocal, ToDomain)
        BY <2>1, PathIsWhole DEF ToLocal, ToDomain
    <2>3. Forward.seps # {} /\ ~Full(Reverse) => Whole(Reverse, FromLocal, FromDomain)
        <3> SUFFICES ASSUME Forward.seps # {}, ~Full(Reverse)
                     PROVE  Whole(Reverse, FromLocal, FromDomain)
            OBVIOUS
        <3>1. Skip = 1 /\ Reverse.delim + Skip \in Index
            BY <2>1
        <3> QED  BY <2>1, <3>1, PathIsWhole DEF FromLocal, FromDomain
    <2> QED  BY <2>2, <2>3
<1> QED  BY <1>1, Invariance, PTL
===============================================================================
