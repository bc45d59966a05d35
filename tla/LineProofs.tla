------------------------------ MODULE LineProofs ------------------------------
(***************************************************************************)
(* Proofs about LineBuffer for buffers and limits of any size.             *)
(*                                                                         *)
(* common_next_line looks for the end of a line among the new bytes only.  *)
(* That finds every line because there never is one in the old bytes, nor  *)
(* where the old and the new ones meet: a CR that ends a read is not       *)
(* followed by its LF in what the service calls the stream (OldDone and    *)
(* NewMarked).                                                             *)
(***************************************************************************)
EXTENDS LineBuffer, SequenceTheorems, WellFoundedInduction, TLAPS

Stream == Bytes \cup {"cut", "NUL"}

BufferOK ==
    /\ buf \in Seq(Stream) /\ Len(buf) <= Size
    /\ off \in 0 .. Len(buf)
    /\ busy \in BOOLEAN /\ open \in BOOLEAN
    /\ open /\ ~busy => off = Len(buf)

LineOK ==
    /\ line.kind \in {"none", "handled", "too long"}
    /\ Len(line.text) < MaxLine - 2

\* No line ends in the old bytes or with the first of the new ones.
OldDone ==
    /\ off > 0 => buf[off] # "CR"
    /\ ~Terminated => \A i \in 1 .. off - 1 : ~(buf[i] = "CR" /\ buf[i + 1] = "LF")

\* Among the new bytes the last is marked when it is a CR, and no other.
NewMarked ==
    /\ \A i \in off + 1 .. Len(buf) - 1 : buf[i] # "cut"
    /\ off < Len(buf) => buf[Len(buf)] # "CR"

LInv == BufferOK /\ LineOK /\ OldDone /\ NewMarked

-------------------------------------------------------------------------------
(* Sequences *)

LEMMA MinInSet ==
    ASSUME NEW S \in SUBSET Nat, S # {}
    PROVE  Min(S) \in S /\ \A y \in S : Min(S) =< y
<1> DEFINE less == OpToRel(<, Nat)
<1>1. IsWellFoundedOn(less, Nat)
    BY NatLessThanWellFounded
<1>2. \A x, y \in Nat : x < y => <<x, y>> \in less
    BY DEF OpToRel
<1> HIDE DEF less
<1>3. PICK m \in S : \A y \in S : <<y, m>> \notin less
    BY <1>1, WFMin
<1>4. \A y \in S : m =< y
    <2> SUFFICES ASSUME NEW y \in S PROVE m =< y
        OBVIOUS
    <2>1. m \in Nat /\ y \in Nat
        OBVIOUS
    <2>2. ~(y < m)
        BY <1>2, <1>3, <2>1
    <2> QED  BY <2>1, <2>2
<1> QED  BY <1>4, Zenon DEF Min

\* The end of a sequence, from its element i on.
LEMMA Suffix ==
    ASSUME NEW S, NEW s \in Seq(S), NEW i \in 1 .. Len(s) + 1
    PROVE  /\ SubSeq(s, i, Len(s)) \in Seq(S)
           /\ Len(SubSeq(s, i, Len(s))) = Len(s) - i + 1
           /\ \A k \in 1 .. Len(s) - i + 1 : SubSeq(s, i, Len(s))[k] = s[i + k - 1]
<1>1. Len(s) \in Nat /\ \A k \in i .. Len(s) : s[k] \in S
    BY LenProperties, ElementOfSeq
<1> QED  BY <1>1, SubSeqProperties

LEMMA Prefix ==
    ASSUME NEW S, NEW s \in Seq(S), NEW n \in 0 .. Len(s)
    PROVE  /\ SubSeq(s, 1, n) \in Seq(S)
           /\ Len(SubSeq(s, 1, n)) = n
           /\ \A k \in 1 .. n : SubSeq(s, 1, n)[k] = s[k]
<1>1. Len(s) \in Nat /\ \A k \in 1 .. n : s[k] \in S
    BY LenProperties, ElementOfSeq
<1> QED  BY <1>1, SubSeqProperties

-------------------------------------------------------------------------------
(* The buffer *)

\* What the copyback leaves in the buffer is what waits for the rest of its line.
LEMMA MovedBytes ==
    ASSUME BufferOK
    PROVE  /\ Moved = Rest /\ Moved \in Seq(Stream) /\ Len(Moved) =< Len(buf)
           /\ Front \in 0 .. Len(Moved) /\ Len(buf) \in Nat /\ Len(Moved) \in Nat
           /\ Terminated => /\ Front = 0 /\ Len(Moved) = Len(buf) - off
                            /\ \A k \in 1 .. Len(Moved) : Moved[k] = buf[off + k]
           /\ ~Terminated => Front = off /\ Moved = buf
<1>1. Len(buf) \in Nat /\ buf \in Seq(Stream) /\ off \in 0 .. Len(buf)
    BY LenProperties DEF BufferOK
<1>2. CASE Terminated
    <2>1. off + 1 \in 1 .. Len(buf) + 1
        BY <1>1
    <2>2. /\ Moved = SubSeq(buf, off + 1, Len(buf)) /\ Front = 0
          /\ Rest = SubSeq(buf, off + 1, Len(buf))
        BY <1>2 DEF Moved, Front, Rest
    <2>3. /\ Moved \in Seq(Stream) /\ Len(Moved) = Len(buf) - off
          /\ \A k \in 1 .. Len(buf) - off : Moved[k] = buf[off + k]
        BY <1>1, <2>1, <2>2, Suffix
    <2> QED  BY <1>1, <1>2, <2>2, <2>3
<1>3. CASE ~Terminated
    <2>1. Moved = buf /\ Front = off
        BY <1>3 DEF Moved, Front
    <2>2. Rest = buf
        BY <1>1, <1>3, SubSeqFull DEF Rest
    <2> QED  BY <1>1, <1>3, <2>1, <2>2
<1> QED  BY <1>2, <1>3

\* The end of a line is found wherever the service sees one.
LEMMA EndsAreFound ==
    ASSUME LInv
    PROVE  LineEnds = Service!Ends(Rest)
<1>1. BufferOK
    BY DEF LInv
<1>2. \A i \in LineEnds : i \in Service!Ends(Rest)
    <2> SUFFICES ASSUME NEW i \in LineEnds PROVE i \in Service!Ends(Rest)
        OBVIOUS
    <2>1. /\ i \in Front + 1 .. Len(Moved) - 1 /\ IsCR(Moved[i]) /\ Moved[i + 1] = "LF"
          /\ i \in 1 .. Len(Moved) - 1
        BY <1>1, MovedBytes DEF LineEnds
    <2>2. Moved[i] # "cut"
        <3>1. CASE Terminated
            <4>1. Moved[i] = buf[off + i] /\ off + i \in off + 1 .. Len(buf) - 1
                BY <1>1, <2>1, <3>1, MovedBytes DEF BufferOK
            <4> QED  BY <4>1 DEF LInv, NewMarked
        <3>2. CASE ~Terminated
            <4>1. Moved[i] = buf[i] /\ i \in off + 1 .. Len(buf) - 1
                BY <1>1, <2>1, <3>2, MovedBytes DEF BufferOK
            <4> QED  BY <4>1 DEF LInv, NewMarked
        <3> QED  BY <3>1, <3>2
    <2> QED  BY <1>1, <2>1, <2>2, MovedBytes DEF IsCR, Service!Ends
<1>3. \A i \in Service!Ends(Rest) : i \in LineEnds
    <2> SUFFICES ASSUME NEW i \in Service!Ends(Rest) PROVE i \in LineEnds
        OBVIOUS
    <2>1. i \in 1 .. Len(Moved) - 1 /\ Moved[i] = "CR" /\ Moved[i + 1] = "LF"
        BY <1>1, MovedBytes DEF Service!Ends
    <2>2. i > Front
        <3>1. CASE Terminated
            BY <1>1, <2>1, <3>1, MovedBytes
        <3>2. CASE ~Terminated
            <4>1. buf[i] = "CR" /\ buf[i + 1] = "LF" /\ Front = off /\ off \in Nat
                BY <1>1, <2>1, <3>2, MovedBytes DEF BufferOK
            <4>2. i # off
                BY <2>1, <4>1 DEF LInv, OldDone
            <4>3. i \notin 1 .. off - 1
                BY <3>2, <4>1 DEF LInv, OldDone
            <4> QED  BY <2>1, <4>1, <4>2, <4>3
        <3> QED  BY <3>1, <3>2
    <2> QED  BY <1>1, <2>1, <2>2, MovedBytes DEF LineEnds, IsCR
<1> QED  BY <1>2, <1>3

\* The first line, as the service takes it.
LEMMA FirstLine ==
    ASSUME LInv, LineEnds # {}
    PROVE  /\ Min(LineEnds) \in LineEnds
           /\ Min(LineEnds) \in Front + 1 .. Len(Moved) - 1
           /\ Min(LineEnds) \in 1 .. Len(Moved) - 1
<1>1. LineEnds \in SUBSET Nat
    BY MovedBytes DEF LInv, LineEnds
<1>2. Min(LineEnds) \in LineEnds
    BY <1>1, MinInSet
<1> QED  BY <1>2, MovedBytes DEF LInv, LineEnds

\* A string of C is no longer than what it is in.
LEMMA StringLength ==
    ASSUME NEW S, NEW s \in Seq(S)
    PROVE  Len(AsString(s)) \in Nat /\ Len(AsString(s)) =< Len(s) /\ Len(s) \in Nat
<1>1. Len(s) \in Nat
    BY LenProperties
<1>2. CASE Nuls(s) = {}
    BY <1>1, <1>2 DEF AsString
<1>3. CASE Nuls(s) # {}
    <2>1. Nuls(s) \in SUBSET Nat
        BY <1>1 DEF Nuls
    <2>2. Min(Nuls(s)) \in 1 .. Len(s)
        BY <1>3, <2>1, MinInSet DEF Nuls
    <2>3. Min(Nuls(s)) - 1 \in 0 .. Len(s)
        BY <1>1, <2>2
    <2>4. AsString(s) = SubSeq(s, 1, Min(Nuls(s)) - 1)
        BY <1>3 DEF AsString
    <2>5. Len(AsString(s)) = Min(Nuls(s)) - 1
        BY <2>3, <2>4, Prefix
    <2> QED  BY <1>1, <2>2, <2>5
<1> QED  BY <1>2, <1>3

\* What a line that ends at i leaves in the buffer.
LEMMA TakenBytes ==
    ASSUME LInv, NEW i \in Front + 1 .. Len(Moved) - 1, TakeLine(i)
    PROVE  /\ buf' \in Seq(Stream) /\ Len(buf') = Len(Moved) /\ off' = i + 1
           /\ i + 1 \in 2 .. Len(Moved)
           /\ buf'[i] = "NUL" /\ buf'[i + 1] = "NUL"
           /\ \A k \in i + 2 .. Len(Moved) : buf'[k] = Moved[k]
<1> DEFINE one == [Moved EXCEPT ![i] = "NUL"]
<1>1. /\ Moved \in Seq(Stream) /\ Len(Moved) \in Nat
      /\ i \in 1 .. Len(Moved) /\ i + 1 \in 1 .. Len(Moved) /\ "NUL" \in Stream
    BY MovedBytes DEF LInv, Stream
<1>2. /\ one \in Seq(Stream) /\ Len(one) = Len(Moved)
      /\ \A k \in 1 .. Len(Moved) : one[k] = IF k = i THEN "NUL" ELSE Moved[k]
    BY <1>1, ExceptSeq
<1>3. buf' = [one EXCEPT ![i + 1] = "NUL"]
    BY DEF TakeLine
<1> HIDE DEF one
<1>4. /\ buf' \in Seq(Stream) /\ Len(buf') = Len(Moved)
      /\ \A k \in 1 .. Len(Moved) : buf'[k] = IF k = i + 1 THEN "NUL" ELSE one[k]
    BY <1>1, <1>2, <1>3, ExceptSeq
<1>5. off' = i + 1
    BY DEF TakeLine
<1>6. i + 1 \in 2 .. Len(Moved)
    BY <1>1
<1> QED  BY <1>1, <1>2, <1>4, <1>5, <1>6

\* Two NULs in front of the offset.
LEMMA TakenTerminated ==
    ASSUME LInv, NEW i \in Front + 1 .. Len(Moved) - 1, TakeLine(i)
    PROVE  Terminated'
<1>1. off' = i + 1 /\ i + 1 \in 2 .. Len(Moved) /\ buf'[i] = "NUL" /\ buf'[i + 1] = "NUL"
    BY TakenBytes
<1>2. off' > 1 /\ off' - 1 = i
    BY <1>1, MovedBytes DEF LInv
<1> QED  BY <1>1, <1>2 DEF Terminated

\* The bytes behind the front are new, and marked as those of a read.
LEMMA MovedMarked ==
    ASSUME LInv
    PROVE  /\ \A k \in Front + 1 .. Len(Moved) - 1 : Moved[k] # "cut"
           /\ Front < Len(Moved) => Moved[Len(Moved)] # "CR"
<1>1. BufferOK /\ off \in Nat
    BY DEF LInv, BufferOK
<1>2. CASE Terminated
    <2>1. Front = 0 /\ Len(Moved) = Len(buf) - off /\ Len(Moved) \in Nat /\ Len(buf) \in Nat
          /\ \A k \in 1 .. Len(Moved) : Moved[k] = buf[off + k]
        BY <1>1, <1>2, MovedBytes
    <2>2. ASSUME NEW k \in 1 .. Len(Moved) - 1 PROVE Moved[k] # "cut"
        <3>1. off + k \in off + 1 .. Len(buf) - 1 /\ Moved[k] = buf[off + k]
            BY <1>1, <2>1
        <3> QED  BY <3>1 DEF LInv, NewMarked
    <2>3. ASSUME Len(Moved) > 0 PROVE Moved[Len(Moved)] # "CR"
        <3>1. off < Len(buf) /\ Moved[Len(Moved)] = buf[Len(buf)]
            BY <1>1, <2>1, <2>3
        <3> QED  BY <3>1 DEF LInv, NewMarked
    <2> QED  BY <2>1, <2>2, <2>3
<1>3. CASE ~Terminated
    BY <1>1, <1>3, MovedBytes DEF LInv, NewMarked
<1> QED  BY <1>2, <1>3

-------------------------------------------------------------------------------
(* The invariant *)

LEMMA LInvInit == Init => LInv
<1> SUFFICES ASSUME Init PROVE LInv
    OBVIOUS
<1>1. buf = <<>> /\ off = 0 /\ Len(buf) = 0 /\ buf \in Seq(Stream)
    BY EmptySeq DEF Init
<1>2. BufferOK
    <2>1. Len(buf) <= Size /\ off \in 0 .. Len(buf)
        BY <1>1, BufferAssumption
    <2> QED  BY <1>1, <2>1 DEF Init, BufferOK
<1>3. LineOK
    BY BufferAssumption DEF Init, NoLine, LineOK
<1>4. OldDone /\ NewMarked
    BY <1>1 DEF OldDone, NewMarked
<1> QED  BY <1>2, <1>3, <1>4 DEF LInv

LEMMA PieceBytes ==
    ASSUME NEW n \in Nat \ {0}, NEW s \in [1 .. n -> Bytes]
    PROVE  /\ Piece(s) \in Seq(Stream) /\ Len(Piece(s)) = n
           /\ \A k \in 1 .. n - 1 : Piece(s)[k] \in Bytes
           /\ Piece(s)[n] \in (Bytes \ {"CR"}) \cup {"cut"}
<1>1. s \in Seq(Stream) /\ Len(s) = n
    <2>1. s \in [1 .. n -> Stream]
        BY DEF Stream
    <2> QED  BY <2>1
<1>2. CASE s[n] = "CR"
    <2> DEFINE t == [s EXCEPT ![n] = "cut"]
    <2>1. Piece(s) = t
        BY <1>1, <1>2 DEF Piece
    <2>2. n \in 1 .. Len(s) /\ "cut" \in Stream
        BY <1>1 DEF Stream
    <2>3. /\ t \in Seq(Stream) /\ Len(t) = n
          /\ \A k \in 1 .. n : t[k] = IF k = n THEN "cut" ELSE s[k]
        BY <1>1, <2>2, ExceptSeq
    <2> HIDE DEF t
    <2> QED  BY <2>1, <2>3
<1>3. CASE s[n] # "CR"
    <2>1. Piece(s) = s
        BY <1>1, <1>3 DEF Piece
    <2> QED  BY <1>1, <1>3, <2>1
<1> QED  BY <1>2, <1>3

\* A read puts a piece behind the bytes there are, which are all old.
LEMMA ReadBytes ==
    ASSUME LInv, Read
    PROVE  \E p \in Seq(Stream) :
             /\ Len(p) > 0 /\ Len(buf) + Len(p) =< Size
             /\ \A k \in 1 .. Len(p) - 1 : p[k] \in Bytes
             /\ p[Len(p)] \in (Bytes \ {"CR"}) \cup {"cut"}
             /\ buf' = buf \o p /\ buf' \in Seq(Stream) /\ Len(buf') = Len(buf) + Len(p)
             /\ \A k \in 1 .. Len(buf) : buf'[k] = buf[k]
             /\ \A k \in 1 .. Len(p) : buf'[Len(buf) + k] = p[k]
             /\ off = Len(buf) /\ off \in Nat /\ Len(p) \in Nat
<1>1. off = Len(buf) /\ off \in Nat /\ buf \in Seq(Stream)
    BY LenProperties DEF LInv, BufferOK, Read
<1>a. PICK n \in 1 .. Size - off : \E s \in [1 .. n -> Bytes] : buf' = buf \o Piece(s)
    BY DEF Read
<1>2. PICK s \in [1 .. n -> Bytes] : buf' = buf \o Piece(s)
    BY <1>a
<1>3. n \in Nat \ {0} /\ Len(buf) + n =< Size
    BY <1>1, <1>2, BufferAssumption
<1> DEFINE p == Piece(s)
<1>4. /\ p \in Seq(Stream) /\ Len(p) = n
      /\ \A k \in 1 .. n - 1 : p[k] \in Bytes
      /\ p[n] \in (Bytes \ {"CR"}) \cup {"cut"}
    BY <1>3, PieceBytes
<1>5. buf' = buf \o p
    BY <1>2
<1> HIDE DEF p
<1>6. /\ buf' \in Seq(Stream) /\ Len(buf') = Len(buf) + n
      /\ \A k \in 1 .. Len(buf) + n :
             buf'[k] = IF k <= Len(buf) THEN buf[k] ELSE p[k - Len(buf)]
    BY <1>1, <1>4, <1>5, ConcatProperties
<1>7. \A k \in 1 .. Len(buf) : buf'[k] = buf[k]
    BY <1>1, <1>3, <1>6
<1>8. ASSUME NEW k \in 1 .. n PROVE buf'[Len(buf) + k] = p[k]
    <2>1. /\ Len(buf) + k \in 1 .. Len(buf) + n /\ ~(Len(buf) + k <= Len(buf))
          /\ (Len(buf) + k) - Len(buf) = k
        BY <1>1, <1>3
    <2> QED  BY <1>6, <2>1
<1>9. /\ Len(p) = n /\ Len(p) > 0 /\ Len(p) \in Nat /\ Len(buf) + Len(p) =< Size
      /\ Len(buf') = Len(buf) + Len(p)
    BY <1>1, <1>3, <1>4, <1>6
<1>10. /\ \A k \in 1 .. Len(p) - 1 : p[k] \in Bytes
       /\ p[Len(p)] \in (Bytes \ {"CR"}) \cup {"cut"}
       /\ \A k \in 1 .. Len(p) : buf'[Len(buf) + k] = p[k]
    BY <1>4, <1>8, <1>9
<1>11. p \in Seq(Stream) /\ buf' \in Seq(Stream) /\ off = Len(buf) /\ off \in Nat
    BY <1>1, <1>4, <1>6
<1> WITNESS p \in Seq(Stream)
<1> QED  BY <1>5, <1>7, <1>9, <1>10, <1>11

LEMMA ReadInv == ASSUME LInv, Read PROVE LInv'
<1>1. PICK p \in Seq(Stream) :
             /\ Len(p) > 0 /\ Len(buf) + Len(p) =< Size
             /\ \A k \in 1 .. Len(p) - 1 : p[k] \in Bytes
             /\ p[Len(p)] \in (Bytes \ {"CR"}) \cup {"cut"}
             /\ buf' \in Seq(Stream) /\ Len(buf') = Len(buf) + Len(p)
             /\ \A k \in 1 .. Len(buf) : buf'[k] = buf[k]
             /\ \A k \in 1 .. Len(p) : buf'[Len(buf) + k] = p[k]
             /\ off = Len(buf) /\ off \in Nat /\ Len(p) \in Nat
    BY ReadBytes
<1>2. busy' = TRUE /\ off' = off /\ line' = line /\ open' = open
    BY DEF Read
<1>3. BufferOK'
    <2>1. buf' \in Seq(Stream) /\ Len(buf') <= Size
        BY <1>1
    <2>2. off' \in 0 .. Len(buf')
        BY <1>1, <1>2
    <2>3. busy' = TRUE /\ open' \in BOOLEAN
        BY <1>2 DEF LInv, BufferOK
    <2> QED  BY <2>1, <2>2, <2>3 DEF BufferOK
<1>4. Terminated' <=> Terminated
    <2>1. off > 1 => off \in 1 .. Len(buf) /\ off - 1 \in 1 .. Len(buf)
        BY <1>1
    <2>2. off > 1 => buf'[off] = buf[off] /\ buf'[off - 1] = buf[off - 1]
        BY <1>1, <2>1
    <2> QED  BY <1>2, <2>2 DEF Terminated
<1>5. OldDone'
    <2>1. off > 0 => buf'[off] # "CR"
        BY <1>1 DEF LInv, OldDone
    <2>2. ASSUME ~Terminated, NEW i \in 1 .. off - 1 PROVE ~(buf'[i] = "CR" /\ buf'[i + 1] = "LF")
        <3>1. buf'[i] = buf[i] /\ buf'[i + 1] = buf[i + 1]
            BY <1>1
        <3> QED  BY <2>2, <3>1 DEF LInv, OldDone
    <2> QED  BY <1>2, <1>4, <2>1, <2>2 DEF OldDone
<1>6. NewMarked'
    <2>1. ASSUME NEW i \in off + 1 .. Len(buf') - 1 PROVE buf'[i] # "cut"
        <3>1. i - off \in 1 .. Len(p) - 1 /\ off + (i - off) = i /\ i - off \in 1 .. Len(p)
            BY <1>1
        <3>2. buf'[i] = p[i - off]
            BY <1>1, <3>1
        <3> QED  BY <1>1, <3>1, <3>2, BufferAssumption
    <2>2. buf'[Len(buf')] # "CR"
        BY <1>1
    <2> QED  BY <1>2, <2>1, <2>2 DEF NewMarked
<1> QED  BY <1>2, <1>3, <1>5, <1>6 DEF LInv, LineOK

LEMMA HandleLineInv == ASSUME LInv, HandleLine PROVE LInv'
<1> DEFINE i == Min(LineEnds)
<1>1. i \in Front + 1 .. Len(Moved) - 1 /\ i \in 1 .. Len(Moved) - 1 /\ TakeLine(i)
    BY FirstLine DEF HandleLine
<1> HIDE DEF i
<1>2. /\ buf' \in Seq(Stream) /\ Len(buf') = Len(Moved) /\ off' = i + 1
      /\ i + 1 \in 2 .. Len(Moved)
      /\ buf'[i] = "NUL" /\ buf'[i + 1] = "NUL"
      /\ \A k \in i + 2 .. Len(Moved) : buf'[k] = Moved[k]
    BY <1>1, TakenBytes
<1>3. Moved \in Seq(Stream) /\ Len(Moved) \in Nat /\ Len(Moved) =< Len(buf) /\ Front \in Nat
      /\ Len(buf) \in Nat /\ Len(buf) =< Size
    BY MovedBytes DEF LInv, BufferOK
<1>4. BufferOK'
    <2>1. Len(buf') <= Size /\ off' \in 0 .. Len(buf')
        BY <1>2, <1>3, BufferAssumption
    <2>2. busy' \in BOOLEAN /\ open' \in BOOLEAN /\ (~busy' => ~open')
        BY Zenon DEF HandleLine, LInv, BufferOK
    <2> QED  BY <1>2, <2>1, <2>2 DEF BufferOK
<1>5. LineOK'
    <2>1. CASE TooLong(i - 1)
        <3>1. line'.text = <<>> /\ line'.kind = "too long"
            BY <1>1, <2>1 DEF TakeLine
        <3>2. Len(<<>>) = 0 /\ 0 < MaxLine - 2
            BY BufferAssumption
        <3> QED  BY <3>1, <3>2 DEF LineOK
    <2>2. CASE ~TooLong(i - 1)
        <3> DEFINE s == SubSeq(Moved, 1, i - 1)
        <3>1. s \in Seq(Stream) /\ Len(s) = i - 1
            BY <1>1, <1>3, Prefix
        <3>2. line' = [text |-> AsString(s), kind |-> "handled"]
            BY <1>1, <2>2 DEF TakeLine
        <3> HIDE DEF s
        <3>3. Len(AsString(s)) \in Nat /\ Len(AsString(s)) =< i - 1
            BY <3>1, StringLength
        <3>4. i - 1 < MaxLine - 2
            BY <1>1, <1>3, <2>2, BufferAssumption DEF TooLong
        <3> QED  BY <1>1, <1>3, <3>2, <3>3, <3>4, BufferAssumption DEF LineOK
    <2> QED  BY <2>1, <2>2
<1>6. OldDone'
    BY <1>1, <1>2, TakenTerminated DEF OldDone
<1>7. NewMarked'
    <2>1. ASSUME NEW k \in off' + 1 .. Len(buf') - 1 PROVE buf'[k] # "cut"
        <3>1. k \in i + 2 .. Len(Moved) /\ k \in Front + 1 .. Len(Moved) - 1
            BY <1>1, <1>2, <1>3
        <3> QED  BY <1>2, <3>1, MovedMarked
    <2>2. ASSUME off' < Len(buf') PROVE buf'[Len(buf')] # "CR"
        <3>1. Len(Moved) \in i + 2 .. Len(Moved) /\ Front < Len(Moved)
            BY <1>1, <1>2, <1>3, <2>2
        <3> QED  BY <1>2, <3>1, MovedMarked
    <2> QED  BY <2>1, <2>2 DEF NewMarked
<1> QED  BY <1>4, <1>5, <1>6, <1>7 DEF LInv

LEMMA EndOfReadInv == ASSUME LInv, EndOfRead PROVE LInv'
<1>1. buf' = Moved /\ off' = Len(Moved) /\ busy' = FALSE /\ line' = line /\ open' = open
    BY DEF EndOfRead, NoMoreLines
<1>2. Moved \in Seq(Stream) /\ Len(Moved) \in Nat /\ Len(Moved) =< Len(buf)
      /\ Front \in 0 .. Len(Moved) /\ Len(buf) \in Nat /\ Len(buf) =< Size
    BY MovedBytes DEF LInv, BufferOK
<1>3. BufferOK'
    <2>1. Len(buf') <= Size /\ off' \in 0 .. Len(buf') /\ off' = Len(buf')
        BY <1>1, <1>2, BufferAssumption
    <2>2. busy' \in BOOLEAN /\ open' \in BOOLEAN /\ buf' \in Seq(Stream)
        BY <1>1, <1>2 DEF LInv, BufferOK
    <2> QED  BY <2>1, <2>2 DEF BufferOK
<1>4. Len(Moved) > 0 => Moved[Len(Moved)] # "CR"
    <2>1. CASE Front < Len(Moved)
        BY <2>1, MovedMarked
    <2>2. CASE Front = Len(Moved) /\ Len(Moved) > 0
        <3>1. ~Terminated /\ Moved = buf /\ Front = off
            BY <2>2, MovedBytes DEF LInv
        <3> QED  BY <2>2, <3>1 DEF LInv, OldDone
    <2> QED  BY <1>2, <2>1, <2>2
<1>5. \A i \in 1 .. Len(Moved) - 1 : ~(Moved[i] = "CR" /\ Moved[i + 1] = "LF")
    BY EndsAreFound, MovedBytes DEF EndOfRead, LInv, Service!Ends
<1>6. OldDone'
    BY <1>1, <1>4, <1>5 DEF OldDone
<1>7. NewMarked'
    BY <1>1, <1>2 DEF NewMarked
<1> QED  BY <1>1, <1>3, <1>6, <1>7 DEF LInv, LineOK

LEMMA OthersInv == ASSUME LInv, CloseTooLong \/ Close \/ UNCHANGED vars PROVE LInv'
<1>1. buf' = buf /\ off' = off /\ busy' = busy /\ line' = line
    BY DEF CloseTooLong, Close, vars
<1>2. open' = open \/ open' = FALSE
    BY DEF CloseTooLong, Close, vars
<1>3. BufferOK'
    <2>1. CASE open' = open
        BY <1>1, <2>1 DEF LInv, BufferOK
    <2>2. CASE open' = FALSE
        BY <1>1, <2>2 DEF LInv, BufferOK
    <2> QED  BY <1>2, <2>1, <2>2
<1>4. LineOK' /\ OldDone' /\ NewMarked'
    BY <1>1 DEF LInv, LineOK, OldDone, NewMarked, Terminated
<1> QED  BY <1>3, <1>4 DEF LInv

LEMMA AcceptInv == ASSUME LInv, Accept PROVE LInv'
<1>1. buf' = <<>> /\ off' = 0 /\ Len(buf') = 0 /\ buf' \in Seq(Stream) /\ busy' = FALSE
    BY EmptySeq DEF Accept, LInv, BufferOK
<1>2. BufferOK'
    <2>1. Len(buf') <= Size /\ off' \in 0 .. Len(buf')
        BY <1>1, BufferAssumption
    <2> QED  BY <1>1, <2>1 DEF Accept, BufferOK
<1>3. LineOK'
    BY BufferAssumption DEF Accept, NoLine, LineOK
<1>4. OldDone' /\ NewMarked'
    BY <1>1 DEF OldDone, NewMarked
<1> QED  BY <1>2, <1>3, <1>4 DEF LInv

LEMMA LInvStep == LInv /\ [Next]_vars => LInv'
BY ReadInv, HandleLineInv, EndOfReadInv, OthersInv, AcceptInv DEF Next

LEMMA Invariance == Spec => []LInv
<1> QED  BY LInvInit, LInvStep, PTL DEF Spec

\* However much a client sends and in whatever pieces, nothing is written behind
\* the end of the buffer, no line that is handled reaches the limit, and all bytes
\* are looked at before the session waits for more.
THEOREM TypeCorrect == Spec => []TypeOK
<1>1. LInv => TypeOK
    <2>1. Stream = Bytes \cup {"cut", "NUL"}
        BY DEF Stream
    <2> QED  BY <2>1 DEF LInv, BufferOK, LineOK, TypeOK
<1> QED  BY <1>1, Invariance, PTL

-------------------------------------------------------------------------------
(* The service *)

\* What was there and what came are the two parts of what is there now.
LEMMA Parts ==
    ASSUME NEW S, NEW r \in Seq(S), NEW p \in Seq(S), Len(p) > 0
    PROVE  /\ SubSeq(r \o p, 1, Len(r)) = r
           /\ SubSeq(r \o p, Len(r) + 1, Len(r \o p)) = p
           /\ Len(r \o p) = Len(r) + Len(p)
<1>1. Len(r) \in Nat /\ Len(p) \in Nat
    BY LenProperties
<1>2. /\ r \o p \in Seq(S) /\ Len(r \o p) = Len(r) + Len(p)
      /\ \A i \in 1 .. Len(r) + Len(p) :
             (r \o p)[i] = IF i <= Len(r) THEN r[i] ELSE p[i - Len(r)]
    BY ConcatProperties
<1> DEFINE w == r \o p
<1> HIDE DEF w
<1>3. /\ w \in Seq(S) /\ Len(w) = Len(r) + Len(p)
      /\ \A i \in 1 .. Len(r) : w[i] = r[i]
      /\ \A i \in Len(r) + 1 .. Len(w) : w[i] = p[i - Len(r)]
    BY <1>1, <1>2 DEF w
<1>4. SubSeq(w, 1, Len(r)) = r
    <2>1. /\ SubSeq(w, 1, Len(r)) \in Seq(S) /\ Len(SubSeq(w, 1, Len(r))) = Len(r)
          /\ \A k \in 1 .. Len(r) : SubSeq(w, 1, Len(r))[k] = w[k]
        BY <1>1, <1>3, Prefix
    <2> QED  BY <1>3, <2>1, SeqEqual
<1>5. SubSeq(w, Len(r) + 1, Len(w)) = p
    <2>1. Len(r) + 1 \in 1 .. Len(w) + 1 /\ Len(w) - (Len(r) + 1) + 1 = Len(p)
        BY <1>1, <1>3
    <2>2. /\ SubSeq(w, Len(r) + 1, Len(w)) \in Seq(S)
          /\ Len(SubSeq(w, Len(r) + 1, Len(w))) = Len(p)
          /\ \A k \in 1 .. Len(p) :
                 SubSeq(w, Len(r) + 1, Len(w))[k] = w[(Len(r) + 1) + k - 1]
        BY <1>3, <2>1, Suffix
    <2>3. ASSUME NEW k \in 1 .. Len(p) PROVE w[(Len(r) + 1) + k - 1] = p[k]
        <3>1. (Len(r) + 1) + k - 1 \in Len(r) + 1 .. Len(w) /\ ((Len(r) + 1) + k - 1) - Len(r) = k
            BY <1>1, <1>3
        <3> QED  BY <1>3, <3>1
    <2> QED  BY <2>2, <2>3, SeqEqual
<1> QED  BY <1>2, <1>4, <1>5 DEF w

\* A read puts its piece behind what waits.
LEMMA ReadRest ==
    ASSUME LInv, Read,
           NEW p \in Seq(Stream), Len(p) > 0,
           buf' = buf \o p, off = Len(buf)
    PROVE  Rest' = Rest \o p
<1>1. buf \in Seq(Stream) /\ Len(buf) \in Nat /\ Len(p) \in Nat /\ off' = off
    BY LenProperties DEF LInv, BufferOK, Read
<1>2. /\ SubSeq(buf', Len(buf) + 1, Len(buf')) = p /\ buf' \in Seq(Stream)
      /\ Len(buf') = Len(buf) + Len(p)
      /\ \A k \in 1 .. Len(buf) : buf'[k] = buf[k]
    <2>1. \A k \in 1 .. Len(buf) + Len(p) :
             buf'[k] = IF k <= Len(buf) THEN buf[k] ELSE p[k - Len(buf)]
        BY <1>1, ConcatProperties
    <2> QED  BY <1>1, <2>1, Parts, ConcatProperties
<1>3. Terminated' <=> Terminated
    BY <1>1, <1>2 DEF Terminated
<1>4. CASE Terminated
    <2>1. Rest = <<>>
        <3>1. Rest = SubSeq(buf, Len(buf) + 1, Len(buf))
            BY <1>4 DEF Rest
        <3> QED  BY <1>1, <3>1, SubSeqEmpty
    <2>2. Rest' = p
        BY <1>1, <1>2, <1>3, <1>4 DEF Rest
    <2> QED  BY <2>1, <2>2, ConcatEmptySeq
<1>5. CASE ~Terminated
    <2>1. Rest = buf /\ Rest' = buf'
        BY <1>1, <1>2, <1>3, <1>5, SubSeqFull DEF Rest
    <2> QED  BY <2>1
<1> QED  BY <1>4, <1>5

LEMMA ReadReceives == ASSUME LInv, Read PROVE Service!Receive
<1>1. PICK p \in Seq(Stream) :
             /\ Len(p) > 0 /\ Len(buf) + Len(p) =< Size
             /\ \A k \in 1 .. Len(p) - 1 : p[k] \in Bytes
             /\ p[Len(p)] \in (Bytes \ {"CR"}) \cup {"cut"}
             /\ buf' = buf \o p
             /\ off = Len(buf) /\ off \in Nat /\ Len(p) \in Nat
    BY ReadBytes
<1>2. PICK r \in Seq(Stream) : r = Rest /\ Rest' = r \o p
    BY <1>1, ReadRest, MovedBytes DEF LInv
<1>3. /\ SubSeq(r \o p, 1, Len(r)) = r
      /\ SubSeq(r \o p, Len(r) + 1, Len(r \o p)) = p
      /\ Len(r \o p) = Len(r) + Len(p)
    BY <1>1, Parts
<1>4. Len(r) \in Nat /\ Len(r) =< Len(buf) /\ Size - off >= 2
    BY <1>2, MovedBytes DEF LInv, Read, Left
<1>5. Len(r) < Size - 1 /\ Len(r) < Len(r \o p) /\ Len(r \o p) <= Size
    BY <1>1, <1>3, <1>4, BufferAssumption
<1>6. Service!Ends(r) = {}
    <2>1. CASE Terminated
        <3>1. Len(r) = 0
            BY <1>1, <1>2, <2>1, MovedBytes DEF LInv
        <3> QED  BY <3>1 DEF Service!Ends
    <2>2. CASE ~Terminated
        <3>1. r = buf
            BY <1>2, <2>2, MovedBytes DEF LInv
        <3> QED  BY <1>1, <2>2, <3>1 DEF LInv, OldDone, Service!Ends
    <2> QED  BY <2>1, <2>2
<1>7. Service!IsPiece(p)
    <2> SUFFICES ASSUME NEW i \in 1 .. Len(p)
                 PROVE  p[i] \in IF i < Len(p) THEN Bytes ELSE (Bytes \ {"CR"}) \cup {"cut"}
        BY DEF Service!IsPiece
    <2>1. CASE i < Len(p)
        BY <1>1, <2>1
    <2>2. CASE i = Len(p)
        BY <1>1, <2>2
    <2> QED  BY <1>1, <2>1, <2>2
<1>8. open /\ line' = line /\ open' = open
    BY DEF Read
<1> QED  BY <1>2, <1>3, <1>5, <1>6, <1>7, <1>8 DEF Service!Receive

LEMMA LineIsHandled == ASSUME LInv, HandleLine PROVE Service!HandleLine
<1>1. PICK i : i = Min(LineEnds)
    OBVIOUS
<1>2. /\ i \in Front + 1 .. Len(Moved) - 1 /\ i \in 1 .. Len(Moved) - 1 /\ TakeLine(i)
      /\ LineEnds # {} /\ LineEnds = Service!Ends(Rest) /\ i = Service!Min(Service!Ends(Rest))
    BY <1>1, FirstLine, EndsAreFound DEF HandleLine, Min, Service!Min
<1>3. /\ buf' \in Seq(Stream) /\ Len(buf') = Len(Moved) /\ off' = i + 1
      /\ i + 1 \in 2 .. Len(Moved)
      /\ \A k \in i + 2 .. Len(Moved) : buf'[k] = Moved[k]
    BY <1>2, TakenBytes
<1>4. Moved \in Seq(Stream) /\ Len(Moved) \in Nat /\ Moved = Rest
    BY MovedBytes DEF LInv
<1>5. Rest' = SubSeq(Moved, i + 2, Len(Moved))
    <2> DEFINE a == SubSeq(buf', i + 2, Len(buf'))
               b == SubSeq(Moved, i + 2, Len(Moved))
    <2>1. Rest' = a
        <3>1. Terminated' /\ off' + 1 = i + 2
            BY <1>2, <1>3, <1>4, TakenTerminated
        <3> QED  BY <3>1 DEF Rest
    <2>2. i + 2 \in 1 .. Len(Moved) + 1
        BY <1>2, <1>3, <1>4
    <2>3. /\ a \in Seq(Stream) /\ Len(a) = Len(Moved) - (i + 2) + 1
          /\ \A k \in 1 .. Len(Moved) - (i + 2) + 1 : a[k] = buf'[(i + 2) + k - 1]
        <3>1. i + 2 \in 1 .. Len(buf') + 1 /\ Len(buf') = Len(Moved) /\ buf' \in Seq(Stream)
            BY <1>3, <2>2
        <3> QED  BY <3>1, Suffix
    <2>4. /\ b \in Seq(Stream) /\ Len(b) = Len(Moved) - (i + 2) + 1
          /\ \A k \in 1 .. Len(Moved) - (i + 2) + 1 : b[k] = Moved[(i + 2) + k - 1]
        BY <1>4, <2>2, Suffix
    <2> HIDE DEF a, b
    <2>5. ASSUME NEW k \in 1 .. Len(Moved) - (i + 2) + 1 PROVE a[k] = b[k]
        <3>1. (i + 2) + k - 1 \in i + 2 .. Len(Moved)
            BY <1>2, <1>4
        <3> QED  BY <1>3, <2>3, <2>4, <3>1
    <2>6. a = b
        BY <2>3, <2>4, <2>5, SeqEqual
    <2> QED  BY <2>1, <2>6 DEF b
<1>6. line' = Service!Handled(SubSeq(Rest, 1, i - 1))
    <2> DEFINE s == SubSeq(Moved, 1, i - 1)
    <2>1. Len(s) = i - 1
        <3>1. i - 1 \in 0 .. Len(Moved)
            BY <1>2, <1>4
        <3> QED  BY <1>4, <3>1, Prefix
    <2>2. AsString(s) = Service!AsString(s)
        BY DEF AsString, Nuls, Min, Service!AsString, Service!Nuls, Service!Min
    <2>3. line' = IF TooLong(i - 1) THEN [text |-> <<>>, kind |-> "too long"]
                  ELSE [text |-> AsString(s), kind |-> "handled"]
        BY <1>2 DEF TakeLine
    <2> HIDE DEF s
    <2>4. line' = Service!Handled(s)
        BY <2>1, <2>2, <2>3 DEF TooLong, Service!Handled
    <2> QED  BY <1>4, <2>4 DEF s
<1>7. open' \in {open, FALSE} /\ (line'.kind = "too long" => open' = open)
    BY Zenon DEF HandleLine
<1>8. Service!Ends(Rest) # {}
    BY <1>2
<1> QED  BY <1>2, <1>4, <1>5, <1>6, <1>7, <1>8 DEF Service!HandleLine

\* The end of a read forgets what the service does, or changes nothing it sees.
LEMMA EndForgets == ASSUME LInv, EndOfRead PROVE Service!Forget \/ UNCHANGED Service!vars
<1>1. /\ buf' = Moved /\ off' = Len(Moved) /\ line' = line /\ open' = open
      /\ Moved = Rest /\ Moved \in Seq(Stream) /\ Len(Moved) \in Nat
    BY MovedBytes DEF EndOfRead, NoMoreLines, LInv
<1>2. Service!Ends(Rest) = {}
    BY EndsAreFound DEF EndOfRead
<1>3. Terminated' <=> Service!Forgotten(Rest)
    BY <1>1 DEF Terminated, Service!Forgotten
<1>4. CASE Terminated'
    <2>1. Rest' = SubSeq(Moved, Len(Moved) + 1, Len(Moved))
        BY <1>1, <1>4 DEF Rest
    <2>2. Rest' = <<>>
        BY <1>1, <2>1, SubSeqEmpty
    <2> QED  BY <1>1, <1>2, <1>3, <1>4, <2>2 DEF Service!Forget
<1>5. CASE ~Terminated'
    <2>1. Rest' = SubSeq(Moved, 1, Len(Moved))
        BY <1>1, <1>5 DEF Rest
    <2>2. Rest' = Rest
        BY <1>1, <2>1, SubSeqFull
    <2> QED  BY <1>1, <2>2 DEF Service!vars
<1> QED  BY <1>4, <1>5

LEMMA OthersMap ==
    ASSUME LInv, CloseTooLong \/ Close \/ Accept \/ UNCHANGED vars
    PROVE  Service!Close \/ Service!Accept \/ UNCHANGED Service!vars
<1>1. ASSUME CloseTooLong \/ Close PROVE Service!Close
    BY <1>1 DEF CloseTooLong, Close, Service!Close, Rest, Terminated
<1>2. ASSUME Accept PROVE Service!Accept
    <2>1. Rest' = <<>>
        <3>1. buf' = <<>> /\ off' = 0 /\ Len(buf') = 0
            BY <1>2, EmptySeq DEF Accept
        <3>2. Rest' = SubSeq(<<>>, 1, 0)
            BY <3>1 DEF Rest, Terminated
        <3> QED  BY <3>2, SubSeqEmpty
    <2> QED  BY <1>2, <2>1 DEF Accept, Service!Accept, NoLine, Service!NoLine
<1>3. ASSUME UNCHANGED vars PROVE UNCHANGED Service!vars
    BY <1>3 DEF vars, Service!vars, Rest, Terminated
<1> QED  BY <1>1, <1>2, <1>3

LEMMA StepMaps == ASSUME LInv, [Next]_vars PROVE [Service!Next]_Service!vars
BY ReadReceives, LineIsHandled, EndForgets, OthersMap DEF Next, Service!Next

LEMMA InitMaps == Init => Service!Init
<1> SUFFICES ASSUME Init PROVE Service!Init
    OBVIOUS
<1>1. Rest = <<>>
    <2>1. buf = <<>> /\ Len(buf) = 0 /\ ~Terminated
        BY EmptySeq DEF Init, Terminated
    <2>2. Rest = SubSeq(<<>>, 1, 0)
        BY <2>1 DEF Rest
    <2> QED  BY <2>2, SubSeqEmpty
<1> QED  BY <1>1 DEF Init, Service!Init, NoLine, Service!NoLine

\* However a stream is cut into reads, wherever in the buffer its lines lie and
\* whatever the buffer and the limit are, common_next_line hands out the lines of
\* the stream: each once, in order, with no byte of another.
THEOREM Implements == Spec => ImplementsLines
<1> QED  BY InitMaps, StepMaps, Invariance, PTL DEF Spec, ImplementsLines, Service!Spec
===============================================================================
