---------------------------- MODULE DispatchProofs ----------------------------
(***************************************************************************)
(* Proofs about Dispatch for any number of mails, servers and notices, any *)
(* grouping into transactions and any number of failures.  Late answers    *)
(* are covered too, up to three of them in the theorems that say Patient.  *)
(***************************************************************************)
EXTENDS Dispatch, SequenceTheorems, FiniteSetTheorems, TLAPS

----------------------------------------------------------------------------
(* Types, and what they rest on: a notice in the outbox has been written,  *)
(* a RCPT names a row, the program waits for the answer about a row, and   *)
(* copies of a notice refer to its first one.                              *)

DbType ==
    /\ outbox \subseteq Rows /\ fatal \subseteq outbox /\ waiting \subseteq outbox
    /\ fails \in [Rows -> 0..Retries]
    /\ notice \in [Notices -> NoticeText \cup {None}]
    /\ \A n \in Notices \cap outbox : notice[n] # None

RoundType ==
    /\ pc \in Programs /\ once \in BOOLEAN /\ todo \subseteq Remotes
    /\ txs \subseteq SUBSET Rows /\ blank \in Nat
    /\ DOMAIN st \subseteq Rows /\ \A r \in DOMAIN st : st[r] \in Statuses
    /\ left \subseteq Rows /\ at \in Rows \cup {None} /\ perm \in BOOLEAN
    /\ seen \subseteq Rows /\ touched \subseteq Rows
    /\ pc = "rcpt" => at \in Rows

ConnType ==
    /\ line \in Seq(Commands) /\ back \in Seq(Answers)
    /\ phase \in {"gone", "idle", "mail", "data"} /\ rcpts \subseteq Rows
    /\ \A i \in 1..Len(line) : line[i].verb = "RCPT" => line[i].to \in Rows

BounceType ==
    /\ cands \subseteq Rows /\ draft \subseteq Mails
    /\ copy \in 0..Len(BounceTo) /\ text \in Notices \cup {None} /\ sound \in BOOLEAN
    /\ copy > 0 => text \in Notices
    /\ pc \in {"notify", "judge"} => at \in Mails

HistoryType ==
    /\ arrived \subseteq Mails
    /\ taken \in [Rows -> 0..2] /\ doubt \subseteq Rows
    /\ mishaps \in 0..MaxMishaps

TInv == DbType /\ RoundType /\ ConnType /\ BounceType /\ HistoryType

----------------------------------------------------------------------------
(* What the helpers do to types *)

LEMMA MishapType ==
    ASSUME HistoryType, NEW what, Mishap(what)
    PROVE  mishaps' \in 0..MaxMishaps
BY BoundsAssumption DEF HistoryType, Mishap

LEMMA ResultType ==
    ASSUME HistoryType, NEW S, NEW T, Result(S, T)
    PROVE  T \subseteq S /\ mishaps' \in 0..MaxMishaps
BY MishapType DEF Result, HistoryType

LEMMA RemovedType ==
    ASSUME DbType, NEW r \in Rows, Removed(r), UNCHANGED notice
    PROVE  DbType'
<1>1. fails' \in [Rows -> 0..Retries]
    BY BoundsAssumption DEF DbType, Removed, Forgotten
<1> QED  BY <1>1 DEF DbType, Removed, Forgotten

LEMMA DeleteType ==
    ASSUME DbType, HistoryType, NEW r \in Rows, Delete(r), UNCHANGED notice
    PROVE  DbType' /\ mishaps' \in 0..MaxMishaps /\ outbox' \subseteq Rows
<1>1. CASE Removed(r) /\ UNCHANGED mishaps
    BY <1>1, RemovedType DEF HistoryType, DbType
<1>2. CASE Mishap("delete") /\ UNCHANGED dbVars
    BY <1>2, MishapType DEF DbType, dbVars
<1> QED  BY <1>1, <1>2 DEF Delete

LEMMA LogType ==
    ASSUME TInv, NEW r \in Rows, NEW f \in BOOLEAN, Log(r, f), UNCHANGED notice
    PROVE  DbType' /\ mishaps' \in 0..MaxMishaps /\ touched' \subseteq Rows
<1>1. touched' \subseteq Rows
    BY DEF Log, Entry, TInv, RoundType
<1>2. CASE /\ r \in outbox
           /\ fails' = [fails EXCEPT ![r] = IF @ < Retries THEN @ + 1 ELSE @]
           /\ fatal' = IF f THEN fatal \cup {r} ELSE fatal
           /\ waiting' = waiting \cup {r}
           /\ UNCHANGED <<outbox, mishaps>>
    <2>1. fails' \in [Rows -> 0..Retries]
        BY <1>2, BoundsAssumption DEF TInv, DbType
    <2>2. fatal' \subseteq outbox' /\ waiting' \subseteq outbox'
        BY <1>2 DEF TInv, DbType
    <2> QED  BY <1>1, <1>2, <2>1, <2>2 DEF TInv, DbType, HistoryType
<1>3. CASE /\ UNCHANGED <<outbox, fails, fatal, waiting>>
           /\ UNCHANGED mishaps \/ Mishap("log")
    BY <1>1, <1>3, MishapType DEF TInv, DbType, HistoryType
<1> QED  BY <1>2, <1>3 DEF Log, Entry

LEMMA ReadType ==
    ASSUME ConnType, NEW x, Read(x)
    PROVE  back' \in Seq(Answers)
<1>1. \A k \in 3..(Len(back) + 1) : SubSeq(back, k, Len(back)) \in Seq(Answers)
    BY DEF ConnType
<1>2. back # <<>> => Tail(back) \in Seq(Answers)
    BY DEF ConnType
<1> QED  BY <1>1, <1>2 DEF Read, ConnType

LEMMA SendType ==
    ASSUME ConnType, NEW v \in Verbs, NEW r \in Rows \cup {None}, Send(v, r),
           v = "RCPT" => r \in Rows
    PROVE  /\ line' \in Seq(Commands)
           /\ \A i \in 1..Len(line') : line'[i].verb = "RCPT" => line'[i].to \in Rows
<1>1. CASE phase = "gone"
    BY <1>1 DEF Send, ConnType
<1>2. CASE phase # "gone"
    <2> DEFINE e == [verb |-> v, to |-> r]
    <2>1. e \in Commands /\ (e.verb = "RCPT" => e.to \in Rows)
        BY DEF Commands
    <2>2. line' = Append(line, e)
        BY <1>2 DEF Send
    <2> HIDE DEF e
    <2>3. line' \in Seq(Commands) /\ Len(line') = Len(line) + 1
        BY <2>1, <2>2 DEF ConnType
    <2>4. \A i \in 1..Len(line') : line'[i] = IF i <= Len(line) THEN line[i] ELSE e
        BY <2>2 DEF ConnType
    <2> QED  BY <2>1, <2>3, <2>4 DEF ConnType
<1> QED  BY <1>1, <1>2

LEMMA HostType ==
    ASSUME DbType, NEW r \in outbox
    PROVE  Host(r) \in Remotes
<1>1. CASE r \in Mails
    BY <1>1, TablesAssumption DEF Host
<1>2. CASE r \in Notices /\ r \notin Mails
    BY <1>2, TablesAssumption DEF Host, DbType, NoticeText
<1> QED  BY <1>1, <1>2 DEF DbType, Rows

----------------------------------------------------------------------------
(* What is left alone keeps its type *)

LEMMA DbStays == ASSUME DbType, UNCHANGED <<dbVars, notice>> PROVE DbType'
BY DEF DbType, dbVars

LEMMA RoundStays ==
    ASSUME RoundType, UNCHANGED <<roundVars, txs, blank, st, left, at, perm, seen, touched>>,
           pc' \in Programs \ {"rcpt"}
    PROVE  RoundType'
BY DEF RoundType, roundVars

LEMMA ConnStays == ASSUME ConnType, UNCHANGED connVars PROVE ConnType'
BY DEF ConnType, connVars

LEMMA BounceStays ==
    ASSUME BounceType, UNCHANGED bounceVars, pc' \notin {"notify", "judge"}
    PROVE  BounceType'
BY DEF BounceType, bounceVars

LEMMA HistoryStays ==
    ASSUME HistoryType, UNCHANGED history, mishaps' \in 0..MaxMishaps
    PROVE  HistoryType'
BY DEF HistoryType, history

----------------------------------------------------------------------------
(* Every step keeps the types *)

LEMMA InitType == Init => TInv
<1> SUFFICES ASSUME Init PROVE TInv
    OBVIOUS
<1>1. DbType
    BY BoundsAssumption DEF Init, DbType
<1>2. RoundType
    <2>1. DOMAIN st = {}
        BY DEF Init
    <2> QED  BY <2>1 DEF Init, RoundType, Programs
<1>3. ConnType /\ HistoryType
    BY BoundsAssumption DEF Init, ConnType, HistoryType
<1>4. BounceType
    BY TablesAssumption DEF Init, BounceType
<1> QED  BY <1>1, <1>2, <1>3, <1>4 DEF TInv

LEMMA RoundStep ==
    ASSUME TInv, UNCHANGED <<dbVars, notice, connVars, history>>,
           RoundType', BounceType', mishaps' \in 0..MaxMishaps
    PROVE  TInv'
BY DbStays, ConnStays, HistoryStays DEF TInv

LEMMA ConnStep ==
    ASSUME TInv, UNCHANGED bounceVars, pc' \notin {"notify", "judge"},
           DbType', RoundType', ConnType', HistoryType'
    PROVE  TInv'
BY BounceStays DEF TInv

LEMMA StartRoundType == ASSUME TInv, StartRound PROVE TInv'
<1>1. PICK S \in SUBSET Due : Result(Due, S) /\ todo' = {Host(r) : r \in S}
    BY DEF StartRound
<1>2. todo' \subseteq Remotes /\ mishaps' \in 0..MaxMishaps
    BY <1>1, HostType, ResultType DEF TInv, Due
<1>3. RoundType' /\ BounceType'
    BY <1>2, BounceStays DEF TInv, RoundType, StartRound, Programs
<1> QED  BY <1>2, <1>3, RoundStep DEF StartRound

LEMMA StartOnceType == ASSUME TInv, NEW h \in Remotes, StartOnce(h) PROVE TInv'
<1>1. RoundType' /\ BounceType'
    BY BounceStays DEF TInv, RoundType, StartOnce, Programs
<1> QED  BY <1>1, RoundStep DEF StartOnce, TInv, HistoryType

LEMMA SkipType == ASSUME TInv, NEW h \in Remotes, Skip(h) PROVE TInv'
<1>1. mishaps' \in 0..MaxMishaps
    BY MishapType DEF Skip, TInv, HistoryType
<1>2. RoundType' /\ BounceType'
    BY BounceStays DEF TInv, RoundType, Skip, Programs
<1> QED  BY <1>1, <1>2, RoundStep DEF Skip

LEMMA HandleRemoteType == ASSUME TInv, NEW h \in Remotes, HandleRemote(h) PROVE TInv'
<1> DEFINE Mine == {r \in Due : Host(r) = h}
<1>1. PICK S \in SUBSET Mine : Result(Mine, S) /\ Transactions(S) /\ seen' = S /\ touched' = {}
    BY DEF HandleRemote, ReadTransactions
<1>2. S \subseteq Rows /\ mishaps' \in 0..MaxMishaps
    BY <1>1, ResultType DEF TInv, DbType, Due
<1>3. txs' \subseteq SUBSET Rows /\ blank' \in Nat
    BY <1>1, <1>2, BoundsAssumption DEF Transactions
<1>4. RoundType' /\ BounceType'
    BY <1>1, <1>2, <1>3, BounceStays DEF TInv, RoundType, HandleRemote, Programs
<1> QED  BY <1>2, <1>4, RoundStep DEF HandleRemote

LEMMA ConnectType == ASSUME TInv, Connect PROVE TInv'
<1> DEFINE padding(k) == [i \in 1..k |-> [verb |-> "NOOP", to |-> None]]
<1>1. PICK k \in 0..MaxLate : line' = padding(k)
    BY DEF Connect
<1>2. padding(k) \in Seq(Commands) /\ \A i \in 1..Len(padding(k)) : padding(k)[i].verb # "RCPT"
    BY <1>1, BoundsAssumption DEF Commands, Verbs
<1>3. ConnType'
    BY <1>1, <1>2 DEF ConnType, Connect
<1>4. DbType' /\ RoundType' /\ HistoryType'
    BY DbStays, RoundStays, HistoryStays DEF TInv, Connect, Programs, HistoryType
<1> QED  BY <1>3, <1>4, ConnStep DEF Connect

LEMMA UnreachableType == ASSUME TInv, Unreachable PROVE TInv'
<1>1. RoundType' /\ BounceType'
    BY BounceStays DEF TInv, RoundType, Unreachable, roundVars, Programs
<1> QED  BY <1>1, RoundStep DEF Unreachable, TInv, HistoryType

LEMMA FailUnreachedType == ASSUME TInv, NEW r \in Rows, FailUnreached(r) PROVE TInv'
<1>1. DbType' /\ mishaps' \in 0..MaxMishaps /\ touched' \subseteq Rows
    BY LogType DEF FailUnreached, TInv, RoundType
<1>2. RoundType' /\ ConnType' /\ HistoryType'
    BY <1>1, ConnStays, HistoryStays DEF TInv, RoundType, FailUnreached, roundVars
<1> QED  BY <1>1, <1>2, ConnStep DEF FailUnreached

LEMMA EndRemoteType == ASSUME TInv, EndRemote PROVE TInv'
<1>1. DbType' /\ HistoryType'
    BY DbStays, HistoryStays DEF TInv, EndRemote, HistoryType
<1>2. RoundType'
    BY DEF TInv, RoundType, EndRemote, roundVars, Programs
<1>3. ConnType'
    BY DEF ConnType, EndRemote, Closed
<1> QED  BY <1>1, <1>2, <1>3, ConnStep DEF EndRemote

LEMMA StartTransactionType == ASSUME TInv, StartTransaction PROVE TInv'
<1>1. PICK T \in {{}} \cup txs : Begin(T)
    BY DEF StartTransaction
<1>2. T \subseteq Rows
    BY <1>1 DEF TInv, RoundType
<1>3. txs' \subseteq SUBSET Rows /\ blank' \in Nat
    BY DEF TInv, RoundType, StartTransaction
<1>4. ConnType'
    BY <1>1, SendType DEF TInv, Begin, ConnType, Verbs
<1>5. RoundType'
    BY <1>1, <1>2, <1>3 DEF TInv, RoundType, Begin, roundVars, Programs, Statuses
<1>6. DbType' /\ HistoryType'
    BY <1>1, DbStays, HistoryStays DEF TInv, Begin, HistoryType
<1> QED  BY <1>1, <1>4, <1>5, <1>6, ConnStep DEF Begin

LEMMA ResetType ==
    ASSUME ConnType, NEW f \in BOOLEAN, Reset(f)
    PROVE  /\ pc' = "rset" /\ perm' \in BOOLEAN /\ line' \in Seq(Commands)
           /\ \A i \in 1..Len(line') : line'[i].verb = "RCPT" => line'[i].to \in Rows
BY SendType DEF Reset, Verbs

LEMMA MailAnsweredType == ASSUME TInv, MailAnswered PROVE TInv'
<1>1. PICK x \in Answers \cup {"none"} :
          /\ Read(x)
          /\ \/ pc' = "offer" /\ UNCHANGED <<perm, line>>
             \/ Reset(x = "perm")
    BY DEF MailAnswered
<1>2. /\ pc' \in {"offer", "rset"} /\ perm' \in BOOLEAN /\ line' \in Seq(Commands)
      /\ \A i \in 1..Len(line') : line'[i].verb = "RCPT" => line'[i].to \in Rows
    BY <1>1, ResetType DEF TInv, ConnType, RoundType
<1>3. ConnType'
    BY <1>1, <1>2, ReadType DEF TInv, ConnType, MailAnswered
<1>4. RoundType'
    BY <1>2 DEF TInv, RoundType, MailAnswered, roundVars, Programs
<1>5. DbType' /\ HistoryType'
    BY DbStays, HistoryStays DEF TInv, MailAnswered, HistoryType
<1> QED  BY <1>2, <1>3, <1>4, <1>5, ConnStep DEF MailAnswered

LEMMA OfferType == ASSUME TInv, NEW r \in Rows, Offer(r) PROVE TInv'
<1>1. /\ pc' \in {"offer", "rcpt"} /\ at' \in Rows \cup {None} /\ touched' \subseteq Rows
      /\ mishaps' \in 0..MaxMishaps
    BY MishapType DEF Offer, TInv, RoundType, HistoryType
<1>2. DOMAIN st' \subseteq Rows /\ \A q \in DOMAIN st' : st'[q] \in Statuses
    BY DEF Offer, TInv, RoundType, Statuses
<1>3. ConnType'
    BY SendType DEF Offer, TInv, ConnType, Verbs
<1>4. RoundType'
    BY <1>1, <1>2 DEF TInv, RoundType, Offer, roundVars, Programs
<1>5. DbType' /\ HistoryType'
    BY <1>1, DbStays, HistoryStays DEF TInv, Offer
<1> QED  BY <1>1, <1>3, <1>4, <1>5, ConnStep DEF Offer

LEMMA RcptAnsweredType == ASSUME TInv, RcptAnswered PROVE TInv'
<1>1. at \in Rows
    BY DEF RcptAnswered, TInv, RoundType
<1>2. PICK x \in Answers \cup {"none"} :
          /\ Read(x)
          /\ \/ st' = [st EXCEPT ![at] = "ok"] /\ UNCHANGED <<dbVars, touched, mishaps>>
             \/ st' = [st EXCEPT ![at] = "failed"] /\ Log(at, Refused(x))
          /\ doubt' = IF x \in {"none", "moved"} THEN doubt \cup {at} ELSE doubt
    BY DEF RcptAnswered
<1>3. DbType' /\ mishaps' \in 0..MaxMishaps /\ touched' \subseteq Rows
    <2>1. Refused(x) \in BOOLEAN
        BY DEF Refused
    <2>2. UNCHANGED notice
        BY DEF RcptAnswered
    <2>3. CASE UNCHANGED <<dbVars, touched, mishaps>>
        BY <2>2, <2>3, DbStays DEF TInv, RoundType, HistoryType
    <2>4. CASE Log(at, Refused(x))
        BY <1>1, <2>1, <2>2, <2>4, LogType
    <2> QED  BY <1>2, <2>3, <2>4
<1>4. DOMAIN st' \subseteq Rows /\ \A q \in DOMAIN st' : st'[q] \in Statuses
    BY <1>2 DEF TInv, RoundType, Statuses
<1>5. RoundType'
    BY <1>3, <1>4 DEF TInv, RoundType, RcptAnswered, roundVars, Programs
<1>6. ConnType'
    BY <1>2, ReadType DEF TInv, ConnType, RcptAnswered
<1>7. HistoryType'
    BY <1>1, <1>2, <1>3 DEF TInv, HistoryType, RcptAnswered
<1> QED  BY <1>3, <1>5, <1>6, <1>7, ConnStep DEF RcptAnswered

LEMMA AskForDataType == ASSUME TInv, AskForData PROVE TInv'
<1>1. \/ pc' = "data" /\ Send("DATA", None) /\ UNCHANGED perm
      \/ Reset(FALSE)
    BY DEF AskForData
<1>2. /\ pc' \in {"data", "rset"} /\ perm' \in BOOLEAN /\ line' \in Seq(Commands)
      /\ \A i \in 1..Len(line') : line'[i].verb = "RCPT" => line'[i].to \in Rows
    BY <1>1, ResetType, SendType DEF TInv, RoundType, Verbs
<1>3. ConnType'
    BY <1>2 DEF TInv, ConnType, AskForData
<1>4. RoundType'
    BY <1>2 DEF TInv, RoundType, AskForData, roundVars, Programs
<1>5. DbType' /\ HistoryType'
    BY DbStays, HistoryStays DEF TInv, AskForData, HistoryType
<1> QED  BY <1>2, <1>3, <1>4, <1>5, ConnStep DEF AskForData

LEMMA DataAnsweredType == ASSUME TInv, DataAnswered PROVE TInv'
<1>1. PICK x \in Answers \cup {"none"} :
          /\ Read(x)
          /\ \/ pc' = "dot" /\ Send("content", None) /\ UNCHANGED perm
             \/ pc' = "reject" /\ perm' = TRUE /\ UNCHANGED line
    BY DEF DataAnswered
<1>2. /\ pc' \in {"dot", "reject"} /\ perm' \in BOOLEAN /\ line' \in Seq(Commands)
      /\ \A i \in 1..Len(line') : line'[i].verb = "RCPT" => line'[i].to \in Rows
    BY <1>1, SendType DEF TInv, RoundType, ConnType, Verbs
<1>3. ConnType'
    BY <1>1, <1>2, ReadType DEF TInv, ConnType, DataAnswered
<1>4. RoundType'
    BY <1>2 DEF TInv, RoundType, DataAnswered, roundVars, Programs
<1>5. DbType' /\ HistoryType'
    BY DbStays, HistoryStays DEF TInv, DataAnswered, HistoryType
<1> QED  BY <1>2, <1>3, <1>4, <1>5, ConnStep DEF DataAnswered

LEMMA DotAnsweredType == ASSUME TInv, DotAnswered PROVE TInv'
<1>1. PICK x \in Answers \cup {"none"} :
          /\ Read(x)
          /\ \/ Reset(FALSE)
             \/ pc' = "reject" /\ perm' = Refused(x) /\ UNCHANGED line
          /\ doubt' = IF x = "none" THEN doubt \cup Having("ok") ELSE doubt
    BY DEF DotAnswered
<1>2. /\ pc' \in {"rset", "reject"} /\ perm' \in BOOLEAN /\ line' \in Seq(Commands)
      /\ \A i \in 1..Len(line') : line'[i].verb = "RCPT" => line'[i].to \in Rows
    BY <1>1, ResetType DEF TInv, RoundType, ConnType, Refused
<1>3. ConnType'
    BY <1>1, <1>2, ReadType DEF TInv, ConnType, DotAnswered
<1>4. RoundType'
    BY <1>2 DEF TInv, RoundType, DotAnswered, roundVars, Programs
<1>5. DbType'
    BY DbStays DEF TInv, DotAnswered
<1>6. HistoryType'
    BY <1>1 DEF TInv, RoundType, HistoryType, DotAnswered, Having
<1> QED  BY <1>2, <1>3, <1>4, <1>5, <1>6, ConnStep DEF DotAnswered

LEMMA RejectRowType == ASSUME TInv, NEW r \in Rows, RejectRow(r) PROVE TInv'
<1>1. DbType' /\ mishaps' \in 0..MaxMishaps /\ touched' \subseteq Rows
    BY LogType DEF RejectRow, TInv, RoundType
<1>2. DOMAIN st' \subseteq Rows /\ \A q \in DOMAIN st' : st'[q] \in Statuses
    BY DEF RejectRow, TInv, RoundType, Statuses
<1>3. RoundType'
    BY <1>1, <1>2 DEF TInv, RoundType, RejectRow, roundVars
<1>4. ConnType' /\ HistoryType'
    BY <1>1, ConnStays, HistoryStays DEF TInv, RejectRow
<1> QED  BY <1>1, <1>3, <1>4, ConnStep DEF RejectRow

LEMMA RejectedType == ASSUME TInv, Rejected PROVE TInv'
<1>1. /\ pc' = "rset" /\ perm' \in BOOLEAN /\ line' \in Seq(Commands)
      /\ \A i \in 1..Len(line') : line'[i].verb = "RCPT" => line'[i].to \in Rows
    BY ResetType DEF Rejected, TInv, RoundType
<1>2. ConnType'
    BY <1>1 DEF TInv, ConnType, Rejected
<1>3. RoundType'
    BY <1>1 DEF TInv, RoundType, Rejected, roundVars, Programs
<1>4. DbType' /\ HistoryType'
    BY DbStays, HistoryStays DEF TInv, Rejected, HistoryType
<1> QED  BY <1>1, <1>2, <1>3, <1>4, ConnStep DEF Rejected

LEMMA ResetAnsweredType == ASSUME TInv, ResetAnswered PROVE TInv'
<1>1. ConnType'
    BY ReadType DEF TInv, ConnType, ResetAnswered
<1>2. RoundType'
    BY DEF TInv, RoundType, ResetAnswered, roundVars, Programs
<1>3. DbType' /\ HistoryType'
    BY DbStays, HistoryStays DEF TInv, ResetAnswered, HistoryType
<1> QED  BY <1>1, <1>2, <1>3, ConnStep DEF ResetAnswered

LEMMA SettleType == ASSUME TInv, NEW r \in Rows, Settle(r) PROVE TInv'
<1>1. DbType' /\ mishaps' \in 0..MaxMishaps /\ touched' \subseteq Rows
    BY LogType, DeleteType DEF Settle, TInv, RoundType
<1>2. RoundType'
    BY <1>1 DEF TInv, RoundType, Settle, roundVars
<1>3. ConnType'
    BY ConnStays DEF TInv, Settle
<1>4. HistoryType'
    BY <1>1 DEF TInv, DbType, HistoryType, Settle
<1> QED  BY <1>1, <1>2, <1>3, <1>4, ConnStep DEF Settle

LEMMA EndTransactionType == ASSUME TInv, EndTransaction PROVE TInv'
<1>1. DOMAIN st' = {}
    BY DEF EndTransaction
<1>2. RoundType' /\ BounceType'
    BY <1>1, BounceStays DEF TInv, RoundType, EndTransaction, roundVars, Programs
<1> QED  BY <1>2, RoundStep DEF EndTransaction, TInv, HistoryType

LEMMA StartBouncesType == ASSUME TInv, StartBounces PROVE TInv'
<1>1. cands' \subseteq Rows /\ mishaps' \in 0..MaxMishaps
    BY ResultType DEF StartBounces, TInv, DbType, Candidates
<1>2. RoundType' /\ BounceType'
    BY <1>1 DEF TInv, RoundType, BounceType, StartBounces, Programs
<1> QED  BY <1>1, <1>2, RoundStep DEF StartBounces

LEMMA GiveUpType == ASSUME TInv, NEW n \in Rows, GiveUp(n) PROVE TInv'
<1>1. DbType' /\ mishaps' \in 0..MaxMishaps
    BY DeleteType DEF GiveUp, TInv
<1>2. RoundType' /\ BounceType'
    BY DEF TInv, RoundType, BounceType, GiveUp, roundVars
<1>3. ConnType' /\ HistoryType'
    BY <1>1, ConnStays, HistoryStays DEF TInv, GiveUp
<1> QED  BY <1>1, <1>2, <1>3 DEF TInv

LEMMA ComposeType == ASSUME TInv, NEW m \in Rows, Compose(m) PROVE TInv'
<1>1. RoundType'
    BY DEF TInv, RoundType, Compose, roundVars, Programs, Rows
<1>2. BounceType'
    BY DEF TInv, BounceType, Compose
<1> QED  BY <1>1, <1>2, RoundStep DEF Compose, TInv, HistoryType

LEMMA InsertedType ==
    ASSUME TInv, pc = "notify", NEW n \in Unused, Inserted(n)
    PROVE  /\ notice' \in [Notices -> NoticeText \cup {None}]
           /\ \A q \in Notices : notice'[q] # None <=> notice[q] # None \/ q = n
           /\ outbox' = outbox \cup {n} /\ text' \in Notices
<1> DEFINE txt == [to |-> Addressee, about |-> draft, first |-> text']
<1>1. Addressee \in Addresses
    BY TablesAssumption DEF TInv, BounceType, Addressee
<1>2. text' \in Notices
    BY DEF TInv, BounceType, Inserted, Unused
<1>3. txt \in NoticeText
    BY <1>1, <1>2 DEF TInv, BounceType, NoticeText
<1>4. notice' = [notice EXCEPT ![n] = txt] /\ outbox' = outbox \cup {n}
    BY DEF Inserted
<1> HIDE DEF txt
<1>5. txt # None
    BY <1>3, NoticeAssumption
<1> QED  BY <1>2, <1>3, <1>4, <1>5 DEF TInv, DbType, Unused

LEMMA InsertNoticeType == ASSUME TInv, InsertNotice PROVE TInv'
<1>1. DbType' /\ BounceType' /\ mishaps' \in 0..MaxMishaps
    <2>1. CASE Unused # {} /\ Inserted(NextId) /\ UNCHANGED <<sound, mishaps>>
        <3>1. NextId \in Unused
            BY <2>1 DEF NextId, Unused
        <3>2. /\ notice' \in [Notices -> NoticeText \cup {None}]
              /\ \A q \in Notices : notice'[q] # None <=> notice[q] # None \/ q = NextId
              /\ outbox' = outbox \cup {NextId} /\ text' \in Notices
            BY <2>1, <3>1, InsertedType DEF InsertNotice
        <3>3. DbType'
            BY <3>1, <3>2 DEF InsertNotice, TInv, DbType, Rows, Unused
        <3>4. BounceType'
            BY <2>1, <3>2 DEF InsertNotice, TInv, BounceType
        <3> QED  BY <2>1, <3>3, <3>4 DEF TInv, HistoryType
    <2>2. CASE Mishap("insert") /\ sound' = FALSE /\ UNCHANGED <<notice, outbox, text>>
        <3>1. DbType'
            BY <2>2 DEF InsertNotice, TInv, DbType
        <3>2. BounceType'
            BY <2>2 DEF InsertNotice, TInv, BounceType
        <3> QED  BY <2>2, <3>1, <3>2, MishapType DEF TInv
    <2> QED  BY <2>1, <2>2 DEF InsertNotice
<1>2. RoundType'
    BY DEF InsertNotice, TInv, RoundType, roundVars, Programs
<1>3. ConnType' /\ HistoryType'
    BY <1>1, ConnStays, HistoryStays DEF TInv, InsertNotice
<1> QED  BY <1>1, <1>2, <1>3 DEF TInv

LEMMA BouncedType == ASSUME TInv, Bounced PROVE TInv'
<1>1. DbType' /\ mishaps' \in 0..MaxMishaps
    <2>1. at \in Rows /\ UNCHANGED notice
        BY DEF Bounced, TInv, BounceType, Rows
    <2>2. Delete(at) \/ UNCHANGED <<dbVars, mishaps>>
        BY DEF Bounced
    <2> QED  BY <2>1, <2>2, DeleteType, DbStays DEF TInv, HistoryType
<1>2. RoundType' /\ BounceType'
    BY DEF TInv, RoundType, BounceType, Bounced, roundVars, Programs
<1>3. ConnType'
    BY ConnStays DEF TInv, Bounced
<1>4. HistoryType'
    BY <1>1 DEF TInv, DbType, HistoryType, Bounced
<1> QED  BY <1>1, <1>2, <1>3, <1>4 DEF TInv

LEMMA RestType == ASSUME TInv, Rest PROVE TInv'
<1>1. RoundType' /\ BounceType'
    BY DEF TInv, RoundType, BounceType, Rest, Programs
<1> QED  BY <1>1, RoundStep DEF Rest, TInv, HistoryType

LEMMA CrashType == ASSUME TInv, Crash PROVE TInv'
<1>1. mishaps' \in 0..MaxMishaps
    BY MishapType DEF Crash, TInv, HistoryType
<1>2. DOMAIN st' = {}
    BY DEF Crash
<1>3. RoundType' /\ BounceType'
    <2>1. RoundType'
        BY <1>2 DEF Crash, RoundType, Programs
    <2>2. BounceType'
        BY TablesAssumption DEF Crash, BounceType
    <2> QED  BY <2>1, <2>2
<1>4. ConnType'
    BY DEF Crash, Closed, ConnType
<1>5. DbType'
    BY DbStays DEF TInv, Crash
<1>6. HistoryType'
    BY <1>1 DEF Crash, TInv, RoundType, HistoryType, Having
<1> QED  BY <1>3, <1>4, <1>5, <1>6 DEF TInv

LEMMA ServeType == ASSUME TInv, Serve PROVE TInv'
<1>1. Head(line) \in Commands /\ (Head(line).verb = "RCPT" => Head(line).to \in Rows)
    BY DEF Serve, TInv, ConnType
<1>2. /\ line' \in Seq(Commands)
      /\ \A i \in 1..Len(line') : line'[i].verb = "RCPT" => line'[i].to \in Rows
    <2>1. line' = Tail(line) /\ line # <<>>
        BY DEF Serve
    <2>2. line' \in Seq(Commands) /\ Len(line') = Len(line) - 1
        BY <2>1 DEF TInv, ConnType
    <2>3. \A i \in 1..Len(line') : line'[i] = line[i + 1] /\ i + 1 \in 1..Len(line)
        BY <2>1, <2>2 DEF TInv, ConnType
    <2> QED  BY <2>2, <2>3 DEF TInv, ConnType
<1>3. /\ back' \in Seq(Answers) /\ rcpts' \subseteq Rows
      /\ phase' \in {"gone", "idle", "mail", "data"} /\ taken' \in [Rows -> 0..2]
    <2>1. \A x \in Answers : Append(back, x) \in Seq(Answers)
        BY DEF TInv, ConnType
    <2>2. Served \in [Rows -> 0..2]
        BY DEF Served, TInv, HistoryType
    <2>3. Refusals \subseteq Answers /\ {"ok", "go", "moved"} \subseteq Answers
        BY DEF Refusals, Answers
    <2>4. OnContent \/ OnMail \/ OnRcpt \/ OnData \/ OnReset
        BY DEF Serve
    <2>5. CASE OnContent
        BY <2>1, <2>2, <2>3, <2>5 DEF OnContent, Answer, TInv, ConnType, HistoryType
    <2>6. CASE OnMail
        BY <2>1, <2>3, <2>6 DEF OnMail, Answer, TInv, ConnType, HistoryType
    <2>7. CASE OnRcpt
        BY <1>1, <2>1, <2>3, <2>7 DEF OnRcpt, Answer, TInv, ConnType, HistoryType
    <2>8. CASE OnData
        BY <2>1, <2>3, <2>8 DEF OnData, Answer, TInv, ConnType, HistoryType
    <2>9. CASE OnReset
        BY <2>1, <2>3, <2>9 DEF OnReset, Answer, TInv, ConnType, HistoryType
    <2> QED  BY <2>4, <2>5, <2>6, <2>7, <2>8, <2>9
<1>4. ConnType'
    BY <1>2, <1>3 DEF ConnType
<1>5. DbType' /\ RoundType'
    BY DbStays DEF Serve, Untouched, TInv, RoundType, roundVars
<1>6. BounceType' /\ HistoryType'
    BY <1>3 DEF Serve, Untouched, TInv, BounceType, HistoryType, bounceVars
<1> QED  BY <1>4, <1>5, <1>6 DEF TInv

LEMMA DropType == ASSUME TInv, Drop PROVE TInv'
<1>1. ConnType'
    <2>1. line' = <<>> /\ rcpts' = {} /\ phase' = "gone" /\ (back' = back \/ back' = <<>>)
        BY DEF Drop
    <2>2. CASE back' = back
        BY <2>1, <2>2 DEF TInv, ConnType
    <2>3. CASE back' = <<>>
        BY <2>1, <2>3 DEF ConnType
    <2> QED  BY <2>1, <2>2, <2>3
<1>2. DbType' /\ RoundType'
    BY DbStays DEF Drop, Untouched, TInv, RoundType, roundVars
<1>3. BounceType' /\ HistoryType'
    BY DEF Drop, Untouched, TInv, BounceType, HistoryType, bounceVars
<1> QED  BY <1>1, <1>2, <1>3 DEF TInv

\* What other processes do to the tables
LEMMA ForeignStep ==
    ASSUME TInv, DbType', HistoryType',
           UNCHANGED <<pc, roundVars, txs, blank, st, left, at, perm, connVars, bounceVars,
                       seen, touched>>
    PROVE  TInv'
<1>1. RoundType' /\ ConnType'
    BY ConnStays DEF TInv, RoundType, roundVars
<1>2. BounceType'
    BY DEF TInv, BounceType, bounceVars
<1> QED  BY <1>1, <1>2 DEF TInv

LEMMA QueueType == ASSUME TInv, NEW m \in Mails, Queue(m) PROVE TInv'
<1>1. DbType'
    BY RowsAssumption DEF Queue, TInv, DbType, Rows
<1>2. HistoryType'
    BY DEF Queue, TInv, HistoryType
<1> QED  BY <1>1, <1>2, ForeignStep DEF Queue

LEMMA ElapseType == ASSUME TInv, NEW r \in Rows, Elapse(r) PROVE TInv'
<1>1. DbType' /\ HistoryType'
    BY DEF Elapse, TInv, DbType, HistoryType, history
<1> QED  BY <1>1, ForeignStep DEF Elapse

\* What another dispatchd does to the tables about a row it has at hand: it takes
\* it away, puts an entry into the faillog, or writes a notice.
LEMMA ElsewhereTables ==
    ASSUME TInv, NEW r \in Rows, Elsewhere(r)
    PROVE  /\ UNCHANGED <<arrived, pc, roundVars, txs, blank, st, left, at, perm, connVars,
                          bounceVars, seen, touched>>
           /\ r \in outbox /\ pc \notin {"rcpt", "bounce", "notify", "judge"}
           /\ \/ TakenElsewhere(r)
              \/ FailedElsewhere(r)
              \/ r \in Notices /\ Removed(r) /\ UNCHANGED <<notice, doubt, taken>>
              \/ \E n \in Notices, e \in NoticeText :
                    /\ r \in Mails /\ n \notin outbox /\ notice[n] = None
                    /\ e.to = SenderOf[r] /\ e.about = {r}
                    /\ notice' = [notice EXCEPT ![n] = e]
                    /\ \/ outbox' = (outbox \cup {n}) \ {r} /\ Forgotten(r)
                       \/ outbox' = outbox \cup {n} /\ UNCHANGED <<fails, fatal, waiting>>
                    /\ doubt' = doubt \cup {r} /\ UNCHANGED taken
<1>1. /\ UNCHANGED <<arrived, pc, roundVars, txs, blank, st, left, at, perm, connVars,
                     bounceVars, seen, touched>>
      /\ r \in outbox /\ pc \notin {"rcpt", "bounce", "notify", "judge"}
      /\ TakenElsewhere(r) \/ FailedElsewhere(r) \/ BouncedElsewhere(r)
    BY DEF Elsewhere, Unlocked
<1>2. CASE BouncedElsewhere(r) /\ r \in Mails
    <2> DEFINE e == [to |-> SenderOf[r], about |-> {r}, first |-> NextId]
    <2>1. Unused # {}
        BY <1>2, RowsAssumption DEF BouncedElsewhere
    <2>2. NextId \in Notices /\ NextId \in Unused
        BY <2>1 DEF NextId, Unused
    <2>3. NextId \notin outbox /\ notice[NextId] = None
        BY <2>2 DEF Unused, TInv, DbType
    <2>4. e \in NoticeText /\ e.to = SenderOf[r] /\ e.about = {r}
        BY <1>2, <2>2, TablesAssumption DEF NoticeText
    <2>5. /\ notice' = [notice EXCEPT ![NextId] = e]
          /\ \/ outbox' = (outbox \cup {NextId}) \ {r} /\ Forgotten(r)
             \/ outbox' = outbox \cup {NextId} /\ UNCHANGED <<fails, fatal, waiting>>
          /\ doubt' = doubt \cup {r} /\ UNCHANGED taken
        BY <1>2, RowsAssumption DEF BouncedElsewhere
    <2> HIDE DEF e
    <2> QED  BY <1>1, <1>2, <2>2, <2>3, <2>4, <2>5
<1>3. CASE BouncedElsewhere(r) /\ r \notin Mails
    BY <1>1, <1>3 DEF BouncedElsewhere
<1> QED  BY <1>1, <1>2, <1>3

LEMMA EntryType ==
    ASSUME DbType, NEW r \in outbox, NEW f \in BOOLEAN, Entry(r, f), UNCHANGED <<outbox, notice>>
    PROVE  DbType'
<1>1. fails' \in [Rows -> 0..Retries]
    BY BoundsAssumption DEF DbType, Entry
<1> QED  BY <1>1 DEF DbType, Entry

LEMMA ForgottenType ==
    ASSUME DbType, NEW r \in Rows, Forgotten(r)
    PROVE  /\ fails' \in [Rows -> 0..Retries]
           /\ fatal' \subseteq outbox \ {r} /\ waiting' \subseteq outbox \ {r}
<1>1. fails' \in [Rows -> 0..Retries]
    BY BoundsAssumption DEF DbType, Forgotten
<1> QED  BY <1>1 DEF DbType, Forgotten

LEMMA ElsewhereType == ASSUME TInv, NEW r \in Rows, Elsewhere(r) PROVE TInv'
<1>1. DbType /\ HistoryType /\ r \in outbox
    BY ElsewhereTables DEF TInv
<1>2. mishaps' \in 0..MaxMishaps
    BY MishapType DEF Elsewhere, TInv
<1>3. HistoryType'
    BY <1>2, ElsewhereTables
       DEF TakenElsewhere, FailedElsewhere, AlsoTaken, TInv, HistoryType
<1>4. DbType'
    <2>1. CASE TakenElsewhere(r)
        BY <1>1, <2>1, RemovedType, DbStays DEF TakenElsewhere
    <2>2. CASE FailedElsewhere(r)
        BY <1>1, <2>2, EntryType DEF FailedElsewhere
    <2>3. CASE Removed(r) /\ UNCHANGED notice
        BY <1>1, <2>3, RemovedType
    <2>4. ASSUME NEW n \in Notices, NEW e \in NoticeText, notice' = [notice EXCEPT ![n] = e],
                 \/ outbox' = (outbox \cup {n}) \ {r} /\ Forgotten(r)
                 \/ outbox' = outbox \cup {n} /\ UNCHANGED <<fails, fatal, waiting>>
          PROVE  DbType'
        <3>1. /\ notice' \in [Notices -> NoticeText \cup {None}]
              /\ \A q \in Notices : notice'[q] = IF q = n THEN e ELSE notice[q]
            BY <1>1, <2>4 DEF DbType
        <3>2. \A q \in Notices \cap outbox' : notice'[q] # None
            BY <1>1, <2>4, <3>1, NoticeAssumption DEF DbType
        <3>3. /\ fails' \in [Rows -> 0..Retries]
              /\ outbox' \subseteq Rows /\ fatal' \subseteq outbox' /\ waiting' \subseteq outbox'
            BY <1>1, <2>4, ForgottenType DEF DbType, Rows
        <3> QED  BY <3>1, <3>2, <3>3 DEF DbType
    <2> QED  BY <2>1, <2>2, <2>3, <2>4, ElsewhereTables
<1> QED  BY <1>3, <1>4, ElsewhereTables, ForeignStep

LEMMA NextType == ASSUME TInv, [Next]_vars PROVE TInv'
<1>1. CASE Delivery
    BY <1>1, SkipType, HandleRemoteType, ConnectType, UnreachableType, EndRemoteType,
       FailUnreachedType DEF Delivery
<1>2. CASE Transaction
    BY <1>2, StartTransactionType, MailAnsweredType, AskForDataType, DataAnsweredType,
       DotAnsweredType, RejectedType, ResetAnsweredType, EndTransactionType, RcptAnsweredType,
       OfferType, RejectRowType, SettleType DEF Transaction
<1>3. CASE Bouncing
    BY <1>3, GiveUpType, ComposeType, InsertNoticeType, BouncedType, RestType DEF Bouncing
<1>4. CASE Environment
    BY <1>4, ServeType, DropType, QueueType, ElapseType, ElsewhereType DEF Environment
<1>5. CASE StartRound \/ Called \/ Crash
    BY <1>5, StartRoundType, StartBouncesType, StartOnceType, CrashType DEF Called
<1>6. CASE UNCHANGED vars
    <2>1. DbType' /\ RoundType' /\ ConnType'
        BY <1>6, DbStays, ConnStays DEF vars, TInv, RoundType, roundVars
    <2>2. BounceType' /\ HistoryType'
        BY <1>6, HistoryStays DEF vars, TInv, BounceType, bounceVars, HistoryType
    <2> QED  BY <2>1, <2>2 DEF TInv
<1> QED  BY <1>1, <1>2, <1>3, <1>4, <1>5, <1>6 DEF Next

LEMMA Typed == Spec => []TInv
BY InitType, NextType, PTL DEF Spec

\* Every reachable state of dispatchd is well typed: rows with entries in the
\* faillog are in the outbox, notices are complete, and nothing but rows is
\* delivered, logged or bounced (logic.c, mail.c).
THEOREM TypeCorrect == Spec => []TypeOK
<1>1. TInv => TypeOK
    BY DEF TInv, DbType, RoundType, ConnType, BounceType, HistoryType, TypeOK
<1> QED  BY <1>1, Typed, PTL

----------------------------------------------------------------------------
(* The content of a mail is sent to a server that waits for it             *)

(* Whatever is late, lost or overwritten, there is one 354 on its way at   *)
(* most, the server waits for the content from the 354 until it has it,    *)
(* and the content follows the 354 the client has read.                    *)
Goes(s) == {i \in 1..Len(s) : s[i] = "go"}
Contents(s) == {i \in 1..Len(s) : s[i].verb = "content"}
AtMostOne(S) == \A i, j \in S : i = j

ContentInv ==
    /\ AtMostOne(Goes(back)) /\ AtMostOne(Contents(line))
    /\ Goes(back) # {} => phase \in {"data", "gone"} /\ Contents(line) = {}
    /\ Contents(line) # {} => phase = "data"

LEMMA GoesSuffix ==
    ASSUME NEW s \in Seq(Answers), NEW k \in 2..(Len(s) + 1), NEW t,
           t = SubSeq(s, k, Len(s)), AtMostOne(Goes(s))
    PROVE  /\ AtMostOne(Goes(t)) /\ (Goes(t) # {} => Goes(s) # {})
           /\ s # <<>> /\ Head(s) = "go" => Goes(s) # {} /\ Goes(t) = {}
<1>1. /\ Len(t) = Len(s) - k + 1
      /\ \A i \in 1..Len(t) : i + k - 1 \in 1..Len(s) /\ t[i] = s[i + k - 1]
    OBVIOUS
<1>2. \A i \in Goes(t) : i \in Nat /\ i + k - 1 \in Goes(s) /\ i + k - 1 # 1
    BY <1>1 DEF Goes
<1>3. AtMostOne(Goes(t)) /\ (Goes(t) # {} => Goes(s) # {})
    BY <1>2 DEF AtMostOne
<1>4. ASSUME s # <<>>, Head(s) = "go" PROVE Goes(s) # {} /\ Goes(t) = {}
    <2>1. 1 \in Goes(s)
        BY <1>4 DEF Goes
    <2> QED  BY <1>2, <2>1 DEF AtMostOne
<1> QED  BY <1>3, <1>4

LEMMA ReadGoes ==
    ASSUME ConnType, ContentInv, NEW x, Read(x)
    PROVE  /\ AtMostOne(Goes(back')) /\ (Goes(back') # {} => Goes(back) # {})
           /\ x = "go" => Goes(back) # {} /\ Goes(back') = {}
<1>1. CASE UNCHANGED back /\ x = "none"
    BY <1>1 DEF ContentInv
<1>2. CASE /\ back # <<>> /\ x \in {Head(back), "none"}
           /\ \E k \in 2..(Len(back) + 1) : back' = SubSeq(back, k, Len(back))
    BY <1>2, GoesSuffix DEF ConnType, ContentInv
<1>3. CASE back # <<>> /\ x \in {Head(back), "none"} /\ back' = Tail(back)
    <2>1. back' = SubSeq(back, 2, Len(back)) /\ 2 \in 2..(Len(back) + 1)
        BY <1>3 DEF ConnType
    <2> QED  BY <1>2, <1>3, <2>1
<1> QED  BY <1>1, <1>2, <1>3 DEF Read, ConnType

LEMMA SendContents ==
    ASSUME ConnType, NEW v, NEW r, Send(v, r)
    PROVE  IF v = "content" /\ phase # "gone"
           THEN Contents(line') = Contents(line) \cup {Len(line) + 1}
           ELSE Contents(line') = Contents(line)
<1>1. CASE phase = "gone"
    BY <1>1 DEF Send
<1>2. CASE phase # "gone"
    <2> DEFINE e == [verb |-> v, to |-> r]
    <2>1. line' = Append(line, e) /\ e.verb = v
        BY <1>2 DEF Send
    <2> HIDE DEF e
    <2>2. /\ Len(line') = Len(line) + 1 /\ Len(line) \in Nat
          /\ \A i \in 1..Len(line') : line'[i] = IF i <= Len(line) THEN line[i] ELSE e
        BY <2>1 DEF ConnType
    <2> QED  BY <1>2, <2>1, <2>2 DEF Contents
<1> QED  BY <1>1, <1>2

LEMMA ContentsTail ==
    ASSUME ConnType, line # <<>>, AtMostOne(Contents(line)), line' = Tail(line)
    PROVE  /\ AtMostOne(Contents(line')) /\ (Contents(line') # {} => Contents(line) # {})
           /\ Head(line).verb = "content" => Contents(line) # {} /\ Contents(line') = {}
<1>1. /\ Len(line') = Len(line) - 1 /\ Len(line) \in Nat \ {0}
      /\ \A i \in 1..Len(line') : line'[i] = line[i + 1]
    BY DEF ConnType
<1>2. \A i \in Contents(line') : i \in Nat /\ i + 1 \in Contents(line) /\ i + 1 # 1
    BY <1>1 DEF Contents
<1>3. AtMostOne(Contents(line')) /\ (Contents(line') # {} => Contents(line) # {})
    BY <1>2 DEF AtMostOne
<1>4. ASSUME Head(line).verb = "content" PROVE 1 \in Contents(line)
    BY <1>1, <1>4 DEF Contents, ConnType
<1> QED  BY <1>2, <1>3, <1>4 DEF AtMostOne

LEMMA EmptyContents == Goes(<<>>) = {} /\ Contents(<<>>) = {}
BY DEF Goes, Contents

\* Steps of the client that send no content
LEMMA ClientStep ==
    ASSUME ConnType, ContentInv, UNCHANGED phase,
           UNCHANGED back \/ \E x \in Answers \cup {"none"} : Read(x),
           UNCHANGED line \/ \E v \in Verbs \ {"content"}, r \in Rows \cup {None} : Send(v, r)
    PROVE  ContentInv'
<1>1. Contents(line') = Contents(line)
    BY SendContents
<1>2. AtMostOne(Goes(back')) /\ (Goes(back') # {} => Goes(back) # {})
    BY ReadGoes DEF ContentInv
<1> QED  BY <1>1, <1>2 DEF ContentInv

LEMMA ClosedContent ==
    ASSUME back' = <<>> \/ back' = back, line' = <<>>, phase' = "gone", ContentInv
    PROVE  ContentInv'
BY EmptyContents DEF ContentInv, AtMostOne

LEMMA TransactionContent ==
    ASSUME TInv, ContentInv, Transaction
    PROVE  ContentInv'
<1> USE DEF TInv
<1>1. CASE StartTransaction
    BY <1>1, ClientStep DEF StartTransaction, Begin, Verbs
<1>2. CASE MailAnswered
    BY <1>2, ClientStep DEF MailAnswered, Reset, Verbs
<1>3. CASE AskForData
    BY <1>3, ClientStep DEF AskForData, Reset, Verbs
<1>4. CASE DataAnswered
    <2>1. PICK x \in Answers \cup {"none"} :
              /\ Read(x)
              /\ \/ x = "go" /\ Send("content", None)
                 \/ UNCHANGED line
        BY <1>4 DEF DataAnswered
    <2>2. UNCHANGED phase
        BY <1>4 DEF DataAnswered
    <2>3. CASE x = "go" /\ Send("content", None)
        <3>1. Goes(back) # {} /\ Goes(back') = {}
            BY <2>1, <2>3, ReadGoes
        <3>2. phase \in {"data", "gone"} /\ Contents(line) = {}
            BY <3>1 DEF ContentInv
        <3>3. Contents(line') = IF phase = "gone" THEN {} ELSE {Len(line) + 1}
            BY <2>3, <3>2, SendContents
        <3> QED  BY <2>2, <3>1, <3>2, <3>3 DEF ContentInv, AtMostOne
    <2>4. CASE UNCHANGED line
        BY <2>1, <2>2, <2>4, ClientStep
    <2> QED  BY <2>1, <2>3, <2>4
<1>5. CASE DotAnswered
    BY <1>5, ClientStep DEF DotAnswered, Reset, Verbs
<1>6. CASE Rejected \/ ResetAnswered \/ EndTransaction \/ RcptAnswered
    BY <1>6, ClientStep DEF Rejected, ResetAnswered, EndTransaction, RcptAnswered, Reset, Verbs,
                            connVars
<1>7. ASSUME NEW r \in Rows, Offer(r) \/ RejectRow(r) \/ Settle(r)
      PROVE  ContentInv'
    BY <1>7, ClientStep DEF Offer, RejectRow, Settle, Verbs, connVars
<1> QED  BY <1>1, <1>2, <1>3, <1>4, <1>5, <1>6, <1>7 DEF Transaction

LEMMA ConnectContent ==
    ASSUME Connect
    PROVE  ContentInv'
<1>1. PICK k \in 0..MaxLate : line' = [i \in 1..k |-> [verb |-> "NOOP", to |-> None]]
    BY DEF Connect
<1>2. Contents(line') = {}
    BY <1>1, BoundsAssumption DEF Contents
<1>3. Goes(back') = {}
    BY EmptyContents DEF Connect
<1> QED  BY <1>2, <1>3 DEF ContentInv, AtMostOne

\* The server answers a line
LEMMA AnswerGoes ==
    ASSUME ConnType, NEW x \in Answers, Answer(x)
    PROVE  /\ x # "go" => Goes(back') = Goes(back)
           /\ x = "go" => Goes(back') = Goes(back) \cup {Len(back) + 1}
<1>1. /\ Len(back') = Len(back) + 1 /\ Len(back) \in Nat
      /\ \A i \in 1..Len(back') : back'[i] = IF i <= Len(back) THEN back[i] ELSE x
    BY DEF Answer, ConnType
<1> QED  BY <1>1 DEF Goes

LEMMA ServeContent ==
    ASSUME TInv, ContentInv, Serve
    PROVE  ContentInv'
<1>1. ConnType
    BY DEF TInv
<1>2. /\ AtMostOne(Contents(line')) /\ (Contents(line') # {} => Contents(line) # {})
      /\ Head(line).verb = "content" => Contents(line) # {} /\ Contents(line') = {}
    BY <1>1, ContentsTail DEF Serve, ContentInv
<1>3. Refusals \subseteq Answers \ {"go"} /\ {"ok", "go", "moved"} \subseteq Answers
    BY DEF Refusals, Answers
<1>4. CASE phase = "data"
    <2>1. CASE Head(line).verb # "content" /\ UNCHANGED <<back, phase>>
        BY <1>2, <2>1 DEF ContentInv
    <2>2. CASE Head(line).verb = "content" /\ \E x \in Answers \ {"go"} : Answer(x)
        <3>1. Goes(back') = Goes(back)
            BY <1>1, <2>2, AnswerGoes
        <3> QED  BY <1>2, <2>2, <3>1 DEF ContentInv
    <2> QED  BY <1>3, <1>4, <2>1, <2>2 DEF Serve, OnContent
<1>5. CASE phase # "data"
    <2>1. Goes(back) = {} /\ Contents(line) = {}
        BY <1>5 DEF ContentInv, Serve
    <2>2. CASE \E x \in Answers \ {"go"} : Answer(x)
        <3>1. Goes(back') = {}
            BY <1>1, <2>1, <2>2, AnswerGoes
        <3> QED  BY <1>2, <2>1, <3>1 DEF ContentInv, AtMostOne
    <2>3. CASE Answer("go") /\ phase' = "data"
        <3>1. Goes(back') = {Len(back) + 1}
            BY <1>1, <1>3, <2>1, <2>3, AnswerGoes
        <3> QED  BY <1>2, <2>1, <2>3, <3>1 DEF ContentInv, AtMostOne
    <2> QED  BY <1>3, <1>5, <2>2, <2>3 DEF Serve, OnMail, OnRcpt, OnData, OnReset
<1> QED  BY <1>4, <1>5

LEMMA NextContent ==
    ASSUME TInv, ContentInv, [Next]_vars
    PROVE  ContentInv'
<1>1. CASE UNCHANGED connVars
    BY <1>1 DEF ContentInv, connVars
<1>2. CASE Delivery
    <2>1. CASE Connect
        BY <2>1, ConnectContent
    <2>2. CASE EndRemote
        BY <2>2, ClosedContent DEF EndRemote, Closed
    <2>3. CASE Unreachable \/ \E h \in Remotes : Skip(h) \/ HandleRemote(h)
        BY <1>1, <2>3 DEF Unreachable, Skip, HandleRemote
    <2>4. CASE \E r \in Rows : FailUnreached(r)
        BY <1>1, <2>4 DEF FailUnreached
    <2> QED  BY <1>2, <2>1, <2>2, <2>3, <2>4 DEF Delivery
<1>3. CASE Bouncing
    BY <1>1, <1>3 DEF Bouncing, GiveUp, Compose, InsertNotice, Bounced, Rest
<1>4. CASE StartRound \/ Called
    BY <1>1, <1>4 DEF StartRound, Called, StartOnce, StartBounces
<1>5. CASE Crash
    BY <1>5, ClosedContent DEF Crash, Closed
<1>6. CASE Environment
    <2>1. CASE Serve
        BY <2>1, ServeContent
    <2>2. CASE Drop
        BY <2>2, ClosedContent DEF Drop
    <2>3. CASE (\E m \in Mails : Queue(m)) \/ (\E r \in Rows : Elapse(r) \/ Elsewhere(r))
        BY <1>1, <2>3 DEF Queue, Elapse, Elsewhere
    <2> QED  BY <1>6, <2>1, <2>2, <2>3 DEF Environment
<1>7. CASE UNCHANGED vars
    BY <1>1, <1>7 DEF vars
<1> QED  BY <1>2, <1>3, <1>4, <1>5, <1>6, <1>7, TransactionContent DEF Next

\* Lines of a mail are never read as commands, however late answers come and
\* whatever is lost or overwritten: smtp_data sends the content behind a 354 only,
\* and no 354 is taken for another.
THEOREM ContentSafety == Spec => []ContentIsContent
<1>1. Init => ContentInv
    BY EmptyContents DEF Init, ContentInv, AtMostOne
<1>2. TInv /\ ContentInv => ContentIsContent
    BY DEF TInv, ConnType, ContentInv, Contents, ContentIsContent
<1>3. TInv /\ ContentInv /\ [Next]_vars => ContentInv'
    BY NextContent
<1> QED  BY <1>1, <1>2, <1>3, Typed, PTL DEF Spec

----------------------------------------------------------------------------
(* What is on its way between the client and the server                    *)

(* The client may give up on answers that then come after all, so that it  *)
(* takes them for answers to later commands.  Up to three may be late, and *)
(* each must come in a piece of its own.                                   *)
Patient == MaxLate <= 3 /\ (MaxLate > 0 => ~Coalesce)

Waits == {"mail", "rcpt", "data", "dot", "rset"}
Resting == {"idle", "round", "connect", "unreached", "bounce", "notify", "judge"}

Outstanding == Len(back) + Len(line)
LastIs(v, r) == line # <<>> => line[Len(line)] = [verb |-> v, to |-> r]

(* The last command on its way is the one the client waits for, and the    *)
(* content of a mail overtakes nothing.                                    *)
Channel ==
    /\ phase = "gone" => line = <<>>
    /\ pc \in Resting => phase = "gone" /\ back = <<>>
    /\ Outstanding <= IF pc \in Waits THEN MaxLate + 1 ELSE MaxLate
    /\ pc = "mail" => LastIs("MAIL", None)
    /\ pc = "rcpt" => LastIs("RCPT", at)
    /\ pc = "data" => LastIs("DATA", None)
    /\ pc = "rset" => LastIs("RSET", None)
    /\ pc = "dot" => Outstanding <= 1 /\ LastIs("content", None)
    /\ Contents(line) \subseteq {1}

(* A 354 is not read as the answer to the DATA of another mail: between    *)
(* them are a RSET, a MAIL and a RCPT at least, and it is read as the      *)
(* answer to one of these.  So a DATA on its way has that many commands    *)
(* behind it (Requests), and a 354 at most as many answers before it as    *)
(* are left to be read (Replies).                                          *)
Requests(s, d) == \A j \in 1..Len(s) : s[j].verb = "DATA" => Len(s) - j >= d
Replies(s, k) == \A i \in Goes(s) : i <= k
Free == Replies(back, 0) /\ \A j \in 1..Len(line) : line[j].verb # "DATA"

Distances ==
    /\ pc = "reject" => Replies(back, 3)
    /\ pc = "rset" => Requests(line, 1) /\ Replies(back, 3)
    /\ pc \in {"settle", "next"} => Requests(line, 1) /\ Replies(back, 2)
    /\ pc = "mail" => Requests(line, 2) /\ Replies(back, 2) /\ Having("ok") = {}
    /\ pc = "offer" => Requests(line, 2) /\ Replies(back, 1)
    /\ pc = "rcpt" => Requests(line, 3) /\ Replies(back, 1)
    /\ pc \in {"offer", "rcpt"} /\ Having("ok") # {} => Free
    /\ pc = "data" => /\ \A j \in 1..Len(line) : line[j].verb = "DATA" => j = Len(line)
                      /\ \A i \in Goes(back) : i = Len(back) /\ line = <<>>
    /\ pc = "dot" => Free

Pipe == ContentInv /\ Channel /\ Distances

LEMMA InitPipe == Init => Pipe
<1> SUFFICES ASSUME Init PROVE Pipe
    OBVIOUS
<1>1. line = <<>> /\ back = <<>> /\ phase = "gone" /\ pc = "idle" /\ Len(line) = 0 /\ Len(back) = 0
    BY DEF Init
<1>2. MaxLate \in Nat
    BY BoundsAssumption
<1>3. ContentInv /\ Contents(line) = {}
    BY <1>1, EmptyContents DEF ContentInv, AtMostOne
<1> QED  BY <1>1, <1>2, <1>3 DEF Pipe, Channel, Distances, Outstanding, Resting, Waits

\* Distances may be taken for smaller ones.
LEMMA Farther ==
    ASSUME NEW s, Len(s) \in Nat, NEW d \in Nat, NEW e \in Nat, d <= e
    PROVE  /\ Requests(s, e) => Requests(s, d)
           /\ Replies(s, d) => Replies(s, e)
           /\ (\A j \in 1..Len(s) : s[j].verb # "DATA") => Requests(s, e)
<1>1. \A j \in 1..Len(s) : j \in Nat
    OBVIOUS
<1>2. Goes(s) \subseteq Nat
    BY DEF Goes
<1> QED  BY <1>1, <1>2 DEF Requests, Replies

\* A read takes the first answer, if there is one.
LEMMA ReadOne ==
    ASSUME TInv, Pipe, Patient, NEW x, Read(x)
    PROVE  /\ \/ back # <<>> /\ back' = Tail(back) /\ x \in {Head(back), "none"}
              \/ back = <<>> /\ back' = <<>> /\ x = "none"
           /\ Len(back') + Len(line) <= MaxLate
           /\ Len(back') = IF back = <<>> THEN 0 ELSE Len(back) - 1
           /\ \A i \in 1..Len(back') : i + 1 \in 1..Len(back) /\ back'[i] = back[i + 1]
           /\ back' \in Seq(Answers)
<1>1. /\ back \in Seq(Answers) /\ line \in Seq(Commands) /\ Len(back) \in Nat /\ Len(line) \in Nat
      /\ MaxLate \in Nat /\ Len(back) + Len(line) <= MaxLate + 1
    BY BoundsAssumption DEF TInv, ConnType, Pipe, Channel, Outstanding
<1>2. CASE back # <<>>
    <2>1. ~(\E k \in 3..(Len(back) + 1) : Coalesce /\ back' = SubSeq(back, k, Len(back)))
        <3>1. Coalesce => Len(back) <= 1
            BY <1>1 DEF Patient
        <3>2. Len(back) <= 1 => 3..(Len(back) + 1) = {}
            BY <1>1
        <3> QED  BY <3>1, <3>2
    <2>2. back' = Tail(back) /\ x \in {Head(back), "none"}
        BY <1>2, <2>1 DEF Read
    <2>3. /\ back' \in Seq(Answers) /\ Len(back') = Len(back) - 1
          /\ \A i \in 1..Len(back') : back'[i] = back[i + 1]
        BY <1>1, <1>2, <2>2, HeadTailProperties
    <2> QED  BY <1>1, <1>2, <2>2, <2>3
<1>3. CASE back = <<>>
    <2>1. back' = <<>> /\ x = "none" /\ (phase = "gone" \/ Len(line) <= MaxLate)
        BY <1>3 DEF Read
    <2>2. Len(line) <= MaxLate
        BY <1>1, <2>1 DEF Pipe, Channel
    <2> QED  BY <1>1, <1>3, <2>1, <2>2
<1> QED  BY <1>2, <1>3

\* A 354 comes one answer nearer, and none comes up.
LEMMA ReadReplies ==
    ASSUME TInv, Pipe, Patient, NEW x, Read(x)
    PROVE  /\ \A i \in Goes(back') : i + 1 \in Goes(back) /\ i \in Nat \ {0}
           /\ \A k \in Nat : Replies(back, k + 1) => Replies(back', k)
           /\ Replies(back, 0) => Replies(back', 0)
<1>1. \A i \in Goes(back') : i + 1 \in Goes(back) /\ i \in Nat \ {0}
    BY ReadOne DEF Goes
<1>2. ASSUME NEW k \in Nat, Replies(back, k + 1), NEW i \in Goes(back')
      PROVE  i <= k
    <2>1. i + 1 <= k + 1 /\ i \in Nat
        BY <1>1, <1>2 DEF Replies
    <2> QED  BY <2>1
<1>3. ASSUME Replies(back, 0), NEW i \in Goes(back')
      PROVE  FALSE
    <2>1. i + 1 <= 0 /\ i \in Nat
        BY <1>1, <1>3 DEF Replies
    <2> QED  BY <2>1
<1> QED  BY <1>1, <1>2, <1>3 DEF Replies

\* A command is sent behind the others, if there is a connection.
LEMMA SendOne ==
    ASSUME TInv, Pipe, NEW v \in Verbs, NEW r \in Rows \cup {None}, Send(v, r)
    PROVE  /\ Len(line') \in Nat /\ Len(line') <= Len(line) + 1
           /\ line' # <<>> => Len(line') = Len(line) + 1 /\ phase # "gone"
           /\ line' # <<>> => line'[Len(line')] = [verb |-> v, to |-> r]
           /\ \A j \in 1..Len(line') :
                  \/ j \in 1..Len(line) /\ line'[j] = line[j]
                  \/ j = Len(line) + 1 /\ line'[j] = [verb |-> v, to |-> r]
<1>1. line \in Seq(Commands) /\ Len(line) \in Nat
    BY DEF TInv, ConnType
<1>2. CASE phase = "gone"
    BY <1>1, <1>2 DEF Send, Pipe, Channel
<1>3. CASE phase # "gone"
    <2> DEFINE e == [verb |-> v, to |-> r]
    <2>1. line' = Append(line, e) /\ e \in Commands
        BY <1>3 DEF Send, Commands
    <2> HIDE DEF e
    <2>2. /\ Len(line') = Len(line) + 1
          /\ \A j \in 1..Len(line') : line'[j] = IF j <= Len(line) THEN line[j] ELSE e
        BY <1>1, <2>1
    <2> QED  BY <1>1, <1>3, <2>2 DEF e
<1> QED  BY <1>2, <1>3

\* A DATA moves away from the end, and none comes up.
LEMMA SendRequests ==
    ASSUME TInv, Pipe, NEW v \in Verbs \ {"DATA"}, NEW r \in Rows \cup {None}, Send(v, r)
    PROVE  /\ \A d \in Nat : Requests(line, d) => Requests(line', d + 1)
           /\ Requests(line', 1)
           /\ (\A j \in 1..Len(line) : line[j].verb # "DATA")
                  => (\A j \in 1..Len(line') : line'[j].verb # "DATA")
<1>1. /\ Len(line') \in Nat /\ Len(line) \in Nat
      /\ line' # <<>> => Len(line') = Len(line) + 1
      /\ \A j \in 1..Len(line') : line'[j].verb = "DATA" => j \in 1..Len(line) /\ line'[j] = line[j]
    <2> DEFINE e == [verb |-> v, to |-> r]
    <2>1. e.verb # "DATA"
        OBVIOUS
    <2>2. /\ Len(line') \in Nat
          /\ line' # <<>> => Len(line') = Len(line) + 1
          /\ \A j \in 1..Len(line') : \/ j \in 1..Len(line) /\ line'[j] = line[j]
                                      \/ line'[j] = e
        BY SendOne
    <2> HIDE DEF e
    <2> QED  BY <2>1, <2>2 DEF TInv, ConnType
<1>2. ASSUME NEW j \in 1..Len(line')
      PROVE  Len(line') = Len(line) + 1
    BY <1>1, <1>2
<1>3. ASSUME NEW d \in Nat, Requests(line, d), NEW j \in 1..Len(line'), line'[j].verb = "DATA"
      PROVE  Len(line') - j >= d + 1
    <2>1. j \in 1..Len(line) /\ Len(line) - j >= d /\ Len(line') = Len(line) + 1
        BY <1>1, <1>2, <1>3 DEF Requests
    <2> QED  BY <1>1, <2>1
<1>4. ASSUME NEW j \in 1..Len(line'), line'[j].verb = "DATA"
      PROVE  Len(line') - j >= 1
    <2>1. j \in 1..Len(line) /\ Len(line') = Len(line) + 1
        BY <1>1, <1>2, <1>4
    <2> QED  BY <1>1, <2>1
<1> QED  BY <1>1, <1>3, <1>4 DEF Requests

\* Between the rounds and the servers there is no connection.
LEMMA RestingPipe ==
    ASSUME pc' \in Resting, line' = <<>>, back' = <<>>, phase' = "gone"
    PROVE  Channel' /\ Distances'
<1>1. Len(line') = 0 /\ Len(back') = 0 /\ Contents(line') = {} /\ MaxLate \in Nat
    BY EmptyContents, BoundsAssumption
<1> QED  BY <1>1 DEF Channel, Distances, Outstanding, LastIs, Resting, Waits

\* Steps that leave the connection, the command waited for and what is accepted alone
LEMMA SamePipe ==
    ASSUME Pipe, UNCHANGED <<line, back, phase, pc, at>>, Having("ok")' \subseteq Having("ok")
    PROVE  Channel' /\ Distances'
BY DEF Pipe, Channel, Distances, Free, Outstanding, LastIs

\* Steps that send nothing
LEMMA SilentChannel ==
    ASSUME Pipe, UNCHANGED <<line, phase>>, pc' \notin Waits \cup Resting,
           Len(back') + Len(line) <= MaxLate
    PROVE  Channel'
BY DEF Pipe, Channel, Outstanding, Waits

LEMMA SendChannel ==
    ASSUME TInv, Pipe, UNCHANGED phase, NEW v \in Verbs \ {"content"}, NEW r \in Rows \cup {None},
           Send(v, r), Len(back') \in Nat, Len(back') + Len(line) <= MaxLate
    PROVE  /\ phase' = "gone" => line' = <<>>
           /\ Len(back') + Len(line') <= MaxLate + 1
           /\ Contents(line') \subseteq {1}
           /\ line' # <<>> => line'[Len(line')] = [verb |-> v, to |-> r]
<1>1. /\ Len(line') \in Nat /\ Len(line') <= Len(line) + 1
      /\ line' # <<>> => phase # "gone" /\ line'[Len(line')] = [verb |-> v, to |-> r]
    BY SendOne
<1>2. Contents(line') \subseteq {1}
    BY SendContents DEF Pipe, Channel, TInv
<1>3. MaxLate \in Nat /\ Len(line) \in Nat
    BY BoundsAssumption DEF TInv, ConnType
<1>4. Len(back') + Len(line') <= MaxLate + 1
    BY <1>1, <1>3
<1> QED  BY <1>1, <1>2, <1>4

\* Before a RSET a 354 is three answers from being read at most.
LEMMA ResetPipe ==
    ASSUME TInv, Pipe, UNCHANGED phase, NEW f, Reset(f),
           Len(back') \in Nat, Len(back') + Len(line) <= MaxLate, Replies(back', 3)
    PROVE  Channel' /\ Distances'
<1>1. pc' = "rset" /\ Send("RSET", None) /\ "RSET" \in Verbs \ {"content", "DATA"}
    BY DEF Reset, Verbs
<1>2. /\ phase' = "gone" => line' = <<>>
      /\ Len(back') + Len(line') <= MaxLate + 1
      /\ Contents(line') \subseteq {1}
      /\ line' # <<>> => line'[Len(line')] = [verb |-> "RSET", to |-> None]
    BY <1>1, SendChannel
<1>3. Requests(line', 1)
    BY <1>1, SendRequests
<1>4. Channel'
    BY <1>1, <1>2 DEF Channel, Outstanding, LastIs, Waits, Resting
<1>5. Distances'
    BY <1>1, <1>3 DEF Distances
<1> QED  BY <1>4, <1>5

LEMMA DeliveryPipe ==
    ASSUME TInv, Pipe, StartRound \/ Called \/ Delivery \/ Crash
    PROVE  Channel' /\ Distances'
<1>1. CASE StartRound \/ Called
    <2>1. UNCHANGED connVars /\ pc \in {"idle", "round"} /\ pc' \in {"round", "bounce"}
        BY <1>1 DEF StartRound, Called, StartOnce, StartBounces
    <2> QED  BY <2>1, RestingPipe DEF Pipe, Channel, connVars, Resting
<1>2. CASE Unreachable \/ \E h \in Remotes : Skip(h) \/ HandleRemote(h)
    <2>1. /\ UNCHANGED connVars /\ pc \in {"round", "connect"}
          /\ pc' \in {"round", "connect", "unreached"}
        BY <1>2 DEF Unreachable, Skip, HandleRemote
    <2> QED  BY <2>1, RestingPipe DEF Pipe, Channel, connVars, Resting
<1>3. CASE \E r \in Rows : FailUnreached(r)
    <2>1. UNCHANGED connVars /\ pc = "unreached" /\ pc' = "unreached"
        BY <1>3 DEF FailUnreached
    <2> QED  BY <2>1, RestingPipe DEF Pipe, Channel, connVars, Resting
<1>4. CASE EndRemote \/ Crash
    BY <1>4, RestingPipe DEF EndRemote, Crash, Closed, Resting
<1>5. CASE Connect
    <2>1. PICK k \in 0..MaxLate : line' = [i \in 1..k |-> [verb |-> "NOOP", to |-> None]]
        BY <1>5 DEF Connect
    <2>2. /\ Len(line') = k /\ MaxLate \in Nat
          /\ \A j \in 1..Len(line') : line'[j].verb = "NOOP"
        BY <2>1, BoundsAssumption
    <2>3. Requests(line', 1) /\ Contents(line') = {}
        BY <2>2 DEF Requests, Contents
    <2>4. pc' = "next" /\ back' = <<>> /\ phase' = "idle" /\ Goes(back') = {} /\ Len(back') = 0
        BY <1>5, EmptyContents DEF Connect
    <2>5. Channel'
        BY <2>2, <2>3, <2>4 DEF Channel, Outstanding, Waits, Resting
    <2>6. Distances'
        BY <2>3, <2>4 DEF Distances, Replies
    <2> QED  BY <2>5, <2>6
<1> QED  BY <1>1, <1>2, <1>3, <1>4, <1>5 DEF Delivery

LEMMA BouncingPipe ==
    ASSUME Pipe, Bouncing
    PROVE  Channel' /\ Distances'
<1>1. /\ UNCHANGED connVars /\ pc \in {"round", "bounce", "notify", "judge"}
      /\ pc' \in {"idle", "bounce", "notify", "judge"}
    BY DEF Bouncing, GiveUp, Compose, InsertNotice, Bounced, Rest
<1> QED  BY <1>1, RestingPipe DEF Pipe, Channel, connVars, Resting

----------------------------------------------------------------------------
(* Transactions *)

\* Lengths are numbers.
LEMMA Lengths ==
    ASSUME TInv
    PROVE  Len(line) \in Nat /\ Len(back) \in Nat /\ MaxLate \in Nat
BY BoundsAssumption DEF TInv, ConnType

LEMMA StartTransactionPipe ==
    ASSUME TInv, Pipe, StartTransaction
    PROVE  Channel' /\ Distances'
<1>1. /\ pc = "next" /\ pc' = "mail" /\ UNCHANGED <<back, phase>> /\ Send("MAIL", None)
      /\ Having("ok")' = {}
    BY DEF StartTransaction, Begin, Having
<1>2. /\ Len(back') \in Nat /\ Len(back') + Len(line) <= MaxLate
      /\ Requests(line, 1) /\ Replies(back, 2) /\ "MAIL" \in Verbs \ {"content", "DATA"}
    BY <1>1, Lengths DEF Pipe, Channel, Distances, Outstanding, Waits, Verbs
<1>3. /\ phase' = "gone" => line' = <<>>
      /\ Len(back') + Len(line') <= MaxLate + 1
      /\ Contents(line') \subseteq {1}
      /\ line' # <<>> => line'[Len(line')] = [verb |-> "MAIL", to |-> None]
    BY <1>1, <1>2, SendChannel
<1>4. Requests(line', 2)
    <2>1. Requests(line', 1 + 1)
        BY <1>1, <1>2, SendRequests
    <2> QED  BY <2>1
<1>5. Channel'
    BY <1>1, <1>3 DEF Channel, Outstanding, LastIs, Waits, Resting
<1>6. Distances'
    BY <1>1, <1>2, <1>4 DEF Distances
<1> QED  BY <1>5, <1>6

LEMMA MailAnsweredPipe ==
    ASSUME TInv, Pipe, Patient, MailAnswered
    PROVE  Channel' /\ Distances'
<1>1. PICK x \in Answers \cup {"none"} :
          /\ Read(x)
          /\ \/ pc' = "offer" /\ UNCHANGED line
             \/ Reset(x = "perm")
    BY DEF MailAnswered
<1>2. /\ pc = "mail" /\ UNCHANGED <<phase, st>>
      /\ Requests(line, 2) /\ Replies(back, 1 + 1) /\ Having("ok") = {}
    BY DEF MailAnswered, Pipe, Distances
<1>3. /\ Len(back') \in Nat /\ Len(back') + Len(line) <= MaxLate /\ back' \in Seq(Answers)
      /\ Replies(back', 1)
    BY <1>1, <1>2, ReadOne, ReadReplies
<1>4. CASE pc' = "offer" /\ UNCHANGED line
    <2>1. Channel'
        BY <1>2, <1>3, <1>4, SilentChannel DEF Waits, Resting
    <2>2. Distances'
        BY <1>2, <1>3, <1>4 DEF Distances, Having
    <2> QED  BY <2>1, <2>2
<1>5. CASE Reset(x = "perm")
    <2>1. Replies(back', 3)
        BY <1>3, Farther
    <2> QED  BY <1>2, <1>3, <1>5, <2>1, ResetPipe
<1> QED  BY <1>1, <1>4, <1>5

LEMMA OfferPipe ==
    ASSUME TInv, Pipe, NEW r \in Rows, Offer(r)
    PROVE  Channel' /\ Distances'
<1>1. /\ pc = "offer" /\ UNCHANGED <<back, phase>>
      /\ Requests(line, 2) /\ Replies(back, 1) /\ (Having("ok") # {} => Free)
      /\ Len(back') \in Nat /\ Len(back') + Len(line) <= MaxLate
    BY Lengths DEF Offer, Pipe, Channel, Distances, Outstanding, Waits
<1>2. CASE /\ at' = r /\ Send("RCPT", r) /\ pc' = "rcpt"
           /\ UNCHANGED st
    <2>1. "RCPT" \in Verbs \ {"content", "DATA"}
        BY DEF Verbs
    <2>2. /\ phase' = "gone" => line' = <<>>
          /\ Len(back') + Len(line') <= MaxLate + 1
          /\ Contents(line') \subseteq {1}
          /\ line' # <<>> => line'[Len(line')] = [verb |-> "RCPT", to |-> r]
        BY <1>1, <1>2, <2>1, SendChannel
    <2>3. Requests(line', 3)
        <3>1. Requests(line', 2 + 1)
            BY <1>1, <1>2, <2>1, SendRequests
        <3> QED  BY <3>1
    <2>4. Having("ok")' # {} => Free'
        BY <1>1, <1>2, <2>1, SendRequests DEF Free, Having
    <2>5. Channel'
        BY <1>2, <2>2 DEF Channel, Outstanding, LastIs, Waits, Resting
    <2>6. Distances'
        BY <1>1, <1>2, <2>3, <2>4 DEF Distances
    <2> QED  BY <2>5, <2>6
<1>3. CASE /\ st' = [st EXCEPT ![r] = "failed"] \/ UNCHANGED st
           /\ UNCHANGED <<line, pc, at>>
    <2>1. Having("ok")' \subseteq Having("ok")
        BY <1>3 DEF Having
    <2> QED  BY <1>1, <1>3, <2>1, SamePipe
<1> QED  BY <1>2, <1>3 DEF Offer

\* If the answer came, there are not so many commands on their way that the
\* DATA of an earlier mail is among them.
LEMMA RcptAnsweredPipe ==
    ASSUME TInv, Pipe, Patient, RcptAnswered
    PROVE  Channel' /\ Distances'
<1>1. PICK x \in Answers \cup {"none"} :
          /\ Read(x)
          /\ \/ x = "ok"
             \/ st' = [st EXCEPT ![at] = "failed"]
    BY DEF RcptAnswered
<1>2. /\ pc = "rcpt" /\ pc' = "offer" /\ UNCHANGED <<line, phase>>
      /\ Requests(line, 3) /\ Replies(back, 0 + 1) /\ (Having("ok") # {} => Free)
    BY DEF RcptAnswered, Pipe, Distances
<1>3. /\ Len(back') \in Nat /\ Len(back') + Len(line) <= MaxLate /\ back' \in Seq(Answers)
      /\ Len(back') = IF back = <<>> THEN 0 ELSE Len(back) - 1
      /\ back = <<>> => x = "none"
    BY <1>1, ReadOne
<1>4. Replies(back', 0)
    BY <1>1, <1>2, ReadReplies
<1>5. Requests(line', 2) /\ Replies(back', 1)
    BY <1>2, <1>3, <1>4, Lengths, Farther
<1>6. Having("ok")' # {} => Free'
    <2>1. CASE x = "ok"
        <3>1. Len(line) <= 3
            BY <1>3, <2>1, Lengths DEF Patient
        <3>2. \A j \in 1..Len(line) : line[j].verb # "DATA"
            BY <1>2, <3>1, Lengths DEF Requests
        <3> QED  BY <1>2, <1>4, <3>2 DEF Free
    <2>2. CASE st' = [st EXCEPT ![at] = "failed"]
        <3>1. Having("ok")' \subseteq Having("ok")
            BY <2>2 DEF Having
        <3> QED  BY <1>2, <1>4, <3>1 DEF Free
    <2> QED  BY <1>1, <2>1, <2>2
<1>7. Channel'
    BY <1>2, <1>3, SilentChannel DEF Waits, Resting
<1>8. Distances'
    BY <1>2, <1>5, <1>6 DEF Distances
<1> QED  BY <1>7, <1>8

LEMMA AskForDataPipe ==
    ASSUME TInv, Pipe, AskForData
    PROVE  Channel' /\ Distances'
<1>1. /\ pc = "offer" /\ UNCHANGED <<back, phase>>
      /\ Replies(back, 1) /\ (Having("ok") # {} => Free)
      /\ Len(back') \in Nat /\ Len(back') + Len(line) <= MaxLate
    BY Lengths DEF AskForData, Pipe, Channel, Distances, Outstanding, Waits
<1>2. CASE Having("ok") # {} /\ pc' = "data" /\ Send("DATA", None)
    <2>1. "DATA" \in Verbs \ {"content"}
        BY DEF Verbs
    <2>2. /\ phase' = "gone" => line' = <<>>
          /\ Len(back') + Len(line') <= MaxLate + 1
          /\ Contents(line') \subseteq {1}
          /\ line' # <<>> => line'[Len(line')] = [verb |-> "DATA", to |-> None]
        BY <1>1, <1>2, <2>1, SendChannel
    <2>3. \A j \in 1..Len(line') : line'[j].verb = "DATA" => j = Len(line')
        <3> SUFFICES ASSUME NEW j \in 1..Len(line'), line'[j].verb = "DATA"
                     PROVE  j = Len(line')
            OBVIOUS
        <3>1. \/ j \in 1..Len(line) /\ line'[j] = line[j]
              \/ j = Len(line) + 1
            BY <1>2, <2>1, SendOne
        <3>2. ~(j \in 1..Len(line) /\ line'[j] = line[j])
            BY <1>1, <1>2 DEF Free
        <3>3. line' # <<>> => Len(line') = Len(line) + 1
            BY <1>2, <2>1, SendOne
        <3> QED  BY <3>1, <3>2, <3>3
    <2>4. Goes(back) = {}
        <3>1. \A i \in Goes(back) : i <= 0 /\ i \in Nat \ {0}
            BY <1>1, <1>2 DEF Free, Replies, Goes
        <3> QED  BY <3>1
    <2>5. Channel'
        BY <1>2, <2>2 DEF Channel, Outstanding, LastIs, Waits, Resting
    <2>6. Distances'
        BY <1>1, <1>2, <2>3, <2>4 DEF Distances
    <2> QED  BY <2>5, <2>6
<1>3. CASE Reset(FALSE)
    <2>1. Replies(back', 3)
        BY <1>1, Farther
    <2> QED  BY <1>1, <1>3, <2>1, ResetPipe
<1> QED  BY <1>2, <1>3 DEF AskForData

\* A 354 that is read as the answer to DATA is the answer to it.
LEMMA DataAnsweredPipe ==
    ASSUME TInv, Pipe, Patient, DataAnswered
    PROVE  Channel' /\ Distances'
<1>1. PICK x \in Answers \cup {"none"} :
          /\ Read(x)
          /\ \/ x = "go" /\ pc' = "dot" /\ Send("content", None)
             \/ pc' = "reject" /\ UNCHANGED line
    BY DEF DataAnswered
<1>2. /\ pc = "data" /\ UNCHANGED phase
      /\ \A i \in Goes(back) : i = Len(back) /\ line = <<>>
    BY DEF DataAnswered, Pipe, Distances
<1>3. /\ \/ back # <<>> /\ x \in {Head(back), "none"}
         \/ back = <<>> /\ x = "none"
      /\ Len(back') + Len(line) <= MaxLate /\ back' \in Seq(Answers)
      /\ Len(back') = IF back = <<>> THEN 0 ELSE Len(back) - 1
    BY <1>1, ReadOne
<1>4. CASE x = "go" /\ pc' = "dot" /\ Send("content", None)
    <2>1. 1 \in Goes(back)
        BY <1>3, <1>4 DEF Goes, TInv, ConnType
    <2>2. line = <<>> /\ Len(back') = 0 /\ Len(line) = 0
        <3>1. 1 = Len(back) /\ line = <<>>
            BY <1>2, <2>1
        <3>2. Len(back') = Len(back) - 1
            BY <1>3, <1>4
        <3> QED  BY <3>1, <3>2
    <2>3. /\ Len(line') \in Nat /\ Len(line') <= 1
          /\ line' # <<>> => phase # "gone" /\ line'[Len(line')] = [verb |-> "content", to |-> None]
          /\ \A j \in 1..Len(line') : line'[j] = [verb |-> "content", to |-> None]
        BY <1>4, <2>2, SendOne DEF Verbs
    <2>4. \A j \in 1..Len(line') : line'[j].verb # "DATA"
        BY <2>3
    <2>5. Goes(back') = {} /\ Contents(line') \subseteq {1}
        BY <2>2, <2>3 DEF Goes, Contents
    <2>6. Channel'
        BY <1>2, <1>4, <2>2, <2>3, <2>5, Lengths DEF Channel, Outstanding, LastIs, Waits, Resting
    <2>7. Distances'
        BY <1>4, <2>4, <2>5 DEF Distances, Free, Replies
    <2> QED  BY <2>6, <2>7
<1>5. CASE pc' = "reject" /\ UNCHANGED line
    <2>1. Replies(back', 3)
        <3> SUFFICES ASSUME NEW i \in Goes(back') PROVE i <= 3
            BY DEF Replies
        <3>1. i \in 1..Len(back') /\ Len(back') \in Nat
            BY <1>3 DEF Goes
        <3>2. Len(back') <= 3
            BY <1>3, Lengths DEF Patient
        <3> QED  BY <3>1, <3>2
    <2>2. Channel'
        BY <1>2, <1>3, <1>5, SilentChannel DEF Waits, Resting
    <2> QED  BY <1>5, <2>1, <2>2 DEF Distances
<1> QED  BY <1>1, <1>4, <1>5

LEMMA DotAnsweredPipe ==
    ASSUME TInv, Pipe, Patient, DotAnswered
    PROVE  Channel' /\ Distances'
<1>1. PICK x \in Answers \cup {"none"} :
          /\ Read(x)
          /\ \/ Reset(FALSE)
             \/ pc' = "reject" /\ UNCHANGED line
    BY DEF DotAnswered
<1>2. pc = "dot" /\ UNCHANGED phase /\ Replies(back, 0)
    BY DEF DotAnswered, Pipe, Distances, Free
<1>3. /\ Len(back') \in Nat /\ Len(back') + Len(line) <= MaxLate /\ back' \in Seq(Answers)
      /\ Replies(back', 0)
    BY <1>1, <1>2, ReadOne, ReadReplies
<1>4. Replies(back', 3)
    BY <1>3, Farther
<1>5. CASE Reset(FALSE)
    BY <1>2, <1>3, <1>4, <1>5, ResetPipe
<1>6. CASE pc' = "reject" /\ UNCHANGED line
    <2>1. Channel'
        BY <1>2, <1>3, <1>6, SilentChannel DEF Waits, Resting
    <2> QED  BY <1>4, <1>6, <2>1 DEF Distances
<1> QED  BY <1>1, <1>5, <1>6

LEMMA RejectPipe ==
    ASSUME TInv, Pipe, Rejected \/ \E r \in Rows : RejectRow(r)
    PROVE  Channel' /\ Distances'
<1>1. CASE Rejected
    <2>1. /\ UNCHANGED <<back, phase>> /\ Reset(perm) /\ Replies(back, 3)
          /\ Len(back') \in Nat /\ Len(back') + Len(line) <= MaxLate
        BY <1>1, Lengths DEF Rejected, Pipe, Channel, Distances, Outstanding, Waits
    <2> QED  BY <2>1, ResetPipe
<1>2. ASSUME NEW r \in Rows, RejectRow(r)
      PROVE  Channel' /\ Distances'
    <2>1. Having("ok")' \subseteq Having("ok")
        BY <1>2 DEF RejectRow, Having
    <2> QED  BY <1>2, <2>1, SamePipe DEF RejectRow, connVars
<1> QED  BY <1>1, <1>2

LEMMA ResetAnsweredPipe ==
    ASSUME TInv, Pipe, Patient, ResetAnswered
    PROVE  Channel' /\ Distances'
<1>1. PICK x \in Answers \cup {"none"} : Read(x)
    BY DEF ResetAnswered
<1>2. /\ pc' = "settle" /\ UNCHANGED <<line, phase>> /\ Requests(line, 1) /\ Replies(back, 2 + 1)
    BY DEF ResetAnswered, Pipe, Distances
<1>3. Len(back') + Len(line) <= MaxLate /\ Replies(back', 2)
    BY <1>1, <1>2, ReadOne, ReadReplies
<1>4. Channel'
    BY <1>2, <1>3, SilentChannel DEF Waits, Resting
<1> QED  BY <1>2, <1>3, <1>4 DEF Distances

LEMMA EndTransactionPipe ==
    ASSUME TInv, Pipe, EndTransaction
    PROVE  Channel' /\ Distances'
<1>1. /\ pc = "settle" /\ pc' = "next" /\ UNCHANGED <<line, back, phase>>
      /\ Len(back') + Len(line) <= MaxLate /\ Requests(line, 1) /\ Replies(back, 2)
    BY DEF EndTransaction, connVars, Pipe, Channel, Distances, Outstanding, Waits
<1>2. Channel'
    BY <1>1, SilentChannel DEF Waits, Resting
<1> QED  BY <1>1, <1>2 DEF Distances

LEMMA TransactionPipe ==
    ASSUME TInv, Pipe, Patient, Transaction
    PROVE  Channel' /\ Distances'
<1>1. ASSUME NEW r \in Rows, Settle(r)
      PROVE  Channel' /\ Distances'
    BY <1>1, SamePipe DEF Settle, connVars, Having
<1> QED  BY <1>1, StartTransactionPipe, MailAnsweredPipe, OfferPipe, RcptAnsweredPipe,
            AskForDataPipe, DataAnsweredPipe, DotAnsweredPipe, RejectPipe, ResetAnsweredPipe,
            EndTransactionPipe DEF Transaction

----------------------------------------------------------------------------
(* The server, other processes, and time *)

\* The server takes the first command and answers it, or says nothing.
LEMMA ServeOne ==
    ASSUME TInv, Serve
    PROVE  /\ line # <<>> /\ line' = Tail(line) /\ Len(line') = Len(line) - 1 /\ Head(line) = line[1]
           /\ \A j \in 1..Len(line') : j + 1 \in 1..Len(line) /\ line'[j] = line[j + 1]
           /\ \/ UNCHANGED back /\ phase' = "data"
              \/ \E x \in Answers : back' = Append(back, x)
                                    /\ (x = "go" => Head(line).verb = "DATA" /\ phase # "data")
<1>1. line # <<>> /\ line' = Tail(line) /\ line \in Seq(Commands)
    BY DEF Serve, TInv, ConnType
<1>2. /\ Len(line') = Len(line) - 1 /\ Head(line) = line[1]
      /\ \A j \in 1..Len(line') : j + 1 \in 1..Len(line) /\ line'[j] = line[j + 1]
    BY <1>1
<1>3. Refusals \subseteq Answers \ {"go"} /\ {"ok", "go", "moved"} \subseteq Answers
    BY DEF Refusals, Answers
<1>4. \/ UNCHANGED back /\ phase' = "data"
      \/ \E x \in Answers : back' = Append(back, x)
                            /\ (x = "go" => Head(line).verb = "DATA" /\ phase # "data")
    <2>1. CASE phase = "data" /\ OnContent
        BY <1>3, <2>1 DEF OnContent, Answer
    <2>2. CASE OnMail \/ OnRcpt \/ OnReset
        BY <1>3, <2>2 DEF OnMail, OnRcpt, OnReset, Answer
    <2>3. CASE phase # "data" /\ OnData
        BY <1>3, <2>3 DEF OnData, Answer
    <2> QED  BY <2>1, <2>2, <2>3 DEF Serve
<1> QED  BY <1>1, <1>2, <1>4

LEMMA ServeGoes ==
    ASSUME TInv, Serve
    PROVE  /\ Len(back') \in Nat /\ Len(back') <= Len(back) + 1
           /\ \A i \in Goes(back') : \/ i \in Goes(back)
                                     \/ i = Len(back) + 1 /\ i = Len(back') /\ line[1].verb = "DATA"
<1>1. CASE UNCHANGED back
    BY <1>1, Lengths
<1>2. ASSUME NEW x \in Answers, back' = Append(back, x), x = "go" => line[1].verb = "DATA"
      PROVE  /\ Len(back') \in Nat /\ Len(back') <= Len(back) + 1
             /\ \A i \in Goes(back') : \/ i \in Goes(back)
                                       \/ i = Len(back) + 1 /\ i = Len(back') /\ line[1].verb = "DATA"
    <2>1. /\ Len(back') = Len(back) + 1 /\ Len(back) \in Nat
          /\ \A i \in 1..Len(back') : back'[i] = IF i <= Len(back) THEN back[i] ELSE x
        BY <1>2 DEF TInv, ConnType
    <2> QED  BY <1>2, <2>1 DEF Goes
<1> QED  BY <1>1, <1>2, ServeOne

\* A DATA is answered with as many commands behind it as there are answers to be
\* read less.
LEMMA ServeDistance ==
    ASSUME TInv, Serve, NEW d \in Nat, NEW k \in Nat, NEW n \in Nat, Requests(line, d), Replies(back, k),
           Len(back) + Len(line) <= n, n - d <= k
    PROVE  Requests(line', d) /\ Replies(back', k)
<1>1. Requests(line', d)
    <2> SUFFICES ASSUME NEW j \in 1..Len(line'), line'[j].verb = "DATA"
                 PROVE  Len(line') - j >= d
        BY DEF Requests
    <2>1. j + 1 \in 1..Len(line) /\ line'[j] = line[j + 1] /\ Len(line') = Len(line) - 1
        BY ServeOne
    <2>2. Len(line) - (j + 1) >= d
        BY <2>1 DEF Requests
    <2> QED  BY <2>1, <2>2, Lengths
<1>2. Replies(back', k)
    <2> SUFFICES ASSUME NEW i \in Goes(back'), i = Len(back) + 1, line[1].verb = "DATA"
                 PROVE  i <= k
        BY ServeGoes DEF Replies
    <2>1. 1 \in 1..Len(line)
        BY ServeOne DEF TInv, ConnType
    <2>2. Len(line) - 1 >= d
        BY <2>1 DEF Requests
    <2> QED  BY <2>2, Lengths
<1> QED  BY <1>1, <1>2

LEMMA ServePipe ==
    ASSUME TInv, Pipe, Patient, Serve
    PROVE  Channel' /\ Distances'
<1>1. /\ UNCHANGED <<pc, st, at>> /\ phase # "gone" /\ phase' # "gone" /\ pc \notin Resting
      /\ Having("ok")' = Having("ok")
    <2>1. UNCHANGED <<pc, st, at>> /\ phase # "gone"
        BY DEF Serve, Untouched
    <2>2. phase' # "gone"
        BY <2>1 DEF Serve, OnContent, OnMail, OnRcpt, OnData, OnReset
    <2> QED  BY <2>1, <2>2 DEF Pipe, Channel, Having
<1>2. /\ line # <<>> /\ Len(line') = Len(line) - 1 /\ Len(line') \in Nat
      /\ \A j \in 1..Len(line') : j + 1 \in 1..Len(line) /\ line'[j] = line[j + 1]
      /\ line' # <<>> => line'[Len(line')] = line[Len(line)]
    <2>1. Len(line) # 0 /\ line' \in Seq(Commands)
        <3>1. line # <<>> /\ line' = Tail(line) /\ line \in Seq(Commands)
            BY ServeOne DEF TInv, ConnType
        <3>2. Len(line) # 0
            BY <3>1, EmptySeq
        <3> QED  BY <3>1, <3>2, HeadTailProperties
    <2>2. line' # <<>> => Len(line') \in 1..Len(line')
        BY <2>1, EmptySeq
    <2> QED  BY <2>1, <2>2, ServeOne, Lengths
<1>3. Len(back') + Len(line') <= Len(back) + Len(line)
    BY <1>2, ServeGoes, Lengths
<1>4. Contents(line') = {}
    <2>1. \A j \in Contents(line') : j \in Nat /\ j + 1 \in Contents(line) /\ j + 1 # 1
        BY <1>2 DEF Contents
    <2> QED  BY <2>1 DEF Pipe, Channel
<1>5. Channel'
    BY <1>1, <1>2, <1>3, <1>4, ServeGoes, Lengths DEF Pipe, Channel, Outstanding, LastIs
<1>6. Free => Free'
    <2> SUFFICES ASSUME Free PROVE Free'
        OBVIOUS
    <2>1. \A j \in 1..Len(line') : line'[j].verb # "DATA"
        BY <1>2 DEF Free
    <2>2. 1 \in 1..Len(line)
        BY <1>2, Lengths
    <2>3. Replies(back', 0)
        BY <2>2, ServeGoes DEF Free, Replies
    <2> QED  BY <2>1, <2>3 DEF Free
<1>7. Len(back) + Len(line) <= IF pc \in Waits THEN MaxLate + 1 ELSE MaxLate
    BY DEF Pipe, Channel, Outstanding
<1>8. CASE pc = "reject"
    <2>1. Requests(line, 0) /\ Replies(back, 3)
        BY <1>8, Lengths DEF Pipe, Distances, Requests
    <2>2. Replies(back', 3)
        BY <1>7, <1>8, <2>1, ServeDistance, Lengths DEF Patient, Waits
    <2> QED  BY <1>1, <1>5, <1>8, <2>2 DEF Distances
<1>9. CASE pc = "rset"
    <2>1. Requests(line, 1) /\ Replies(back, 3)
        BY <1>9 DEF Pipe, Distances
    <2>2. Requests(line', 1) /\ Replies(back', 3)
        BY <1>7, <1>9, <2>1, ServeDistance, Lengths DEF Patient, Waits
    <2> QED  BY <1>1, <1>5, <1>9, <2>2 DEF Distances
<1>10. CASE pc \in {"settle", "next"}
    <2>1. Requests(line, 1) /\ Replies(back, 2)
        BY <1>10 DEF Pipe, Distances
    <2>2. Requests(line', 1) /\ Replies(back', 2)
        BY <1>7, <1>10, <2>1, ServeDistance, Lengths DEF Patient, Waits
    <2> QED  BY <1>1, <1>5, <1>10, <2>2 DEF Distances
<1>11. CASE pc = "mail"
    <2>1. Requests(line, 2) /\ Replies(back, 2) /\ Having("ok") = {}
        BY <1>11 DEF Pipe, Distances
    <2>2. Requests(line', 2) /\ Replies(back', 2)
        BY <1>7, <1>11, <2>1, ServeDistance, Lengths DEF Patient, Waits
    <2> QED  BY <1>1, <1>5, <1>11, <2>1, <2>2 DEF Distances
<1>12. CASE pc = "offer"
    <2>1. Requests(line, 2) /\ Replies(back, 1) /\ (Having("ok") # {} => Free)
        BY <1>12 DEF Pipe, Distances
    <2>2. Requests(line', 2) /\ Replies(back', 1)
        BY <1>7, <1>12, <2>1, ServeDistance, Lengths DEF Patient, Waits
    <2> QED  BY <1>1, <1>5, <1>6, <1>12, <2>1, <2>2 DEF Distances
<1>13. CASE pc = "rcpt"
    <2>1. Requests(line, 3) /\ Replies(back, 1) /\ (Having("ok") # {} => Free)
        BY <1>13 DEF Pipe, Distances
    <2>2. Requests(line', 3) /\ Replies(back', 1)
        BY <1>7, <1>13, <2>1, ServeDistance, Lengths DEF Patient, Waits
    <2> QED  BY <1>1, <1>5, <1>6, <1>13, <2>1, <2>2 DEF Distances
<1>14. CASE pc = "data"
    <2>1. /\ \A j \in 1..Len(line) : line[j].verb = "DATA" => j = Len(line)
          /\ Goes(back) = {}
        BY <1>2, <1>14 DEF Pipe, Distances
    <2>2. \A j \in 1..Len(line') : line'[j].verb = "DATA" => j = Len(line')
        BY <1>2, <2>1, Lengths
    <2>3. \A i \in Goes(back') : i = Len(back') /\ Len(line) = 1
        BY <1>2, <2>1, ServeGoes, Lengths
    <2>4. Len(line) = 1 => line' = <<>>
        BY <1>2, ServeOne, HeadTailProperties, EmptySeq DEF TInv, ConnType
    <2> QED  BY <1>1, <1>5, <1>14, <2>2, <2>3, <2>4 DEF Distances
<1>15. CASE pc = "dot"
    BY <1>1, <1>5, <1>6, <1>15 DEF Pipe, Distances
<1> QED  BY <1>1, <1>8, <1>9, <1>10, <1>11, <1>12, <1>13, <1>14, <1>15
         DEF TInv, RoundType, Programs, Resting

LEMMA DropPipe ==
    ASSUME TInv, Pipe, Drop
    PROVE  Channel' /\ Distances'
<1>1. /\ UNCHANGED <<pc, st, at>> /\ phase # "gone" /\ phase' = "gone" /\ line' = <<>>
      /\ back' \in {back, <<>>}
    BY DEF Drop, Untouched
<1>2. Having("ok")' = Having("ok")
    BY <1>1 DEF Having
<1>3. /\ Len(line') = 0 /\ Contents(line') = {} /\ Goes(<<>>) = {} /\ Len(back') \in Nat
      /\ Len(back') <= Len(back)
    BY <1>1, EmptyContents, Lengths
<1>4. Channel'
    BY <1>1, <1>3, Lengths DEF Pipe, Channel, Outstanding, LastIs
<1>5. \A d \in Nat : Requests(line', d)
    BY <1>3 DEF Requests
<1>6. /\ \A k \in Nat : Replies(back, k) => Replies(back', k)
      /\ \A i \in Goes(back') : i \in Goes(back) /\ back' = back
    BY <1>1, <1>3 DEF Replies
<1>7. Free => Free'
    BY <1>3, <1>6 DEF Free
<1>8. Distances'
    BY <1>1, <1>2, <1>3, <1>5, <1>6, <1>7 DEF Pipe, Distances
<1> QED  BY <1>4, <1>8

LEMMA NextPipe ==
    ASSUME TInv, Patient, Pipe, [Next]_vars
    PROVE  Pipe'
<1> DEFINE Same == UNCHANGED <<line, back, phase, pc, at, st>>
<1>1. CASE Same
    <2>1. Having("ok")' = Having("ok")
        BY <1>1 DEF Having
    <2> QED  BY <1>1, <2>1, SamePipe, NextContent DEF Pipe
<1>2. CASE Environment
    <2>1. ASSUME NEW m \in Mails, Queue(m)
          PROVE  Same
        BY <2>1 DEF Queue, connVars
    <2>2. ASSUME NEW r \in Rows, Elapse(r) \/ Elsewhere(r)
          PROVE  Same
        BY <2>2 DEF Elapse, Elsewhere, connVars
    <2> QED  BY <1>1, <1>2, <2>1, <2>2, ServePipe, DropPipe, NextContent DEF Environment, Pipe
<1>4. CASE UNCHANGED vars
    BY <1>1, <1>4 DEF vars, connVars
<1>3. ContentInv'
    BY NextContent DEF Pipe
<1> QED  BY <1>2, <1>3, <1>4, DeliveryPipe, TransactionPipe, BouncingPipe DEF Next, Pipe

----------------------------------------------------------------------------
(* No mail is lost as long as late answers are few                         *)

(* Nothing is late: what is on its way is what the program waits for.      *)
Sync == Outstanding <= IF pc \in Waits THEN 1 ELSE 0

(* What the client takes for accepted, the server has accepted, if nothing *)
(* is late and the server reads commands; what the client takes for        *)
(* delivered, the server has taken.                                        *)
Kept == phase = "gone" \/ Having("ok") \subseteq rcpts
HasTaken == \A r \in Having("ok") : taken[r] > 0

Agreement ==
    /\ pc \in {"offer", "rcpt", "data"} /\ Sync /\ phase # "data" => Kept
    /\ pc = "rcpt" /\ Sync /\ phase # "data" /\ back = <<"ok">> => phase = "gone" \/ at \in rcpts
    /\ pc = "data" /\ back = <<"go">> => Kept
    /\ pc = "dot" /\ line # <<>> => Kept
    /\ pc = "dot" /\ back = <<"ok">> => HasTaken
    /\ pc \in {"rset", "settle"} => HasTaken
    /\ pc = "settle" => left \subseteq DOMAIN st

(* A mail is bounced only when its sender has been told.                   *)
Reported ==
    /\ pc \notin {"notify", "judge"} => copy = 0
    /\ pc = "notify" => at \in draft /\ (copy > 0 => Told(at))
    /\ pc = "judge" /\ sound => Told(at)

Accounted == Agreement /\ NothingLost

LInv == Pipe /\ Accounted /\ Reported

LEMMA OneAnswer ==
    ASSUME NEW s \in Seq(Answers), Len(s) = 1
    PROVE  s = <<Head(s)>>
OBVIOUS

\* The program goes on with nothing late: then it has read the answer to its
\* command, or there was none.
LEMMA ReadSynced ==
    ASSUME TInv, Pipe, Patient, NEW x, Read(x), pc \in Waits, pc' \notin Waits, UNCHANGED line, Sync'
    PROVE  line = <<>> /\ Sync /\ back' = <<>> /\ (x = "none" \/ back = <<x>>)
<1>1. /\ \/ back # <<>> /\ x \in {Head(back), "none"}
         \/ back = <<>> /\ x = "none"
      /\ Len(back') = IF back = <<>> THEN 0 ELSE Len(back) - 1
      /\ back' \in Seq(Answers) /\ back \in Seq(Answers) /\ line \in Seq(Commands)
    BY ReadOne DEF TInv, ConnType
<1>2. Len(back') + Len(line) <= 0
    BY DEF Sync, Outstanding
<1>3. Len(back') = 0 /\ Len(line) = 0 /\ Len(back) <= 1
    <2>1. Len(back') \in Nat /\ Len(line) \in Nat /\ Len(back) \in Nat
        BY <1>1
    <2>2. Len(back') = 0 /\ Len(line) = 0
        BY <1>2, <2>1
    <2>3. CASE back = <<>>
        BY <2>2, <2>3
    <2>4. CASE back # <<>>
        <3>1. Len(back') = Len(back) - 1
            BY <1>1, <2>4
        <3>2. \A n \in Nat : 0 = n - 1 => n <= 1
            OBVIOUS
        <3> QED  BY <2>1, <2>2, <3>1, <3>2
    <2> QED  BY <2>3, <2>4
<1>4. line = <<>> /\ back' = <<>>
    BY <1>1, <1>3, EmptySeq
<1>5. Sync
    BY <1>3, Lengths DEF Sync, Outstanding
<1>6. CASE back # <<>>
    <2>1. Len(back) = 1
        BY <1>1, <1>3, <1>6
    <2>2. back = <<Head(back)>>
        BY <1>1, <2>1, OneAnswer
    <2> QED  BY <1>1, <1>4, <1>5, <1>6, <2>2
<1> QED  BY <1>1, <1>4, <1>5, <1>6

\* A command is sent and nothing is late: then nothing was.
LEMMA SendSynced ==
    ASSUME TInv, Pipe, NEW v \in Verbs, NEW r \in Rows \cup {None}, Send(v, r), phase # "gone",
           pc \notin Waits, UNCHANGED back, Sync'
    PROVE  Sync /\ back = <<>>
<1>1. Len(line') = Len(line) + 1
    <2> DEFINE e == [verb |-> v, to |-> r]
    <2>1. line' = Append(line, e)
        BY DEF Send
    <2> HIDE DEF e
    <2> QED  BY <2>1 DEF TInv, ConnType
<1>2. Len(back) + Len(line') <= 1
    BY Lengths DEF Sync, Outstanding
<1>3. Len(back) = 0 /\ Len(line) = 0
    BY <1>1, <1>2, Lengths
<1>4. back = <<>>
    BY <1>3, EmptySeq DEF TInv, ConnType
<1> QED  BY <1>3, <1>4 DEF Sync, Outstanding

\* A command is answered and nothing is late: then it is the one waited for.
LEMMA ServeSynced ==
    ASSUME TInv, Pipe, Serve, Sync', phase' # "data"
    PROVE  pc \in Waits /\ Sync /\ Len(line) = 1 /\ back = <<>> /\ \E x \in Answers : back' = <<x>>
<1>1. UNCHANGED pc
    BY DEF Serve, Untouched
<1>2. PICK x \in Answers : back' = Append(back, x)
    BY ServeOne
<1>3. Len(back') = Len(back) + 1
    BY <1>2 DEF TInv, ConnType
<1>4. Len(line') = Len(line) - 1 /\ Len(line) # 0
    BY ServeOne, EmptySeq DEF TInv, ConnType
<1>5. pc \in Waits /\ Len(back) + Len(line) <= 1
    BY <1>1, <1>3, <1>4, Lengths DEF Sync, Outstanding
<1>6. Len(line) = 1 /\ Len(back) = 0
    BY <1>4, <1>5, Lengths
<1>7. back = <<>>
    BY <1>6, EmptySeq DEF TInv, ConnType
<1> QED  BY <1>2, <1>5, <1>6, <1>7 DEF Sync, Outstanding

(* Mails stay accounted for when the tables and the histories stay, and    *)
(* when whatever leaves the outbox was taken or reported.                  *)
LEMMA LostSame ==
    ASSUME NothingLost, UNCHANGED <<outbox, notice, arrived, taken>>
    PROVE  NothingLost'
BY DEF NothingLost, Told

LEMMA LostLeaves ==
    ASSUME HistoryType, NothingLost, NEW r, outbox \ {r} \subseteq outbox',
           UNCHANGED <<notice, arrived, taken>>,
           r \in Mails => taken[r] > 0 \/ Told(r)
    PROVE  NothingLost'
<1> SUFFICES ASSUME NEW m \in arrived PROVE m \in outbox' \/ taken[m] > 0 \/ Told(m)'
    BY DEF NothingLost
<1>1. Told(m)' <=> Told(m)
    BY DEF Told
<1>2. m \in outbox \/ taken[m] > 0 \/ Told(m)
    BY DEF NothingLost
<1>3. CASE m = r
    BY <1>1, <1>3 DEF HistoryType
<1> QED  BY <1>1, <1>2, <1>3

LEMMA DeleteLeaves ==
    ASSUME NEW r, Delete(r)
    PROVE  outbox \ {r} \subseteq outbox'
BY DEF Delete, Removed, Forgotten, dbVars

LEMMA LogKeeps ==
    ASSUME NEW r, NEW f, Log(r, f)
    PROVE  UNCHANGED outbox
BY DEF Log, Entry

\* The same for steps from the invariant
LEMMA LogStays ==
    ASSUME LInv, UNCHANGED <<outbox, notice, arrived, taken>>
    PROVE  NothingLost'
BY LostSame DEF LInv, Accounted

\* Outside of transactions nothing has to agree.
LEMMA QuietStep ==
    ASSUME NothingLost', pc' \notin Waits \cup {"offer", "settle"}
    PROVE  Accounted'
BY DEF Accounted, Agreement, Waits

LEMMA InitLost == Init => LInv
BY InitPipe DEF Init, LInv, Accounted, Agreement, Reported, NothingLost

LEMMA DeliveryLost ==
    ASSUME TInv, LInv, StartRound \/ Called \/ Delivery
    PROVE  Accounted'
<1> DEFINE Quiet == UNCHANGED <<outbox, notice, arrived, taken>> /\ pc' \notin Waits \cup {"offer", "settle"}
<1>1. CASE StartRound \/ Called
    BY <1>1, LogStays, QuietStep DEF StartRound, Called, StartOnce, StartBounces, dbVars, history, Waits
<1>2. ASSUME NEW h \in Remotes, Skip(h) \/ HandleRemote(h)
      PROVE  Quiet
    BY <1>2 DEF Skip, HandleRemote, dbVars, history, Waits
<1>3. CASE Connect \/ Unreachable \/ EndRemote
    BY <1>3, LogStays, QuietStep DEF Connect, Unreachable, EndRemote, dbVars, history, Waits
<1>4. ASSUME NEW r \in Rows, FailUnreached(r)
      PROVE  Quiet
    BY <1>4, LogKeeps DEF FailUnreached, history, Waits
<1> QED  BY <1>1, <1>2, <1>3, <1>4, LogStays, QuietStep DEF Delivery

LEMMA CrashLost ==
    ASSUME LInv, Crash
    PROVE  (Accounted /\ Reported)'
<1>1. NothingLost'
    BY LogStays DEF Crash, dbVars
<1>2. Accounted'
    BY <1>1, QuietStep DEF Crash, Waits
<1> QED  BY <1>2 DEF Crash, Reported

----------------------------------------------------------------------------
(* Transactions *)

LEMMA MailLost ==
    ASSUME TInv, LInv, StartTransaction \/ MailAnswered
    PROVE  Accounted'
<1>1. Having("ok")' = {} /\ pc' \in {"mail", "offer", "rset"}
    <2>1. CASE StartTransaction
        BY <2>1 DEF StartTransaction, Begin, Having
    <2>2. CASE MailAnswered
        BY <2>2 DEF MailAnswered, Reset, LInv, Pipe, Distances, Having
    <2> QED  BY <2>1, <2>2
<1>2. NothingLost'
    BY LogStays DEF StartTransaction, Begin, MailAnswered, dbVars, history
<1>3. Kept' /\ HasTaken'
    BY <1>1 DEF Kept, HasTaken
<1>4. Agreement'
    BY <1>1, <1>3 DEF Agreement
<1> QED  BY <1>2, <1>4 DEF Accounted

\* The transaction is reset.
LEMMA ResetLost ==
    ASSUME NEW f, Reset(f), UNCHANGED <<st, taken>>, HasTaken, NothingLost'
    PROVE  Accounted'
BY DEF Reset, Accounted, Agreement, HasTaken, Having

LEMMA OfferLost ==
    ASSUME TInv, LInv, NEW r \in Rows, Offer(r)
    PROVE  Accounted'
<1>1. pc = "offer" /\ UNCHANGED <<back, phase, rcpts>>
    BY DEF Offer
<1>2. NothingLost'
    BY LogStays DEF Offer, dbVars, history
<1>3. CASE /\ Send("RCPT", r) /\ pc' = "rcpt"
           /\ UNCHANGED st
    <2>1. ASSUME Sync', phase # "data", phase # "gone"
          PROVE  Kept' /\ back' # <<"ok">>
        <3>1. Sync /\ back = <<>>
            BY <1>1, <1>3, <2>1, SendSynced DEF LInv, Verbs, Waits
        <3>2. Kept
            BY <1>1, <2>1, <3>1 DEF LInv, Accounted, Agreement
        <3> QED  BY <1>1, <1>3, <3>1, <3>2 DEF Kept, Having
    <2>2. Agreement'
        BY <1>1, <1>3, <2>1 DEF Agreement, Kept
    <2> QED  BY <1>2, <2>2 DEF Accounted
<1>4. CASE /\ st' = [st EXCEPT ![r] = "failed"] \/ UNCHANGED st
           /\ UNCHANGED <<line, pc>>
    <2>1. Having("ok")' \subseteq Having("ok")
        BY <1>4 DEF Having
    <2>2. Agreement'
        BY <1>1, <1>4, <2>1 DEF LInv, Accounted, Agreement, Sync, Outstanding, Kept
    <2> QED  BY <1>2, <2>2 DEF Accounted
<1> QED  BY <1>3, <1>4 DEF Offer

LEMMA RcptAnsweredLost ==
    ASSUME TInv, LInv, Patient, RcptAnswered
    PROVE  Accounted'
<1>1. PICK x \in Answers \cup {"none"} :
          /\ Read(x)
          /\ \/ x = "ok" /\ st' = [st EXCEPT ![at] = "ok"] /\ UNCHANGED <<dbVars, touched, mishaps>>
             \/ st' = [st EXCEPT ![at] = "failed"] /\ Log(at, Refused(x))
    BY DEF RcptAnswered
<1>2. pc = "rcpt" /\ pc' = "offer" /\ UNCHANGED <<line, phase, rcpts, notice, arrived, taken>>
    BY DEF RcptAnswered
<1>3. NothingLost'
    BY <1>1, <1>2, LogStays, LogKeeps DEF dbVars
<1>4. ASSUME Sync', phase # "data"
      PROVE  Kept'
    <2>1. Sync /\ (x = "none" \/ back = <<x>>)
        BY <1>1, <1>2, <1>4, ReadSynced DEF LInv, Waits
    <2>2. Kept
        BY <1>2, <1>4, <2>1 DEF LInv, Accounted, Agreement
    <2>3. CASE x = "ok" /\ st' = [st EXCEPT ![at] = "ok"]
        <3>1. phase = "gone" \/ at \in rcpts
            BY <1>2, <1>4, <2>1, <2>3 DEF LInv, Accounted, Agreement
        <3>2. Having("ok")' \subseteq Having("ok") \cup {at}
            BY <2>3 DEF Having
        <3> QED  BY <1>2, <2>2, <3>1, <3>2 DEF Kept
    <2>4. CASE st' = [st EXCEPT ![at] = "failed"]
        <3>1. Having("ok")' \subseteq Having("ok")
            BY <2>4 DEF Having
        <3> QED  BY <1>2, <2>2, <3>1 DEF Kept
    <2> QED  BY <1>1, <2>3, <2>4
<1>5. Agreement'
    BY <1>2, <1>4 DEF Agreement
<1> QED  BY <1>3, <1>5 DEF Accounted

LEMMA AskForDataLost ==
    ASSUME TInv, LInv, AskForData
    PROVE  Accounted'
<1>1. pc = "offer" /\ UNCHANGED <<back, phase, rcpts, st, taken>>
    BY DEF AskForData, history
<1>2. NothingLost'
    BY LogStays DEF AskForData, dbVars, history
<1>3. CASE Having("ok") # {} /\ pc' = "data" /\ Send("DATA", None)
    <2>1. ASSUME Sync', phase # "data", phase # "gone"
          PROVE  Kept'
        <3>1. Sync
            BY <1>1, <1>3, <2>1, SendSynced DEF LInv, Verbs, Waits
        <3>2. Kept
            BY <1>1, <2>1, <3>1 DEF LInv, Accounted, Agreement
        <3> QED  BY <1>1, <3>2 DEF Kept, Having
    <2>2. back # <<"go">>
        <3>1. Replies(back, 0)
            BY <1>1, <1>3 DEF LInv, Pipe, Distances, Free
        <3> QED  BY <3>1 DEF Replies, Goes
    <2>3. Agreement'
        BY <1>1, <1>3, <2>1, <2>2 DEF Agreement, Kept
    <2> QED  BY <1>2, <2>3 DEF Accounted
<1>4. CASE Having("ok") = {} /\ Reset(FALSE)
    BY <1>1, <1>2, <1>4, ResetLost DEF HasTaken
<1> QED  BY <1>3, <1>4 DEF AskForData

LEMMA DataAnsweredLost ==
    ASSUME TInv, LInv, Patient, DataAnswered
    PROVE  Accounted'
<1>1. PICK x \in Answers \cup {"none"} :
          /\ Read(x)
          /\ \/ x = "go" /\ pc' = "dot" /\ Send("content", None)
             \/ pc' = "reject" /\ UNCHANGED line
    BY DEF DataAnswered
<1>2. pc = "data" /\ UNCHANGED <<phase, rcpts, st, taken>>
    BY DEF DataAnswered, history
<1>3. NothingLost'
    BY LogStays DEF DataAnswered, dbVars, history
<1>4. CASE x = "go" /\ pc' = "dot" /\ Send("content", None)
    <2>1. /\ back # <<>> /\ Head(back) = "go" /\ Len(back') = Len(back) - 1
          /\ back \in Seq(Answers) /\ back' \in Seq(Answers)
        BY <1>1, <1>4, ReadOne DEF LInv, TInv, ConnType
    <2>2. Len(back) = 1
        <3>1. 1 \in Goes(back)
            BY <2>1 DEF Goes
        <3> QED  BY <1>2, <3>1 DEF LInv, Pipe, Distances
    <2>3. back = <<"go">> /\ Len(back') = 0
        BY <2>1, <2>2, OneAnswer
    <2>4. Kept
        BY <1>2, <2>3 DEF LInv, Accounted, Agreement
    <2>5. Kept' /\ back' # <<"ok">>
        BY <1>2, <2>3, <2>4 DEF Kept, Having
    <2> QED  BY <1>3, <1>4, <2>5 DEF Accounted, Agreement
<1>5. CASE pc' = "reject" /\ UNCHANGED line
    BY <1>3, <1>5, QuietStep DEF Waits
<1> QED  BY <1>1, <1>4, <1>5

LEMMA DotAnsweredLost ==
    ASSUME TInv, LInv, Patient, DotAnswered
    PROVE  Accounted'
<1>1. PICK x \in Answers \cup {"none"} :
          /\ Read(x)
          /\ \/ x = "ok" /\ Reset(FALSE)
             \/ pc' = "reject" /\ UNCHANGED line
    BY DEF DotAnswered
<1>2. pc = "dot" /\ UNCHANGED <<phase, rcpts, st, taken>>
    BY DEF DotAnswered
<1>3. NothingLost'
    BY LogStays DEF DotAnswered, dbVars
<1>4. CASE x = "ok" /\ Reset(FALSE)
    <2>1. back # <<>> /\ Head(back) = "ok" /\ back \in Seq(Answers)
        BY <1>1, <1>4, ReadOne DEF LInv, TInv, ConnType
    <2>2. Len(back) = 1
        <3>1. Len(back) + Len(line) <= 1
            BY <1>2 DEF LInv, Pipe, Channel, Outstanding
        <3>2. Len(back) # 0
            BY <2>1, EmptySeq
        <3>3. Len(back) \in Nat /\ Len(line) \in Nat
            BY Lengths
        <3>4. \A m, n \in Nat : m + n <= 1 /\ m # 0 => m = 1
            OBVIOUS
        <3> QED  BY <3>1, <3>2, <3>3, <3>4
    <2>3. back = <<"ok">>
        BY <2>1, <2>2, OneAnswer
    <2>4. HasTaken
        BY <1>2, <2>3 DEF LInv, Accounted, Agreement
    <2> QED  BY <1>2, <1>3, <1>4, <2>4, ResetLost
<1>5. CASE pc' = "reject" /\ UNCHANGED line
    BY <1>3, <1>5, QuietStep DEF Waits
<1> QED  BY <1>1, <1>4, <1>5

LEMMA RejectLost ==
    ASSUME TInv, LInv, Rejected \/ \E r \in Rows : RejectRow(r)
    PROVE  Accounted'
<1>1. CASE Rejected
    <2>1. NothingLost'
        BY <1>1, LogStays DEF Rejected, dbVars, history
    <2>2. Reset(perm) /\ UNCHANGED <<st, taken>> /\ HasTaken
        BY <1>1 DEF Rejected, history, HasTaken
    <2> QED  BY <2>1, <2>2, ResetLost
<1>2. ASSUME NEW r \in Rows, RejectRow(r)
      PROVE  Accounted'
    <2>1. UNCHANGED <<outbox, notice, arrived, taken>> /\ pc' = "reject"
        BY <1>2, LogKeeps DEF RejectRow, history
    <2> QED  BY <2>1, LogStays, QuietStep DEF Waits
<1> QED  BY <1>1, <1>2

LEMMA ResetAnsweredLost ==
    ASSUME TInv, LInv, ResetAnswered
    PROVE  Accounted'
<1>1. NothingLost'
    BY LogStays DEF ResetAnswered, dbVars, history
<1>2. pc' = "settle" /\ HasTaken /\ UNCHANGED <<st, taken>> /\ left' \subseteq DOMAIN st
    BY DEF ResetAnswered, history, LInv, Accounted, Agreement
<1> QED  BY <1>1, <1>2 DEF Accounted, Agreement, HasTaken, Having

\* What is deleted has been taken.
LEMMA SettleLost ==
    ASSUME TInv, LInv, NEW r \in Rows, Settle(r)
    PROVE  Accounted'
<1>1. /\ HasTaken /\ left \subseteq DOMAIN st /\ UNCHANGED <<pc, st, taken, notice, arrived>>
      /\ pc = "settle" /\ r \in left /\ left' = left \ {r}
    BY DEF Settle, LInv, Accounted, Agreement
<1>2. NothingLost'
    <2>1. CASE st[r] = "ok" /\ Delete(r)
        <3>1. taken[r] > 0
            BY <1>1, <2>1 DEF HasTaken, Having
        <3> QED  BY <1>1, <2>1, <3>1, DeleteLeaves, LostLeaves DEF TInv, LInv, Accounted
    <2>2. CASE Log(r, perm)
        BY <1>1, <2>2, LogKeeps, LogStays
    <2> QED  BY <2>1, <2>2 DEF Settle
<1>3. Agreement'
    BY <1>1 DEF Agreement, HasTaken, Having
<1> QED  BY <1>2, <1>3 DEF Accounted

LEMMA TransactionLost ==
    ASSUME TInv, LInv, Patient, Transaction
    PROVE  Accounted'
<1>1. CASE EndTransaction
    <2>1. UNCHANGED <<outbox, notice, arrived, taken>> /\ pc' = "next"
        BY <1>1 DEF EndTransaction, dbVars, history
    <2> QED  BY <2>1, LogStays, QuietStep DEF Waits
<1> QED  BY <1>1, MailLost, OfferLost, RcptAnsweredLost, AskForDataLost, DataAnsweredLost,
            DotAnsweredLost, RejectLost, ResetAnsweredLost, SettleLost DEF Transaction

\* Until bounces are written, the sender of none is being told.
LEMMA ReportedStays ==
    ASSUME LInv, StartRound \/ Called \/ Delivery \/ Transaction
    PROVE  Reported'
<1> DEFINE Stays == UNCHANGED copy /\ {pc, pc'} \cap {"notify", "judge"} = {}
<1>1. CASE StartRound \/ Called
    BY <1>1 DEF StartRound, Called, StartBounces, StartOnce, bounceVars, LInv, Reported
<1>2. CASE Delivery
    <2>1. Stays
        BY <1>2 DEF Delivery, Skip, HandleRemote, Connect, Unreachable, EndRemote, FailUnreached,
                    bounceVars
    <2> QED  BY <2>1 DEF LInv, Reported
<1>3. CASE Transaction
    <2>1. CASE StartTransaction \/ MailAnswered \/ AskForData \/ DataAnswered
        BY <2>1 DEF StartTransaction, Begin, MailAnswered, Reset, AskForData, DataAnswered,
                    bounceVars, LInv, Reported
    <2>2. CASE DotAnswered \/ Rejected \/ ResetAnswered \/ EndTransaction \/ RcptAnswered
        BY <2>2 DEF DotAnswered, Rejected, ResetAnswered, EndTransaction, RcptAnswered, Reset,
                    bounceVars, LInv, Reported
    <2>3. ASSUME NEW r \in Rows, Offer(r) \/ RejectRow(r) \/ Settle(r)
          PROVE  Reported'
        BY <2>3 DEF Offer, RejectRow, Settle, bounceVars, LInv, Reported
    <2> QED  BY <1>3, <2>1, <2>2, <2>3 DEF Transaction
<1> QED  BY <1>1, <1>2, <1>3

----------------------------------------------------------------------------
(* Bounces *)

\* A notice that is written takes none away.
LEMMA ToldStays ==
    ASSUME DbType, NEW n \in Unused, NEW e, notice' = [notice EXCEPT ![n] = e], NEW m, Told(m)
    PROVE  Told(m)'
BY DEF Told, Unused, DbType

LEMMA InsertNoticeLost ==
    ASSUME TInv, LInv, InsertNotice
    PROVE  (Accounted /\ Reported)'
<1>1. /\ pc = "notify" /\ pc' \in {"notify", "judge"} /\ (pc' = "judge" \/ (sound' /\ copy' = copy + 1))
      /\ UNCHANGED <<at, draft, arrived, taken>> /\ outbox \subseteq outbox'
    BY DEF InsertNotice, Inserted, history
<1>2. at \in Mails /\ at \in draft /\ (copy > 0 => Told(at)) /\ copy \in Nat
    BY <1>1 DEF LInv, Accounted, Reported, TInv, BounceType
<1>3. CASE Unused # {} /\ Inserted(NextId)
    <2> DEFINE e == [to |-> Addressee, about |-> draft, first |-> text']
    <2>1. NextId \in Unused
        BY <1>3 DEF NextId, Unused
    <2>2. notice' = [notice EXCEPT ![NextId] = e] /\ NextId \in Notices
        BY <1>3, <2>1 DEF Inserted, Unused
    <2>3. e # None /\ e.to = Addressee /\ e.about = draft
        <3>1. Addressee \in Addresses /\ text' \in Notices
            BY <1>1, <1>2, <1>3, <2>1, TablesAssumption
               DEF Addressee, TInv, BounceType, Inserted, Unused
        <3>2. e \in NoticeText
            BY <3>1 DEF NoticeText, TInv, BounceType
        <3> QED  BY <3>2, NoticeAssumption
    <2> HIDE DEF e
    <2>4. Told(at)'
        <3>1. CASE copy = 0
            <4>1. notice'[NextId] = e /\ e.to = SenderOf[at]
                BY <2>2, <2>3, <3>1 DEF TInv, DbType, Addressee
            <4> QED  BY <1>1, <1>2, <2>2, <2>3, <4>1 DEF Told
        <3>2. CASE copy > 0
            <4>1. Told(at)
                BY <1>2, <3>2
            <4>2. \E n \in Notices : notice'[n] # None /\ at \in notice'[n].about
                                     /\ notice'[n].to = SenderOf[at]
                BY <2>1, <2>2, <4>1 DEF Told, Unused, TInv, DbType
            <4> QED  BY <1>1, <4>2 DEF Told
        <3> QED  BY <1>2, <3>1, <3>2
    <2>5. NothingLost'
        BY <1>1, <2>1, <2>2, ToldStays DEF LInv, Accounted, NothingLost, TInv
    <2>6. Reported'
        BY <1>1, <1>2, <2>4 DEF Reported
    <2> QED  BY <1>1, <2>5, <2>6, QuietStep DEF Waits
<1>4. CASE sound' = FALSE /\ UNCHANGED <<notice, outbox, text>>
    <2>1. NothingLost' /\ Reported'
        BY <1>1, <1>4, LogStays DEF Reported
    <2> QED  BY <1>1, <2>1, QuietStep DEF Waits
<1> QED  BY <1>3, <1>4 DEF InsertNotice

LEMMA ComposeLost ==
    ASSUME TInv, LInv, NEW m \in Rows, Compose(m)
    PROVE  (Accounted /\ Reported)'
<1>1. /\ UNCHANGED <<outbox, notice, arrived, taken>>
      /\ pc = "bounce" /\ pc' = "notify" /\ at' \in draft'
    BY DEF Compose, dbVars, history
<1>2. NothingLost'
    BY <1>1, LogStays
<1>3. Reported'
    <2>1. copy = 0 /\ UNCHANGED copy
        BY <1>1 DEF Compose, LInv, Accounted, Reported
    <2> QED  BY <1>1, <2>1 DEF Reported
<1> QED  BY <1>1, <1>2, <1>3, QuietStep DEF Waits

\* Notices that fail are given up, but no mail is.
LEMMA GiveUpLost ==
    ASSUME TInv, LInv, NEW n \in Rows, GiveUp(n)
    PROVE  (Accounted /\ Reported)'
<1>1. /\ Delete(n) /\ UNCHANGED <<pc, copy, notice, arrived, taken>>
      /\ pc = "bounce" /\ n \in Notices
    BY DEF GiveUp, history
<1>2. NothingLost'
    BY <1>1, RowsAssumption, DeleteLeaves, LostLeaves DEF TInv, LInv, Accounted
<1>3. Accounted'
    BY <1>1, <1>2, QuietStep DEF Waits
<1> QED  BY <1>1, <1>3 DEF LInv, Reported

LEMMA BouncedLost ==
    ASSUME TInv, LInv, Bounced
    PROVE  (Accounted /\ Reported)'
<1>1. /\ UNCHANGED <<notice, arrived, taken>>
      /\ pc = "judge" /\ pc' = "bounce" /\ copy' = 0
    BY DEF Bounced
<1>2. NothingLost'
    <2>1. CASE sound /\ Delete(at)
        <3>1. Told(at)
            BY <1>1, <2>1 DEF LInv, Reported
        <3> QED  BY <1>1, <2>1, <3>1, DeleteLeaves, LostLeaves DEF TInv, LInv, Accounted
    <2>2. CASE UNCHANGED dbVars
        BY <1>1, <2>2, LogStays DEF dbVars
    <2> QED  BY <2>1, <2>2 DEF Bounced
<1>3. Accounted'
    BY <1>1, <1>2, QuietStep DEF Waits
<1> QED  BY <1>1, <1>3 DEF LInv, Reported

LEMMA RestLost ==
    ASSUME TInv, LInv, Rest
    PROVE  (Accounted /\ Reported)'
<1>1. /\ UNCHANGED <<outbox, notice, arrived, taken, copy>>
      /\ pc \in {"bounce", "round"} /\ pc' = "idle"
    BY DEF Rest, dbVars, history
<1>2. Accounted'
    BY <1>1, LogStays, QuietStep DEF Waits
<1> QED  BY <1>1, <1>2 DEF LInv, Reported

----------------------------------------------------------------------------
(* The server, other processes, and time *)

\* The server reads a command, and then nothing is late: it is the command the
\* client waits for.
LEMMA ServeWaited ==
    ASSUME TInv, Pipe, Serve, Sync', phase' # "data", pc # "dot"
    PROVE  /\ pc \in Waits /\ Sync /\ phase # "data" /\ \E x \in Answers : back' = <<x>>
           /\ pc = "mail" => OnMail
           /\ pc = "rcpt" => OnRcpt /\ Head(line).to = at
           /\ pc = "data" => OnData
<1>1. /\ pc \in Waits /\ Sync /\ Len(line) = 1 /\ back = <<>> /\ \E x \in Answers : back' = <<x>>
      /\ line # <<>> /\ Head(line) = line[1]
    BY ServeSynced, ServeOne
<1>2. /\ pc = "mail" => line[1].verb = "MAIL"
      /\ pc = "rcpt" => line[1] = [verb |-> "RCPT", to |-> at]
      /\ pc = "data" => line[1].verb = "DATA"
      /\ pc = "rset" => line[1].verb = "RSET"
    BY <1>1 DEF Pipe, Channel, LastIs
<1>3. line[1].verb # "content"
    BY <1>1, <1>2 DEF Waits
<1>4. phase # "data"
    BY <1>1, <1>3 DEF Serve, OnContent
<1>5. /\ pc = "mail" => OnMail
      /\ pc = "rcpt" => OnRcpt
      /\ pc = "data" => OnData
    BY <1>1, <1>2, <1>4 DEF Serve, OnMail, OnRcpt, OnData, OnReset
<1> QED  BY <1>1, <1>2, <1>4, <1>5

\* A 354 is given to the DATA the client waits for.
LEMMA ServeGo ==
    ASSUME TInv, Pipe, Serve, pc = "data", back' = <<"go">>
    PROVE  Sync /\ phase # "data" /\ OnData
<1>1. back # <<"go">> /\ line # <<>>
    <2>1. line # <<>> /\ \A i \in Goes(back) : line = <<>>
        BY ServeOne DEF Pipe, Distances
    <2>2. back = <<"go">> => 1 \in Goes(back)
        BY DEF Goes
    <2> QED  BY <2>1, <2>2
<1>2. PICK x \in Answers : back' = Append(back, x)
                           /\ (x = "go" => Head(line).verb = "DATA" /\ phase # "data")
    BY <1>1, ServeOne
<1>3. Len(back') = Len(back) + 1 /\ back'[Len(back) + 1] = x /\ Len(back') = 1
    BY <1>2 DEF TInv, ConnType
<1>4. Len(back) = 0
    <2>1. \A n \in Nat : 1 = n + 1 => n = 0
        OBVIOUS
    <2> QED  BY <1>3, <2>1, Lengths
<1>5. x = "go"
    BY <1>3, <1>4
<1>6. line[1].verb = "DATA" /\ phase # "data" /\ Head(line) = line[1]
    BY <1>2, <1>5, ServeOne
<1>7. Len(line) = 1
    <2>1. 1 \in 1..Len(line)
        BY <1>1, EmptySeq DEF TInv, ConnType
    <2> QED  BY <1>6, <2>1 DEF Pipe, Distances
<1>8. Sync
    BY <1>4, <1>7 DEF Sync, Outstanding, Waits
<1>9. OnData
    BY <1>6 DEF Serve, OnMail, OnRcpt, OnReset
<1> QED  BY <1>6, <1>8, <1>9

\* What is on its way when the client waits for the end of a mail is its content.
LEMMA ServeDot ==
    ASSUME TInv, Pipe, Serve, pc = "dot"
    PROVE  /\ line # <<>> /\ line' = <<>> /\ Head(line).verb = "content"
           /\ phase = "data" /\ back = <<>>
<1>1. line # <<>> /\ Len(line) = 1 /\ Len(back) = 0
    <2>1. line # <<>> /\ Len(back) + Len(line) <= 1
        BY ServeOne DEF Pipe, Channel, Outstanding
    <2>2. Len(line) # 0
        BY <2>1, EmptySeq DEF TInv, ConnType
    <2>3. \A m, n \in Nat : m + n <= 1 /\ n # 0 => m = 0 /\ n = 1
        OBVIOUS
    <2> QED  BY <2>1, <2>2, <2>3, Lengths
<1>2. Head(line).verb = "content" /\ 1 \in Contents(line)
    BY <1>1, ServeOne DEF Pipe, Channel, LastIs, Contents
<1>3. phase = "data"
    BY <1>2 DEF Pipe, ContentInv
<1>4. line' = <<>>
    BY <1>1, ServeOne, HeadTailProperties, EmptySeq DEF TInv, ConnType
<1>5. back = <<>>
    BY <1>1, EmptySeq DEF TInv, ConnType
<1> QED  BY <1>1, <1>2, <1>3, <1>4, <1>5

LEMMA ServeLost ==
    ASSUME TInv, LInv, Serve
    PROVE  (Accounted /\ Reported)'
<1>1. UNCHANGED <<pc, st, at, left, outbox, notice, arrived, copy, draft, sound>> /\ phase # "gone"
    BY DEF Serve, Untouched, dbVars, bounceVars
<1>2. \A r \in Rows : taken[r] > 0 => taken'[r] > 0
    <2>1. taken' \in {taken, Served}
        BY DEF Serve, OnContent, OnMail, OnRcpt, OnData, OnReset
    <2>2. \A r \in Rows : taken[r] > 0 => Served[r] > 0
        BY DEF Served, TInv, HistoryType
    <2> QED  BY <2>1, <2>2
<1>3. NothingLost'
    BY <1>1, <1>2 DEF LInv, Accounted, NothingLost, Told, TInv, HistoryType, Rows
<1>4. Having("ok")' = Having("ok") /\ Having("ok") \subseteq Rows
    BY <1>1 DEF Having, TInv, RoundType
<1>5. HasTaken => HasTaken'
    BY <1>2, <1>4 DEF HasTaken
\* Commands are answered: what was accepted stays so.
<1>6. ASSUME pc \in {"offer", "rcpt", "data"}, Sync', phase' # "data"
      PROVE  /\ Kept'
             /\ pc = "rcpt" /\ back' = <<"ok">> => at \in rcpts'
    <2>1. pc \in {"rcpt", "data"} /\ Sync /\ phase # "data" /\ \E x \in Answers : back' = <<x>>
        BY <1>6, ServeWaited DEF LInv, Waits
    <2>2. Having("ok") \subseteq rcpts
        BY <1>1, <2>1 DEF LInv, Accounted, Agreement, Kept
    <2>3. CASE pc = "rcpt"
        <3>1. OnRcpt /\ Head(line).to = at
            BY <1>6, <2>3, ServeWaited DEF LInv
        <3>2. rcpts' = rcpts \cup {at} \/ (rcpts' = rcpts /\ back' # <<"ok">>)
            <4>1. back = <<>>
                BY <1>6, ServeSynced DEF LInv
            <4> QED  BY <3>1, <4>1 DEF OnRcpt, Answer, Refusals
        <3> QED  BY <1>4, <2>2, <3>2 DEF Kept
    <2>4. CASE pc = "data"
        <3>1. OnData
            BY <1>6, <2>4, ServeWaited DEF LInv
        <3> QED  BY <1>4, <2>2, <2>4, <3>1 DEF OnData, Kept
    <2> QED  BY <2>1, <2>3, <2>4
\* A 354 is given for what was accepted.
<1>7. ASSUME pc = "data", back' = <<"go">>
      PROVE  Kept'
    <2>1. Sync /\ phase # "data" /\ OnData
        BY <1>7, ServeGo DEF LInv
    <2>2. Having("ok") \subseteq rcpts
        BY <1>1, <1>7, <2>1 DEF LInv, Accounted, Agreement, Kept
    <2> QED  BY <1>4, <2>1, <2>2 DEF OnData, Kept
\* The content is taken for all that were accepted.
<1>8. ASSUME pc = "dot"
      PROVE  line' = <<>> /\ (back' = <<"ok">> => HasTaken')
    <2>1. /\ line # <<>> /\ line' = <<>> /\ Head(line).verb = "content"
          /\ phase = "data" /\ back = <<>>
        BY <1>8, ServeDot DEF LInv
    <2>2. Having("ok") \subseteq rcpts
        BY <1>1, <1>8, <2>1 DEF LInv, Accounted, Agreement, Kept
    <2>3. back' = <<"ok">> => taken' = Served
        BY <2>1 DEF Serve, OnContent, Answer, Refusals
    <2>4. \A r \in Having("ok") : Served[r] > 0
        BY <1>4, <2>2 DEF Served, TInv, HistoryType
    <2> QED  BY <1>4, <2>1, <2>3, <2>4 DEF HasTaken
<1>9. Agreement'
    BY <1>1, <1>5, <1>6, <1>7, <1>8 DEF LInv, Accounted, Agreement
<1>10. Reported'
    BY <1>1 DEF LInv, Reported, Told
<1> QED  BY <1>3, <1>9, <1>10 DEF Accounted

LEMMA DropLost ==
    ASSUME TInv, LInv, Drop
    PROVE  (Accounted /\ Reported)'
<1>1. /\ line' = <<>> /\ phase' = "gone" /\ back' \in {back, <<>>}
      /\ UNCHANGED <<pc, st, at, left, outbox, notice, arrived, taken, copy, draft, sound>>
    BY DEF Drop, Untouched, dbVars, bounceVars
<1>2. NothingLost'
    BY <1>1, LogStays
<1>3. Agreement'
    BY <1>1 DEF LInv, Accounted, Agreement, Kept, HasTaken, Having
<1>4. Reported'
    BY <1>1 DEF LInv, Reported, Told
<1> QED  BY <1>2, <1>3, <1>4 DEF Accounted

\* What other processes do to the tables, while no statement is open
LEMMA ForeignLost ==
    ASSUME TInv, LInv, pc \notin {"notify", "judge"}, NothingLost',
           \A r \in Rows : taken[r] > 0 => taken'[r] > 0,
           UNCHANGED <<pc, st, at, left, copy>>, UNCHANGED connVars
    PROVE  (Accounted /\ Reported)'
<1>1. Agreement'
    <2>1. Having("ok")' = Having("ok") /\ Having("ok") \subseteq Rows
        BY DEF Having, TInv, RoundType
    <2>2. (HasTaken => HasTaken') /\ (Kept => Kept') /\ (Sync' => Sync)
        BY <2>1 DEF HasTaken, Kept, Sync, Outstanding, connVars
    <2> QED  BY <2>1, <2>2 DEF LInv, Accounted, Agreement, connVars
<1> QED  BY <1>1 DEF LInv, Accounted, Reported

LEMMA QueueLost ==
    ASSUME TInv, LInv, NEW m \in Mails, Queue(m)
    PROVE  (Accounted /\ Reported)'
<1>1. NothingLost'
    BY DEF Queue, LInv, Accounted, NothingLost, Told
<1> QED  BY <1>1, ForeignLost DEF Queue, Unlocked, bounceVars

\* A notice another dispatchd writes tells of one mail.
LEMMA NoticeWritten ==
    ASSUME TInv, NEW n \in Notices, NEW e \in NoticeText, NEW r \in Mails, notice[n] = None,
           e.to = SenderOf[r], e.about = {r}, notice' = [notice EXCEPT ![n] = e]
    PROVE  \A m \in Mails : Told(m)' <=> Told(m) \/ m = r
<1>1. \A q \in Notices : notice'[q] = IF q = n THEN e ELSE notice[q]
    BY DEF TInv, DbType
<1> QED  BY <1>1, NoticeAssumption DEF Told

LEMMA ElsewhereLost ==
    ASSUME TInv, LInv, NEW r \in Rows, Elsewhere(r)
    PROVE  (Accounted /\ Reported)'
<1>1. UNCHANGED <<pc, st, at, left, copy, arrived>> /\ UNCHANGED connVars
      /\ pc \notin {"notify", "judge"}
    BY ElsewhereTables DEF bounceVars
<1>2. \A q \in Rows : taken[q] > 0 => taken'[q] > 0
    BY ElsewhereTables DEF TakenElsewhere, FailedElsewhere, AlsoTaken, TInv, HistoryType
<1>3. NothingLost'
    <2> SUFFICES ASSUME NEW m \in arrived
                 PROVE  m \in outbox' \/ taken'[m] > 0 \/ Told(m)'
        BY <1>1 DEF NothingLost
    <2>1. m \in Mails /\ m \in Rows
        BY DEF TInv, HistoryType, Rows
    <2>2. m \in outbox \/ taken[m] > 0 \/ Told(m)
        BY DEF LInv, Accounted, NothingLost
    <2>3. CASE TakenElsewhere(r)
        <3>1. taken'[r] > 0 /\ outbox \ {r} \subseteq outbox' /\ UNCHANGED notice
            BY <2>3 DEF TakenElsewhere, AlsoTaken, Removed, dbVars, TInv, HistoryType
        <3> QED  BY <1>2, <2>1, <2>2, <3>1 DEF Told
    <2>4. CASE FailedElsewhere(r)
        BY <1>2, <2>1, <2>2, <2>4 DEF FailedElsewhere, Told
    <2>5. CASE r \in Notices /\ Removed(r) /\ UNCHANGED notice
        BY <1>2, <2>1, <2>2, <2>5, RowsAssumption DEF Removed, Told
    <2>6. ASSUME NEW n \in Notices, NEW e \in NoticeText, notice[n] = None, r \in Mails,
                 e.to = SenderOf[r], e.about = {r}, notice' = [notice EXCEPT ![n] = e],
                 outbox \ {r} \subseteq outbox'
          PROVE  m \in outbox' \/ taken'[m] > 0 \/ Told(m)'
        <3>1. Told(m)' <=> Told(m) \/ m = r
            BY <2>1, <2>6, NoticeWritten
        <3> QED  BY <1>2, <2>1, <2>2, <2>6, <3>1
    <2> QED  BY <2>3, <2>4, <2>5, <2>6, ElsewhereTables
<1> QED  BY <1>1, <1>2, <1>3, ForeignLost

\* Steps that leave all of it alone
LEMMA SameLost ==
    ASSUME LInv, UNCHANGED <<pc, st, at, left, outbox, notice, arrived, taken, copy, draft, sound>>,
           UNCHANGED connVars
    PROVE  (Accounted /\ Reported)'
<1>1. NothingLost'
    BY LogStays
<1>2. Agreement'
    BY DEF LInv, Accounted, Agreement, Sync, Outstanding, Kept, HasTaken, Having, connVars
<1>3. Reported'
    BY DEF LInv, Reported, Told
<1> QED  BY <1>1, <1>2, <1>3 DEF Accounted

LEMMA NextLost ==
    ASSUME TInv, LInv, Patient, [Next]_vars
    PROVE  LInv'
<1> SUFFICES (Accounted /\ Reported)'
    BY NextPipe DEF LInv
<1>1. CASE StartRound \/ Called \/ Delivery \/ Transaction
    BY <1>1, DeliveryLost, TransactionLost, ReportedStays
<1>2. CASE Bouncing
    BY <1>2, GiveUpLost, ComposeLost, InsertNoticeLost, BouncedLost, RestLost DEF Bouncing
<1>3. CASE Crash
    BY <1>3, CrashLost
<1>4. CASE Environment
    <2>1. ASSUME NEW r \in Rows, Elapse(r)
          PROVE  (Accounted /\ Reported)'
        BY <2>1, SameLost DEF Elapse, bounceVars, history
    <2> QED  BY <1>4, <2>1, ServeLost, DropLost, QueueLost, ElsewhereLost DEF Environment
<1>5. CASE UNCHANGED vars
    BY <1>5, SameLost DEF vars, bounceVars, dbVars, history
<1> QED  BY <1>1, <1>2, <1>3, <1>4, <1>5 DEF Next

\* As long as at most three answers are given up that then come after all, and each
\* comes in a piece of its own, no mail is lost: through crashes, dropped connections,
\* failing statements and other processes, dispatchd deletes only what a server has
\* taken or whose sender has been told (logic_handle_transaction, mail_dispatch,
\* logic_generate_bounces).
THEOREM NothingLostInTime ==
    ASSUME Patient
    PROVE  Spec => []NothingLost
<1>1. Init => TInv /\ LInv
    BY InitType, InitLost
<1>2. TInv /\ LInv /\ [Next]_vars => TInv' /\ LInv'
    BY NextType, NextLost
<1>3. LInv => NothingLost
    BY DEF LInv, Accounted
<1> QED  BY <1>1, <1>2, <1>3, PTL DEF Spec

----------------------------------------------------------------------------
(* One attempt counts as one failure                                       *)

Under == {"mail", "offer", "rcpt", "data", "dot", "reject", "rset"}

(* A row is in one transaction of the remote, and each loop takes up only  *)
(* rows no loop before it has dealt with: while the transaction is under   *)
(* way the status "failed" says so, the others are as they were read.      *)
OnceInv ==
    /\ \A S, T \in txs : S # T => S \cap T = {}
    /\ \A T \in txs : T \cap (touched \cup DOMAIN st) = {}
    /\ pc = "connect" => touched = {}
    /\ pc = "unreached" => txs = {}
    /\ pc \in {"connect", "unreached", "next"} => DOMAIN st = {}
    /\ pc \in {"unreached", "settle"} => left \cap touched = {}
    /\ pc \in Under => \A r \in DOMAIN st : st[r] # "failed" => r \notin touched
    /\ pc \in {"mail", "offer", "rcpt"} => left \subseteq Having("ready")
    /\ pc = "rcpt" => at \in Having("ready") \ left
    /\ pc = "settle" => left \subseteq DOMAIN st
    /\ pc \in {"idle", "round", "bounce", "notify", "judge"} => DOMAIN st = {}

NoSecondFailure ==
    \A r \in Rows : fails'[r] > fails[r] => r \notin touched \/ Elsewhere(r)

LEMMA LogOnce ==
    ASSUME TInv, NEW r \in Rows, NEW f, Log(r, f), r \notin touched
    PROVE  NoSecondFailure /\ touched' = touched \cup {r}
BY DEF Log, Entry, NoSecondFailure, TInv, DbType

LEMMA DeleteOnce ==
    ASSUME TInv, NEW r \in Rows, Delete(r)
    PROVE  NoSecondFailure
BY DEF Delete, Removed, Forgotten, dbVars, NoSecondFailure, TInv, DbType

LEMMA SameOnce ==
    ASSUME TInv, UNCHANGED fails
    PROVE  NoSecondFailure
BY DEF NoSecondFailure, TInv, DbType

\* Between remotes, and while bounces are written
LEMMA IdleOnce ==
    ASSUME TInv, OnceInv, UNCHANGED <<txs, st, touched>>,
           {pc, pc'} \subseteq {"idle", "round", "bounce", "notify", "judge"}
    PROVE  OnceInv'
BY DEF OnceInv, Under

LEMMA DeliveryOnce ==
    ASSUME TInv, OnceInv, Delivery
    PROVE  OnceInv' /\ NoSecondFailure
<1>1. ASSUME NEW h \in Remotes, Skip(h)
      PROVE  OnceInv' /\ NoSecondFailure
    BY <1>1, IdleOnce, SameOnce DEF Skip, dbVars
<1>2. ASSUME NEW h \in Remotes, HandleRemote(h)
      PROVE  OnceInv' /\ NoSecondFailure
    <2>1. PICK S : Transactions(S) /\ touched' = {}
        BY <1>2 DEF HandleRemote, ReadTransactions
    <2> DEFINE All == {{n \in S : Letter(n) = Letter(r)} : r \in S}
    <2>2. txs' \subseteq All
        BY <2>1 DEF Transactions
    <2>3. \A A, B \in txs' : A # B => A \cap B = {}
        BY <2>2
    <2>4. pc' = "connect" /\ UNCHANGED st /\ DOMAIN st = {}
        BY <1>2 DEF HandleRemote, OnceInv
    <2>5. OnceInv'
        BY <2>1, <2>3, <2>4 DEF OnceInv, Under
    <2>6. NoSecondFailure
        BY <1>2, SameOnce DEF HandleRemote, dbVars
    <2> QED  BY <2>5, <2>6
<1>3. CASE Connect
    <2>1. OnceInv'
        BY <1>3 DEF Connect, OnceInv, Under
    <2> QED  BY <1>3, <2>1, SameOnce DEF Connect, dbVars
<1>4. CASE Unreachable
    <2>1. OnceInv'
        BY <1>4 DEF Unreachable, OnceInv, Under
    <2> QED  BY <1>4, <2>1, SameOnce DEF Unreachable, dbVars
<1>5. CASE EndRemote
    <2>1. OnceInv'
        BY <1>5 DEF EndRemote, OnceInv, Under
    <2> QED  BY <1>5, <2>1, SameOnce DEF EndRemote, dbVars
<1>6. ASSUME NEW r \in Rows, FailUnreached(r)
      PROVE  OnceInv' /\ NoSecondFailure
    <2>1. /\ pc = "unreached" /\ r \in left /\ left' = left \ {r} /\ Log(r, perm)
          /\ UNCHANGED <<pc, txs, st>>
        BY <1>6 DEF FailUnreached
    <2>2. r \notin touched /\ left \cap touched = {}
        BY <2>1 DEF OnceInv
    <2>3. NoSecondFailure /\ touched' = touched \cup {r}
        BY <2>1, <2>2, LogOnce
    <2> QED  BY <2>1, <2>2, <2>3 DEF OnceInv, Under
<1> QED  BY <1>1, <1>2, <1>3, <1>4, <1>5, <1>6 DEF Delivery

\* Waiting for answers, the rows of the transaction stay as they are.
LEMMA WaitOnce ==
    ASSUME TInv, OnceInv, UNCHANGED <<fails, txs, st, touched>>,
           \/ {pc, pc'} \subseteq {"data", "dot", "reject", "rset"}
           \/ pc \in {"mail", "offer"} /\ pc' \in {"data", "rset"}
           \/ pc = "mail" /\ pc' = "offer" /\ UNCHANGED left
    PROVE  OnceInv' /\ NoSecondFailure
BY SameOnce DEF OnceInv, Under, Having

LEMMA AnswersOnce ==
    ASSUME TInv, OnceInv,
           MailAnswered \/ AskForData \/ DataAnswered \/ DotAnswered \/ Rejected
    PROVE  OnceInv' /\ NoSecondFailure
<1>1. UNCHANGED <<fails, txs, st, touched>>
    BY DEF MailAnswered, AskForData, DataAnswered, DotAnswered, Rejected, dbVars
<1>2. CASE MailAnswered \/ AskForData
    BY <1>1, <1>2, WaitOnce DEF MailAnswered, AskForData, Reset
<1>3. CASE DataAnswered \/ DotAnswered \/ Rejected
    BY <1>1, <1>3, WaitOnce DEF DataAnswered, DotAnswered, Rejected, Reset
<1> QED  BY <1>2, <1>3

LEMMA TransactionOnce ==
    ASSUME TInv, OnceInv, Transaction
    PROVE  OnceInv' /\ NoSecondFailure
<1>1. CASE StartTransaction
    <2>1. PICK T \in {{}} \cup txs :
              /\ Begin(T) /\ txs' \subseteq txs
              /\ T \cap touched = {} /\ \A S \in txs' : S \cap T = {}
        <3>1. CASE blank > 0 /\ UNCHANGED txs /\ Begin({})
            BY <3>1
        <3>2. CASE \E T \in txs : txs' = txs \ {T} /\ Begin(T)
            BY <3>2 DEF OnceInv
        <3> QED  BY <1>1, <3>1, <3>2 DEF StartTransaction
    <2>2. /\ DOMAIN st' = T /\ (\A r \in T : st'[r] = "ready") /\ left' = T /\ pc' = "mail"
          /\ UNCHANGED <<touched, fails>>
        BY <2>1 DEF Begin, dbVars
    <2>3. left' \subseteq Having("ready")'
        BY <2>2 DEF Having
    <2> QED  BY <1>1, <2>1, <2>2, <2>3, SameOnce DEF OnceInv, Under
<1>2. ASSUME NEW r \in Rows, Offer(r)
      PROVE  OnceInv' /\ NoSecondFailure
    <2>1. /\ pc = "offer" /\ r \in left /\ left' = left \ {r} /\ UNCHANGED <<txs, fails>>
          /\ r \in DOMAIN st /\ left \subseteq Having("ready") /\ st[r] = "ready"
        BY <1>2 DEF Offer, OnceInv, dbVars, Having
    <2>2. CASE pc' = "rcpt" /\ at' = r /\ UNCHANGED <<st, touched>>
        BY <2>1, <2>2, SameOnce DEF OnceInv, Under, Having
    <2>3. CASE /\ UNCHANGED pc /\ st' = [st EXCEPT ![r] = "failed"]
               /\ touched' = touched \cup {r}
        BY <2>1, <2>3, SameOnce DEF OnceInv, Under, Having
    <2>4. CASE UNCHANGED <<pc, st, touched>>
        BY <2>1, <2>4, SameOnce DEF OnceInv, Under, Having
    <2> QED  BY <1>2, <2>2, <2>3, <2>4 DEF Offer
<1>3. CASE RcptAnswered
    <2>1. /\ pc = "rcpt" /\ pc' = "offer" /\ UNCHANGED <<txs, left>>
          /\ at \in DOMAIN st /\ at \in Rows /\ at \notin left /\ at \notin touched
          /\ left \subseteq Having("ready")
        BY <1>3 DEF RcptAnswered, OnceInv, Under, Having, TInv, RoundType
    <2>2. CASE st' = [st EXCEPT ![at] = "ok"] /\ UNCHANGED <<dbVars, touched>>
        BY <2>1, <2>2, SameOnce DEF OnceInv, Under, Having, dbVars
    <2>3. CASE st' = [st EXCEPT ![at] = "failed"] /\ \E f \in BOOLEAN : Log(at, f)
        <3>1. NoSecondFailure /\ touched' = touched \cup {at}
            BY <2>1, <2>3, LogOnce
        <3> QED  BY <2>1, <2>3, <3>1 DEF OnceInv, Under, Having
    <2> QED  BY <1>3, <2>2, <2>3 DEF RcptAnswered, Refused
<1>4. ASSUME NEW r \in Rows, RejectRow(r)
      PROVE  OnceInv' /\ NoSecondFailure
    <2>1. /\ pc = "reject" /\ UNCHANGED <<pc, txs>> /\ r \in DOMAIN st /\ r \notin touched
          /\ Log(r, perm) /\ st' = [st EXCEPT ![r] = "failed"]
        BY <1>4 DEF RejectRow, OnceInv, Under, Having
    <2>2. NoSecondFailure /\ touched' = touched \cup {r}
        BY <2>1, LogOnce
    <2> QED  BY <2>1, <2>2 DEF OnceInv, Under
<1>5. CASE ResetAnswered
    <2>1. /\ pc = "rset" /\ pc' = "settle" /\ UNCHANGED <<txs, st, touched, fails>>
          /\ left' = DOMAIN st \ Having("failed")
        BY <1>5 DEF ResetAnswered, dbVars
    <2>2. left' \cap touched = {} /\ left' \subseteq DOMAIN st
        BY <2>1 DEF OnceInv, Under, Having
    <2> QED  BY <2>1, <2>2, SameOnce DEF OnceInv, Under
<1>6. ASSUME NEW r \in Rows, Settle(r)
      PROVE  OnceInv' /\ NoSecondFailure
    <2>1. /\ pc = "settle" /\ UNCHANGED <<pc, txs, st>> /\ r \in left /\ left' = left \ {r}
          /\ r \notin touched /\ r \in DOMAIN st
        BY <1>6 DEF Settle, OnceInv
    <2>2. NoSecondFailure /\ touched' = touched \cup {r}
        BY <1>6, <2>1, LogOnce, DeleteOnce DEF Settle
    <2> QED  BY <2>1, <2>2 DEF OnceInv, Under
<1>7. CASE EndTransaction
    <2>1. /\ pc' = "next" /\ UNCHANGED <<txs, touched, fails>> /\ DOMAIN st' = {}
        BY <1>7 DEF EndTransaction, dbVars
    <2> QED  BY <2>1, SameOnce DEF OnceInv, Under
<1> QED  BY <1>1, <1>2, <1>3, <1>4, <1>5, <1>6, <1>7, AnswersOnce DEF Transaction

LEMMA BouncingOnce ==
    ASSUME TInv, OnceInv, StartRound \/ Called \/ Bouncing
    PROVE  OnceInv' /\ NoSecondFailure
<1>1. /\ UNCHANGED <<txs, st, touched>>
      /\ {pc, pc'} \subseteq {"idle", "round", "bounce", "notify", "judge"}
    BY DEF StartRound, Called, StartBounces, StartOnce, Bouncing, GiveUp, Compose, InsertNotice,
           Bounced, Rest
<1>2. NoSecondFailure
    <2>1. UNCHANGED fails \/ \E r \in Rows : Delete(r)
        BY DEF StartRound, Called, StartBounces, StartOnce, Bouncing, GiveUp, Compose,
               InsertNotice, Bounced, Rest, dbVars, TInv, BounceType, Rows
    <2> QED  BY <2>1, SameOnce, DeleteOnce
<1> QED  BY <1>1, <1>2, IdleOnce

LEMMA EnvironmentOnce ==
    ASSUME TInv, OnceInv, Environment
    PROVE  OnceInv' /\ NoSecondFailure
<1>1. UNCHANGED <<pc, txs, st, touched, left, at>>
    BY DEF Environment, Serve, Drop, Untouched, Queue, Elapse, Elsewhere
<1>2. CASE UNCHANGED fails
    BY <1>1, <1>2, SameOnce DEF OnceInv, Having
<1>3. ASSUME NEW r \in Rows, Elsewhere(r)
      PROVE  NoSecondFailure
    <2>1. ASSUME NEW q \in Rows, q # r
          PROVE  fails'[q] = fails[q]
        BY <1>3, <2>1, ElsewhereTables
           DEF TakenElsewhere, FailedElsewhere, Removed, Forgotten, Entry, dbVars, TInv, DbType
    <2>2. \A q \in Rows : fails[q] \in Nat
        BY BoundsAssumption DEF TInv, DbType
    <2>3. ASSUME NEW q \in Rows, fails'[q] > fails[q]
          PROVE  q = r
        BY <2>1, <2>2, <2>3
    <2> QED  BY <1>3, <2>3 DEF NoSecondFailure
<1>4. CASE Serve \/ Drop \/ (\E m \in Mails : Queue(m)) \/ (\E r \in Rows : Elapse(r))
    BY <1>2, <1>4 DEF Serve, Drop, Untouched, Queue, Elapse, dbVars
<1>5. NoSecondFailure => OnceInv' /\ NoSecondFailure
    BY <1>1 DEF OnceInv, Having
<1> QED  BY <1>3, <1>4, <1>5 DEF Environment

LEMMA NextOnce ==
    ASSUME TInv, OnceInv, [Next]_vars
    PROVE  OnceInv' /\ NoSecondFailure
<1>1. CASE Crash
    <2>1. pc' = "idle" /\ txs' = {} /\ DOMAIN st' = {} /\ UNCHANGED fails
        BY <1>1 DEF Crash, dbVars
    <2> QED  BY <2>1, SameOnce DEF OnceInv, Under
<1>2. CASE UNCHANGED vars
    BY <1>2, SameOnce DEF vars, dbVars, OnceInv, Having
<1> QED  BY <1>1, <1>2, DeliveryOnce, TransactionOnce, BouncingOnce, EnvironmentOnce DEF Next

\* The failures of a row count attempts to deliver it: however rows share
\* transactions, answers come late and statements fail, none of the loops of
\* mail_dispatch and logic_handle_remote logs a row another has dealt with.  What
\* another dispatchd puts into the faillog is counted for itself.
THEOREM OneFailure == Spec => OneFailureAnAttempt
<1>1. Init => OnceInv
    <2>1. Init => DOMAIN st = {}
        BY DEF Init
    <2> QED  BY <2>1 DEF Init, OnceInv, Under
<1>2. TInv /\ OnceInv /\ [Next]_vars
          => /\ OnceInv'
             /\ [\A r \in Rows : fails'[r] > fails[r] => r \notin touched \/ Elsewhere(r)]_vars
    BY NextOnce DEF NoSecondFailure
<1> QED  BY <1>1, <1>2, Typed, PTL DEF Spec, OneFailureAnAttempt

----------------------------------------------------------------------------
(* dispatchd implements the promise of DispatchService                     *)

(* Nobody but smtpd brings up mails: what is offered, taken, bounced or    *)
(* written about has been in the outbox.                                   *)
Offered(s) == \A i \in 1..Len(s) : s[i].verb = "RCPT" => s[i].to \in arrived \cup Notices

Known ==
    /\ outbox \subseteq arrived \cup Notices
    /\ rcpts \subseteq arrived \cup Notices /\ Offered(line)
    /\ cands \subseteq arrived \cup Notices /\ draft \subseteq arrived

LEMMA SendKnown ==
    ASSUME TInv, Known, UNCHANGED arrived, NEW v \in Verbs, NEW r \in Rows \cup {None}, Send(v, r),
           v = "RCPT" => r \in arrived \cup Notices
    PROVE  Offered(line)'
<1>1. CASE phase = "gone"
    BY <1>1 DEF Send, Offered, Known
<1>2. CASE phase # "gone"
    <2> DEFINE e == [verb |-> v, to |-> r]
    <2>1. line' = Append(line, e) /\ (e.verb = "RCPT" => e.to \in arrived \cup Notices)
        BY <1>2 DEF Send
    <2> HIDE DEF e
    <2>2. /\ Len(line') = Len(line) + 1 /\ Len(line) \in Nat
          /\ \A i \in 1..Len(line') : line'[i] = IF i <= Len(line) THEN line[i] ELSE e
        BY <2>1 DEF TInv, ConnType
    <2> QED  BY <2>1, <2>2 DEF Offered, Known
<1> QED  BY <1>1, <1>2

\* Steps that bring up no row
LEMMA KnownStays ==
    ASSUME Known, outbox' \subseteq outbox \cup Notices, UNCHANGED arrived,
           rcpts' \in {rcpts, {}}, line' = line \/ line' = <<>>,
           cands' \subseteq cands \cup outbox, draft' \subseteq draft \cup (cands \cap Mails)
    PROVE  Known'
<1>1. Offered(line)'
    <2>1. CASE line' = line
        BY <2>1 DEF Known, Offered
    <2>2. CASE line' = <<>>
        BY <2>2 DEF Offered
    <2> QED  BY <2>1, <2>2
<1>2. draft' \subseteq arrived'
    BY RowsAssumption DEF Known
<1> QED  BY <1>1, <1>2 DEF Known

LEMMA SendStep ==
    ASSUME TInv, Known, UNCHANGED <<outbox, arrived, rcpts, cands, draft>>,
           \E v \in Verbs, r \in Rows \cup {None} :
               Send(v, r) /\ (v = "RCPT" => r \in arrived \cup Notices)
    PROVE  Known'
BY SendKnown DEF Known

LEMMA DeliveryKnown ==
    ASSUME TInv, Known, Delivery
    PROVE  Known'
<1>1. CASE Connect
    <2>1. PICK k \in 0..MaxLate : line' = [i \in 1..k |-> [verb |-> "NOOP", to |-> None]]
        BY <1>1 DEF Connect
    <2>2. Offered(line)'
        BY <2>1, BoundsAssumption DEF Offered
    <2> QED  BY <1>1, <2>2 DEF Connect, Known, dbVars, history, bounceVars
<1>2. CASE EndRemote \/ Unreachable
    BY <1>2, KnownStays DEF EndRemote, Closed, Unreachable, dbVars, history, bounceVars, connVars
<1>3. ASSUME NEW h \in Remotes, Skip(h) \/ HandleRemote(h)
      PROVE  Known'
    BY <1>3, KnownStays DEF Skip, HandleRemote, dbVars, history, bounceVars, connVars
<1>4. ASSUME NEW r \in Rows, FailUnreached(r)
      PROVE  Known'
    BY <1>4, LogKeeps, KnownStays DEF FailUnreached, history, bounceVars, connVars
<1> QED  BY <1>1, <1>2, <1>3, <1>4 DEF Delivery

LEMMA TransactionKnown ==
    ASSUME TInv, Known, Transaction
    PROVE  Known'
<1>1. CASE StartTransaction
    <2>1. Send("MAIL", None) /\ UNCHANGED <<outbox, arrived, rcpts, cands, draft>>
        BY <1>1 DEF StartTransaction, Begin, dbVars, history, bounceVars
    <2> QED  BY <2>1, SendStep DEF Verbs
<1>2. CASE MailAnswered \/ AskForData \/ DataAnswered \/ DotAnswered \/ Rejected
    <2>1. UNCHANGED <<outbox, arrived, rcpts, cands, draft>>
        BY <1>2 DEF MailAnswered, AskForData, DataAnswered, DotAnswered, Rejected, dbVars, history,
                    bounceVars
    <2>2. UNCHANGED line \/ \E v \in {"RSET", "DATA", "content"} : Send(v, None)
        BY <1>2 DEF MailAnswered, AskForData, DataAnswered, DotAnswered, Rejected, Reset
    <2>3. CASE UNCHANGED line
        BY <2>1, <2>3, KnownStays
    <2>4. CASE \E v \in {"RSET", "DATA", "content"} : Send(v, None)
        BY <2>1, <2>4, SendStep DEF Verbs
    <2> QED  BY <2>2, <2>3, <2>4
<1>3. CASE ResetAnswered \/ EndTransaction
    BY <1>3, KnownStays DEF ResetAnswered, EndTransaction, dbVars, history, bounceVars, connVars
<1>4. CASE RcptAnswered
    <2>1. UNCHANGED outbox
        BY <1>4, LogKeeps DEF RcptAnswered, dbVars
    <2> QED  BY <1>4, <2>1, KnownStays DEF RcptAnswered, bounceVars
<1>5. ASSUME NEW r \in Rows, Offer(r)
      PROVE  Known'
    <2>1. UNCHANGED <<outbox, arrived, rcpts, cands, draft>>
        BY <1>5 DEF Offer, dbVars, history, bounceVars
    <2>2. CASE r \in outbox /\ Send("RCPT", r)
        BY <2>1, <2>2, SendStep DEF Known, Verbs
    <2>3. CASE UNCHANGED line
        BY <2>1, <2>3, KnownStays
    <2> QED  BY <1>5, <2>2, <2>3 DEF Offer
<1>6. ASSUME NEW r \in Rows, RejectRow(r) \/ Settle(r)
      PROVE  Known'
    <2>1. outbox' \subseteq outbox
        BY <1>6, LogKeeps DEF RejectRow, Settle, Delete, Removed, Forgotten, dbVars
    <2> QED  BY <1>6, <2>1, KnownStays DEF RejectRow, Settle, history, bounceVars, connVars
<1> QED  BY <1>1, <1>2, <1>3, <1>4, <1>5, <1>6 DEF Transaction

LEMMA BouncingKnown ==
    ASSUME TInv, Known, StartRound \/ Called \/ Bouncing \/ Crash
    PROVE  Known'
<1>1. CASE StartRound \/ Called
    BY <1>1, KnownStays DEF StartRound, Called, StartOnce, StartBounces, Candidates, dbVars, history,
                            bounceVars, connVars
<1>2. ASSUME NEW r \in Rows, GiveUp(r) \/ Compose(r)
      PROVE  Known'
    BY <1>2, KnownStays DEF GiveUp, Compose, Delete, Removed, Forgotten, dbVars, history, connVars
<1>3. CASE InsertNotice
    <2>1. outbox' \subseteq outbox \cup Notices
        <3>1. Unused # {} => NextId \in Notices
            BY DEF NextId, Unused
        <3> QED  BY <1>3, <3>1 DEF InsertNotice, Inserted
    <2> QED  BY <1>3, <2>1, KnownStays DEF InsertNotice, history, connVars
<1>4. CASE Bounced
    BY <1>4, KnownStays DEF Bounced, Delete, Removed, Forgotten, dbVars, connVars
<1>5. CASE Rest
    BY <1>5, KnownStays DEF Rest, dbVars, history, connVars
<1>6. CASE Crash
    BY <1>6, KnownStays DEF Crash, Closed, dbVars
<1> QED  BY <1>1, <1>2, <1>3, <1>4, <1>5, <1>6 DEF Bouncing

LEMMA EnvironmentKnown ==
    ASSUME TInv, Known, Environment
    PROVE  Known'
<1>1. CASE Serve
    <2>1. UNCHANGED <<outbox, arrived, cands, draft>> /\ line # <<>> /\ line' = Tail(line)
        BY <1>1 DEF Serve, Untouched, dbVars, bounceVars
    <2>2. /\ Len(line') = Len(line) - 1 /\ Len(line) \in Nat \ {0} /\ Head(line) = line[1]
          /\ \A i \in 1..Len(line') : line'[i] = line[i + 1]
        BY <2>1 DEF TInv, ConnType
    <2>3. Offered(line)'
        BY <2>1, <2>2 DEF Known, Offered
    <2>4. rcpts' \in {rcpts, {}} \/ (Head(line).verb = "RCPT" /\ rcpts' = rcpts \cup {Head(line).to})
        BY <1>1 DEF Serve, OnContent, OnMail, OnRcpt, OnData, OnReset
    <2>5. rcpts' \subseteq arrived \cup Notices
        BY <2>2, <2>4 DEF Known, Offered
    <2> QED  BY <2>1, <2>3, <2>5 DEF Known
<1>2. CASE Drop
    BY <1>2, KnownStays DEF Drop, Untouched, dbVars, bounceVars
<1>3. ASSUME NEW m \in Mails, Queue(m)
      PROVE  Known'
    BY <1>3 DEF Queue, Known, Offered, connVars, bounceVars
<1>4. ASSUME NEW r \in Rows, Elapse(r)
      PROVE  Known'
    BY <1>4, KnownStays DEF Elapse, history, connVars, bounceVars
<1>5. ASSUME NEW r \in Rows, Elsewhere(r)
      PROVE  Known'
    <2>1. UNCHANGED arrived /\ UNCHANGED connVars /\ UNCHANGED bounceVars
        BY <1>5, ElsewhereTables
    <2>2. outbox' \subseteq outbox \cup Notices
        BY <1>5, ElsewhereTables DEF TakenElsewhere, FailedElsewhere, Removed, dbVars
    <2> QED  BY <2>1, <2>2, KnownStays DEF connVars, bounceVars
<1> QED  BY <1>1, <1>2, <1>3, <1>4, <1>5 DEF Environment

LEMMA NextKnown ==
    ASSUME TInv, Known, [Next]_vars
    PROVE  Known'
<1>1. CASE UNCHANGED vars
    BY <1>1, KnownStays DEF vars, dbVars, connVars, bounceVars, history
<1> QED  BY <1>1, DeliveryKnown, TransactionKnown, BouncingKnown, EnvironmentKnown DEF Next

Taken == {r \in Rows : taken[r] > 0}
Reports == {m \in Mails : Told(m)}
Promise == [Service!ANext]_(Service!avars)

LEMMA Stutter ==
    ASSUME UNCHANGED <<outbox, arrived, taken, notice>>
    PROVE  Promise
<1>1. Taken' = Taken /\ Reports' = Reports
    BY DEF Taken, Reports, Told
<1> QED  BY <1>1 DEF Promise, Service!avars, Taken, Reports

LEMMA DeleteImplements ==
    ASSUME NEW r \in Rows, Delete(r), UNCHANGED <<arrived, taken, notice>>,
           r \in Taken \cup Reports \cup Notices
    PROVE  Promise
<1>1. CASE outbox' = outbox
    BY <1>1, Stutter
<1>2. CASE r \in outbox /\ outbox' = outbox \ {r}
    <2>1. Taken' = Taken /\ Reports' = Reports
        BY DEF Taken, Reports, Told
    <2>2. Service!Leave(r)
        BY <1>2, <2>1 DEF Service!Leave, Taken, Reports
    <2> QED  BY <2>2 DEF Promise, Service!ANext, Rows
<1> QED  BY <1>1, <1>2 DEF Delete, Removed, Forgotten, dbVars

LEMMA CallImplements ==
    ASSUME StartRound \/ Called \/ Delivery \/ Crash
    PROVE  Promise
<1>1. UNCHANGED <<outbox, arrived, taken, notice>>
    BY LogKeeps DEF StartRound, Called, StartOnce, StartBounces, Delivery, Skip, HandleRemote, Connect,
           Unreachable, EndRemote, FailUnreached, Crash, dbVars, history
<1> QED  BY <1>1, Stutter

LEMMA TransactionImplements ==
    ASSUME TInv, LInv, Transaction
    PROVE  Promise
<1>1. CASE \/ StartTransaction \/ MailAnswered \/ AskForData \/ DataAnswered \/ DotAnswered
           \/ Rejected \/ ResetAnswered \/ EndTransaction
    <2>1. UNCHANGED <<outbox, arrived, taken, notice>>
        BY <1>1 DEF StartTransaction, Begin, MailAnswered, AskForData, DataAnswered, DotAnswered,
                    Rejected, ResetAnswered, EndTransaction, dbVars, history
    <2> QED  BY <2>1, Stutter
<1>2. CASE RcptAnswered
    BY <1>2, LogKeeps, Stutter DEF RcptAnswered, dbVars
<1>3. ASSUME NEW r \in Rows, Offer(r) \/ RejectRow(r)
      PROVE  Promise
    BY <1>3, LogKeeps, Stutter DEF Offer, RejectRow, dbVars, history
<1>4. ASSUME NEW r \in Rows, Settle(r)
      PROVE  Promise
    <2>1. UNCHANGED <<arrived, taken, notice>>
        BY <1>4 DEF Settle
    <2>2. CASE st[r] = "ok" /\ Delete(r)
        <3>1. r \in Taken
            BY <1>4, <2>2 DEF Settle, LInv, Accounted, Agreement, HasTaken, Having, Taken
        <3> QED  BY <2>1, <2>2, <3>1, DeleteImplements
    <2>3. CASE Log(r, perm)
        BY <2>1, <2>3, LogKeeps, Stutter
    <2> QED  BY <1>4, <2>2, <2>3 DEF Settle
<1> QED  BY <1>1, <1>2, <1>3, <1>4 DEF Transaction

\* A notice reports the mails of the draft that are its addressee's.
LEMMA NoticeImplements ==
    ASSUME TInv, LInv, Known, InsertNotice
    PROVE  Promise
<1>1. /\ pc = "notify" /\ UNCHANGED <<arrived, taken>>
      /\ at \in Mails /\ at \in draft /\ (copy > 0 => Told(at)) /\ copy \in Nat
    BY DEF InsertNotice, history, LInv, Reported, TInv, BounceType
<1>2. CASE Unused # {} /\ Inserted(NextId)
    <2> DEFINE e == [to |-> Addressee, about |-> draft, first |-> text']
               mine == {m \in draft : SenderOf[m] = Addressee} \cup {at}
    <2>1. NextId \in Unused
        BY <1>2 DEF NextId, Unused
    <2>2. NextId \in Notices /\ NextId \notin outbox /\ notice[NextId] = None
        BY <2>1 DEF Unused, TInv, DbType
    <2>3. notice' = [notice EXCEPT ![NextId] = e] /\ outbox' = outbox \cup {NextId}
        BY <1>2 DEF Inserted
    <2>4. e # None /\ e.to = Addressee /\ e.about = draft
        <3>1. Addressee \in Addresses /\ text' \in Notices
            BY <1>1, <1>2, <2>1, TablesAssumption DEF Addressee, TInv, BounceType, Inserted, Unused
        <3>2. e \in NoticeText
            BY <3>1 DEF NoticeText, TInv, BounceType
        <3> QED  BY <3>2, NoticeAssumption
    <2> HIDE DEF e
    <2>5. Reports' = Reports \cup mine
        <3>1. \A m \in Mails : Told(m)' <=> Told(m) \/ (m \in draft /\ SenderOf[m] = Addressee)
            BY <2>2, <2>3, <2>4 DEF Told, TInv, DbType
        <3>2. copy = 0 => SenderOf[at] = Addressee
            BY DEF Addressee
        <3> QED  BY <1>1, <3>1, <3>2 DEF Reports, TInv, BounceType
    <2>6. Taken' = Taken
        BY <1>1 DEF Taken
    <2>7. mine # {} /\ mine \subseteq arrived /\ mine \in SUBSET Mails
        BY <1>1 DEF Known, TInv, BounceType
    <2>8. Service!Report(mine, NextId)
        BY <1>1, <2>2, <2>3, <2>5, <2>6, <2>7 DEF Service!Report, Taken, Reports
    <2> QED  BY <2>2, <2>7, <2>8 DEF Promise, Service!ANext
<1>3. CASE UNCHANGED <<notice, outbox>>
    BY <1>1, <1>3, Stutter
<1> QED  BY <1>2, <1>3 DEF InsertNotice

LEMMA BouncingImplements ==
    ASSUME TInv, LInv, Known, Bouncing
    PROVE  Promise
<1>1. ASSUME NEW r \in Rows, GiveUp(r)
      PROVE  Promise
    BY <1>1, DeleteImplements DEF GiveUp, history
<1>2. CASE (\E r \in Rows : Compose(r)) \/ Rest
    BY <1>2, Stutter DEF Compose, Rest, dbVars, history
<1>3. CASE Bounced
    <2>1. at \in Mails /\ UNCHANGED <<arrived, taken, notice>>
        BY <1>3 DEF Bounced, TInv, BounceType
    <2>2. CASE sound /\ Delete(at)
        <3>1. at \in Reports
            BY <1>3, <2>1, <2>2 DEF Bounced, LInv, Reported, Reports
        <3> QED  BY <2>1, <2>2, <3>1, DeleteImplements DEF Rows
    <2>3. CASE UNCHANGED dbVars
        BY <2>1, <2>3, Stutter DEF dbVars
    <2> QED  BY <1>3, <2>2, <2>3 DEF Bounced
<1> QED  BY <1>1, <1>2, <1>3, NoticeImplements DEF Bouncing

LEMMA ElsewhereImplements ==
    ASSUME TInv, Known, NEW r \in Rows, Elsewhere(r)
    PROVE  Promise
<1>1. UNCHANGED arrived /\ r \in outbox /\ r \in arrived \cup Notices
    BY ElsewhereTables DEF Known
<1>2. AlsoTaken(r) => Taken' = Taken \cup {r}
    BY DEF AlsoTaken, Taken, TInv, HistoryType
<1>3. ASSUME UNCHANGED <<outbox, notice>>, AlsoTaken(r)
      PROVE  Promise
    <2>1. Reports' = Reports
        BY <1>3 DEF Reports, Told
    <2>2. {r} \cap Mails \subseteq arrived /\ Rows = Mails \cup Notices
        BY <1>1, RowsAssumption DEF Rows
    <2>3. Service!TakenOver
        BY <1>1, <1>2, <1>3, <2>1, <2>2 DEF Service!TakenOver, Taken, Reports
    <2> QED  BY <2>3 DEF Promise, Service!ANext
<1>4. CASE TakenElsewhere(r)
    <2>1. CASE Removed(r)
        <3>1. Taken' = Taken \cup {r} /\ Reports' = Reports
            BY <1>2, <1>4 DEF TakenElsewhere, Reports, Told
        <3>2. Service!HandedOver(r)
            BY <1>1, <2>1, <3>1 DEF Removed, Service!HandedOver, Taken, Reports
        <3> QED  BY <3>2 DEF Promise, Service!ANext, Rows
    <2> QED  BY <1>3, <1>4, <2>1 DEF TakenElsewhere, dbVars
<1>5. CASE FailedElsewhere(r)
    BY <1>1, <1>3, <1>5, Stutter DEF FailedElsewhere
<1>6. CASE r \in Notices /\ Removed(r) /\ UNCHANGED <<notice, doubt, taken>>
    <2>1. Taken' = Taken /\ Reports' = Reports
        BY <1>6 DEF Taken, Reports, Told
    <2>2. Service!Leave(r)
        BY <1>1, <1>6, <2>1 DEF Removed, Service!Leave, Taken, Reports
    <2> QED  BY <2>2 DEF Promise, Service!ANext, Rows
<1>7. ASSUME NEW n \in Notices, NEW e \in NoticeText, r \in Mails, n \notin outbox, notice[n] = None,
             e.to = SenderOf[r], e.about = {r}, notice' = [notice EXCEPT ![n] = e],
             outbox' = (outbox \cup {n}) \ {r} \/ outbox' = outbox \cup {n}, UNCHANGED taken
      PROVE  Promise
    <2>1. Taken' = Taken /\ Reports' = Reports \cup {r} /\ r \in arrived
        <3>1. \A m \in Mails : Told(m)' <=> Told(m) \/ m = r
            BY <1>7, NoticeWritten
        <3> QED  BY <1>1, <1>7, <3>1, RowsAssumption DEF Taken, Reports
    <2>2. CASE outbox' = (outbox \cup {n}) \ {r}
        <3>1. Service!ReportedElsewhere(r, n)
            BY <1>1, <1>7, <2>1, <2>2 DEF Service!ReportedElsewhere, Taken, Reports
        <3> QED  BY <1>7, <3>1 DEF Promise, Service!ANext
    <2>3. CASE outbox' = outbox \cup {n}
        <3>1. PICK S : S = {r}
            OBVIOUS
        <3>2. S # {} /\ S \subseteq arrived /\ S \in SUBSET Mails
            BY <1>7, <2>1, <3>1
        <3>3. Service!Report(S, n)
            BY <1>1, <1>7, <2>1, <2>3, <3>1, <3>2 DEF Service!Report, Taken, Reports
        <3> QED  BY <3>2, <3>3 DEF Promise, Service!ANext
    <2> QED  BY <1>7, <2>2, <2>3
<1> QED  BY <1>4, <1>5, <1>6, <1>7, ElsewhereTables

LEMMA EnvironmentImplements ==
    ASSUME TInv, Known, Environment
    PROVE  Promise
<1>1. CASE Serve
    <2>1. UNCHANGED <<outbox, arrived, notice>> /\ taken' \in {taken, Served}
        BY <1>1 DEF Serve, Untouched, dbVars, OnContent, OnMail, OnRcpt, OnData, OnReset
    <2>2. CASE taken' = Served
        <3>1. Taken' = Taken \cup rcpts
            BY <2>2 DEF Taken, Served, TInv, HistoryType, ConnType
        <3>2. Reports' = Reports
            BY <2>1 DEF Reports, Told
        <3>3. rcpts \cap Mails \subseteq arrived /\ Rows = Mails \cup Notices
            BY RowsAssumption DEF Known, TInv, ConnType, Rows
        <3>4. Service!TakenOver
            BY <2>1, <3>1, <3>2, <3>3 DEF Service!TakenOver, Taken, Reports
        <3> QED  BY <3>4 DEF Promise, Service!ANext
    <2> QED  BY <2>1, <2>2, Stutter
<1>2. CASE Drop
    BY <1>2, Stutter DEF Drop, Untouched, dbVars
<1>3. ASSUME NEW m \in Mails, Queue(m)
      PROVE  Promise
    <2>1. Taken' = Taken /\ Reports' = Reports
        BY <1>3 DEF Queue, Taken, Reports, Told
    <2>2. Service!HandIn(m)
        BY <1>3, <2>1 DEF Queue, Service!HandIn, Taken, Reports
    <2> QED  BY <2>2 DEF Promise, Service!ANext
<1>4. ASSUME NEW r \in Rows, Elsewhere(r)
      PROVE  Promise
    BY <1>4, ElsewhereImplements
<1>5. CASE \E r \in Rows : Elapse(r)
    BY <1>5, Stutter DEF Elapse, history
<1> QED  BY <1>1, <1>2, <1>3, <1>4, <1>5 DEF Environment

\* As long as at most three answers are given up that then come after all, and each
\* comes in a piece of its own, every step of dispatchd is one DispatchService
\* allows: rows leave the outbox taken or reported, and no row that was not handed
\* in is delivered or reported (logic.c, mail.c).
THEOREM Implements ==
    ASSUME Patient
    PROVE  Spec => ImplementsService
<1>1. Init => TInv /\ LInv /\ Known
    BY InitType, InitLost DEF Init, Known, Offered
<1>2. TInv /\ LInv /\ Known /\ [Next]_vars => TInv' /\ LInv' /\ Known'
    BY NextType, NextLost, NextKnown
<1>3. Init => Service!AInit
    BY DEF Init, Service!AInit, Told
<1>4. TInv /\ LInv /\ Known /\ [Next]_vars => [Service!ANext]_(Service!avars)
    <2> SUFFICES ASSUME TInv, LInv, Known, [Next]_vars PROVE Promise
        BY DEF Promise
    <2>1. CASE UNCHANGED vars
        BY <2>1, Stutter DEF vars, dbVars, history
    <2> QED  BY <2>1, CallImplements, TransactionImplements, BouncingImplements,
                EnvironmentImplements DEF Next, Promise
<1> QED  BY <1>1, <1>2, <1>3, <1>4, PTL DEF Spec, ImplementsService, Service!ASpec

----------------------------------------------------------------------------
(* The outbox is finite *)

LEMMA OutboxGrows ==
    ASSUME [Next]_vars
    PROVE  \E r : outbox' \subseteq outbox \cup {r}
<1>1. CASE UNCHANGED outbox
    BY <1>1
<1>2. CASE StartRound \/ Called \/ Delivery \/ Crash \/ UNCHANGED vars
    <2>1. UNCHANGED outbox
        BY <1>2, LogKeeps
           DEF StartRound, Called, StartOnce, StartBounces, Delivery, Skip, HandleRemote,
               Connect, Unreachable, EndRemote, FailUnreached, Crash, vars, dbVars
    <2> QED  BY <2>1, <1>1
<1>3. CASE Transaction
    <2>1. CASE \E r \in Rows : Settle(r)
        BY <2>1, LogKeeps DEF Settle, Delete, Removed, Forgotten, dbVars
    <2>2. CASE ~\E r \in Rows : Settle(r)
        <3>1. UNCHANGED outbox
            BY <1>3, <2>2, LogKeeps
               DEF Transaction, StartTransaction, Begin, MailAnswered, AskForData, DataAnswered,
                   DotAnswered, Rejected, ResetAnswered, EndTransaction, RcptAnswered, Offer,
                   RejectRow, dbVars
        <3> QED  BY <3>1, <1>1
    <2> QED  BY <2>1, <2>2
<1>4. CASE Bouncing
    <2>1. CASE InsertNotice
        BY <2>1 DEF InsertNotice, Inserted
    <2>2. CASE Bounced \/ Rest \/ \E r \in Rows : GiveUp(r) \/ Compose(r)
        BY <2>2 DEF Bounced, Rest, GiveUp, Compose, Delete, Removed, Forgotten, dbVars
    <2> QED  BY <1>4, <2>1, <2>2 DEF Bouncing
<1>5. CASE Environment
    <2>1. CASE Serve \/ Drop \/ (\E m \in Mails : Queue(m)) \/ (\E r \in Rows : Elapse(r))
        BY <2>1 DEF Serve, Drop, Untouched, Queue, Elapse, dbVars
    <2>2. ASSUME NEW r \in Rows, Elsewhere(r)
          PROVE  \E n : outbox' \subseteq outbox \cup {n}
        BY <2>2 DEF Elsewhere, TakenElsewhere, FailedElsewhere, BouncedElsewhere, Removed, dbVars
    <2> QED  BY <1>5, <2>1, <2>2 DEF Environment
<1> QED  BY <1>2, <1>3, <1>4, <1>5 DEF Next

LEMMA FiniteStays == IsFiniteSet(outbox) /\ [Next]_vars => IsFiniteSet(outbox')
<1> SUFFICES ASSUME IsFiniteSet(outbox), [Next]_vars PROVE IsFiniteSet(outbox')
    OBVIOUS
<1>1. PICK r : outbox' \subseteq outbox \cup {r}
    BY OutboxGrows
<1>2. IsFiniteSet(outbox \cup {r})
    BY FS_AddElement
<1> QED  BY <1>1, <1>2, FS_Subset

----------------------------------------------------------------------------
(* No row of a server that was tried is left without a trace *)

\* The transactions logic_handle_remote makes of the rows it has read
Grouped == {{n \in seen : Letter(n) = Letter(r)} : r \in seen}

\* The array for them did not have to grow.
FitsArray == Cardinality(Grouped) <= Chunk

(* Where the rows are that were read and not dealt with yet.                *)
Handled ==
    /\ pc = "connect" => seen \subseteq UNION txs
    /\ pc = "unreached" => seen \subseteq touched \cup left
    /\ pc = "next" => seen \subseteq touched \cup UNION txs
    /\ pc \in Under => /\ seen \subseteq touched \cup (UNION txs) \cup DOMAIN st
                       /\ Having("failed") \subseteq touched
    /\ pc = "settle" => seen \subseteq touched \cup (UNION txs) \cup left
CoverInv == FitsArray => Handled

\* A notice that was read has been written, and is not written again.
SeenWritten == \A n \in seen \cap Notices : notice[n] # None

LEMMA NoticeKept ==
    ASSUME TInv, [Next]_vars, NEW n \in Notices, notice[n] # None
    PROVE  notice'[n] = notice[n]
<1>1. ASSUME NEW q, notice[q] = None, NEW e, notice' = [notice EXCEPT ![q] = e]
      PROVE  notice'[n] = notice[n]
    BY <1>1 DEF TInv, DbType
<1>2. CASE InsertNotice
    <2>1. CASE Unused # {} /\ Inserted(NextId)
        <3>1. notice[NextId] = None
            BY <2>1 DEF NextId, Unused
        <3> QED  BY <1>1, <2>1, <3>1 DEF Inserted
    <2> QED  BY <1>2, <2>1 DEF InsertNotice
<1>3. ASSUME NEW r \in Rows, Elsewhere(r)
      PROVE  notice'[n] = notice[n]
    BY <1>1, <1>3, ElsewhereTables DEF TakenElsewhere, FailedElsewhere
<1>4. CASE StartRound \/ Called \/ Delivery \/ Transaction \/ Crash \/ UNCHANGED vars
    BY <1>4 DEF StartRound, Called, StartOnce, StartBounces, Delivery, Skip, HandleRemote, Connect,
           Unreachable, EndRemote, FailUnreached, Transaction, StartTransaction, Begin,
           MailAnswered, AskForData, DataAnswered, DotAnswered, Rejected, ResetAnswered,
           EndTransaction, RcptAnswered, Offer, RejectRow, Settle, Crash, vars
<1>5. CASE Bounced \/ Rest \/ \E r \in Rows : GiveUp(r) \/ Compose(r)
    BY <1>5 DEF Bounced, Rest, GiveUp, Compose
<1>6. CASE Serve \/ Drop \/ (\E m \in Mails : Queue(m)) \/ (\E r \in Rows : Elapse(r))
    BY <1>6 DEF Serve, Drop, Untouched, Queue, Elapse
<1> QED  BY <1>2, <1>3, <1>4, <1>5, <1>6 DEF Next, Bouncing, Environment

LEMMA NextSeen ==
    ASSUME TInv, SeenWritten, [Next]_vars
    PROVE  SeenWritten'
<1>1. CASE seen' \subseteq seen
    BY <1>1, NoticeKept DEF SeenWritten
<1>2. CASE \E h \in Remotes : HandleRemote(h)
    BY <1>2 DEF HandleRemote, ReadTransactions, Due, SeenWritten, TInv, DbType
<1>3. seen' \subseteq seen \/ \E h \in Remotes : HandleRemote(h)
    <2>1. CASE StartRound \/ Called \/ Transaction \/ Crash \/ UNCHANGED vars
        BY <2>1 DEF StartRound, Called, StartOnce, StartBounces, Transaction, StartTransaction,
               Begin, MailAnswered, AskForData, DataAnswered, DotAnswered, Rejected,
               ResetAnswered, EndTransaction, RcptAnswered, Offer, RejectRow, Settle, Crash, vars
    <2>2. CASE Delivery
        BY <2>2 DEF Delivery, Skip, Connect, Unreachable, EndRemote, FailUnreached
    <2>3. CASE Bouncing
        BY <2>3 DEF Bouncing, InsertNotice, Bounced, Rest, GiveUp, Compose
    <2>4. CASE Environment
        BY <2>4 DEF Environment, Serve, Drop, Untouched, Queue, Elapse, Elsewhere
    <2> QED  BY <2>1, <2>2, <2>3, <2>4 DEF Next
<1> QED  BY <1>1, <1>2, <1>3

LEMMA ElsewhereStep == ASSUME NEW r \in Rows, Elsewhere(r) PROVE [Next]_vars
BY DEF Next, Environment

\* Steps while a remote is handled: it remains to be shown that the rows do.
LEMMA CoverStep ==
    ASSUME CoverInv, UNCHANGED <<seen, notice>>, Handled => Handled'
    PROVE  CoverInv'
<1>1. FitsArray' <=> FitsArray
    BY DEF FitsArray, Grouped, Letter
<1> QED  BY <1>1 DEF CoverInv

\* Between remotes there are none.
LEMMA CoverRest ==
    ASSUME pc' \in {"idle", "round", "bounce", "notify", "judge"}
    PROVE  CoverInv'
BY DEF CoverInv, Handled, Under

LEMMA HandleRemoteCover ==
    ASSUME TInv, IsFiniteSet(outbox), NEW h \in Remotes, HandleRemote(h)
    PROVE  CoverInv'
<1> DEFINE Mine == {r \in Due : Host(r) = h}
<1>1. PICK S \in SUBSET Mine : Transactions(S) /\ seen' = S
    BY DEF HandleRemote, ReadTransactions
<1> DEFINE All == {{n \in S : Letter(n) = Letter(r)} : r \in S}
<1>2. PICK Cleared \in SUBSET All :
          /\ Cardinality(Cleared) = IF Cardinality(All) > Chunk THEN Chunk ELSE 0
          /\ txs' = All \ Cleared
    BY <1>1 DEF Transactions
<1>3. IsFiniteSet(Cleared)
    <2>1. IsFiniteSet(S)
        BY FS_Subset DEF Due
    <2>2. IsFiniteSet(SUBSET S)
        BY <2>1, FS_SUBSET
    <2>3. Cleared \in SUBSET (SUBSET S)
        OBVIOUS
    <2> QED  BY <2>2, <2>3, FS_Subset
<1>4. Grouped' = All
    BY <1>1 DEF Grouped, Letter, HandleRemote
<1>5. FitsArray' => Cleared = {}
    <2>1. FitsArray' <=> Cardinality(All) <= Chunk
        BY <1>4 DEF FitsArray
    <2>2. FitsArray' => Cardinality(Cleared) = 0
        <3> HIDE DEF All
        <3>1. IsFiniteSet(All)
            <4>1. IsFiniteSet(S)
                BY FS_Subset DEF Due
            <4>2. IsFiniteSet(SUBSET S)
                BY <4>1, FS_SUBSET
            <4>3. All \in SUBSET (SUBSET S)
                BY DEF All
            <4> QED  BY <4>2, <4>3, FS_Subset
        <3>2. Cardinality(All) \in Nat /\ Chunk \in Nat
            BY <3>1, FS_CardinalityType, BoundsAssumption
        <3> QED  BY <1>2, <2>1, <3>2
    <2> QED  BY <1>3, <2>2, FS_EmptySet
<1>6. S \subseteq UNION All
    OBVIOUS
<1>7. pc' = "connect"
    BY DEF HandleRemote
<1> HIDE DEF All
<1>8. FitsArray' => seen' \subseteq UNION txs'
    BY <1>1, <1>2, <1>5, <1>6
<1> QED  BY <1>7, <1>8 DEF CoverInv, Handled, Under

LEMMA DeliveryCover ==
    ASSUME TInv, OnceInv, IsFiniteSet(outbox), CoverInv, Delivery
    PROVE  CoverInv'
<1>1. ASSUME NEW h \in Remotes, Skip(h)
      PROVE  CoverInv'
    BY <1>1, CoverRest DEF Skip
<1>2. ASSUME NEW h \in Remotes, HandleRemote(h)
      PROVE  CoverInv'
    BY <1>2, HandleRemoteCover
<1>3. CASE Connect
    <2>1. Handled => Handled'
        BY <1>3 DEF Connect, Handled, Under
    <2> QED  BY <1>3, <2>1, CoverStep DEF Connect
<1>4. CASE Unreachable
    <2>1. Handled => Handled'
        BY <1>4 DEF Unreachable, Handled, Under
    <2> QED  BY <1>4, <2>1, CoverStep DEF Unreachable
<1>5. CASE EndRemote
    BY <1>5, CoverRest DEF EndRemote
<1>6. ASSUME NEW r \in Rows, FailUnreached(r)
      PROVE  CoverInv'
    <2>1. Handled => Handled'
        BY <1>6 DEF FailUnreached, Log, Entry, Handled, Under
    <2> QED  BY <1>6, <2>1, CoverStep DEF FailUnreached
<1> QED  BY <1>1, <1>2, <1>3, <1>4, <1>5, <1>6 DEF Delivery

\* Waiting for answers
LEMMA WaitCover ==
    ASSUME CoverInv, UNCHANGED <<seen, notice, touched, txs, st>>, pc \in Under, pc' \in Under
    PROVE  CoverInv'
<1>1. Handled => Handled'
    BY DEF Handled, Under, Having
<1> QED  BY <1>1, CoverStep

LEMMA UnionWithout ==
    ASSUME NEW C, NEW T \in C
    PROVE  UNION C \subseteq (UNION (C \ {T})) \cup T
OBVIOUS

\* A row goes from those that are left to those that are dealt with.
LEMMA CoverMoves ==
    ASSUME NEW s, NEW t, NEW u, NEW l, NEW r, s \subseteq t \cup u \cup l
    PROVE  s \subseteq (t \cup {r}) \cup u \cup (l \ {r})
OBVIOUS

\* The rows of a transaction that have failed are dealt with already.
LEMMA CoverLeft ==
    ASSUME NEW s, NEW t, NEW u, NEW d, NEW f, s \subseteq t \cup u \cup d, f \subseteq t
    PROVE  s \subseteq t \cup u \cup (d \ f)
OBVIOUS

LEMMA TransactionCover ==
    ASSUME TInv, OnceInv, CoverInv, Transaction
    PROVE  CoverInv'
<1>1. CASE StartTransaction
    <2>1. PICK T : /\ Begin(T)
                   /\ UNION txs \subseteq (UNION txs') \cup T
        <3>1. CASE blank > 0 /\ UNCHANGED txs /\ Begin({})
            BY <3>1
        <3>2. CASE \E T \in txs : txs' = txs \ {T} /\ Begin(T)
            <4>1. PICK T \in txs : txs' = txs \ {T} /\ Begin(T)
                BY <3>2
            <4>3. UNION txs \subseteq (UNION (txs \ {T})) \cup T
                BY UnionWithout
            <4>4. txs' = txs \ {T}
                BY <4>1
            <4>5. UNION txs \subseteq (UNION txs') \cup T
                BY <4>3, <4>4
            <4> QED  BY <4>1, <4>5
        <3> QED  BY <1>1, <3>1, <3>2 DEF StartTransaction
    <2>2. /\ pc = "next" /\ pc' = "mail" /\ DOMAIN st' = T
          /\ \A r \in T : st'[r] = "ready"
          /\ UNCHANGED <<seen, notice, touched>>
        BY <1>1, <2>1 DEF StartTransaction, Begin
    <2>3. Having("failed")' = {}
        BY <2>2 DEF Having
    <2>4. Handled => Handled'
        BY <2>1, <2>2, <2>3 DEF Handled, Under
    <2> QED  BY <2>2, <2>4, CoverStep
<1>2. CASE MailAnswered \/ AskForData \/ DataAnswered \/ DotAnswered \/ Rejected
    <2>1. UNCHANGED <<seen, notice, touched, txs, st>>
        BY <1>2 DEF MailAnswered, AskForData, DataAnswered, DotAnswered, Rejected
    <2>2. pc \in Under /\ pc' \in Under
        BY <1>2 DEF MailAnswered, AskForData, DataAnswered, DotAnswered, Rejected, Reset, Under
    <2> QED  BY <2>1, <2>2, WaitCover
<1>3. ASSUME NEW r \in Rows, Offer(r)
      PROVE  CoverInv'
    <2>1. /\ pc = "offer" /\ pc' \in {"offer", "rcpt"} /\ r \in DOMAIN st
          /\ UNCHANGED <<seen, notice, txs>>
        BY <1>3 DEF Offer, OnceInv, Having
    <2>2. \/ UNCHANGED <<st, touched>>
          \/ st' = [st EXCEPT ![r] = "failed"] /\ touched' = touched \cup {r}
        BY <1>3 DEF Offer
    <2>3. Handled => Handled'
        BY <2>1, <2>2 DEF Handled, Under, Having
    <2> QED  BY <2>1, <2>3, CoverStep
<1>4. CASE RcptAnswered
    <2>1. /\ pc = "rcpt" /\ pc' = "offer" /\ UNCHANGED <<seen, notice, txs>>
        BY <1>4 DEF RcptAnswered
    <2>2. \/ st' = [st EXCEPT ![at] = "ok"] /\ UNCHANGED touched
          \/ st' = [st EXCEPT ![at] = "failed"] /\ touched' = touched \cup {at}
        BY <1>4 DEF RcptAnswered, Log, Entry
    <2>3. Handled => Handled'
        BY <2>1, <2>2 DEF Handled, Under, Having
    <2> QED  BY <2>1, <2>3, CoverStep
<1>5. ASSUME NEW r \in Rows, RejectRow(r)
      PROVE  CoverInv'
    <2>1. /\ pc = "reject" /\ UNCHANGED <<pc, seen, notice, txs>>
          /\ st' = [st EXCEPT ![r] = "failed"] /\ touched' = touched \cup {r}
        BY <1>5 DEF RejectRow, Log, Entry
    <2>2. Handled => Handled'
        BY <2>1 DEF Handled, Under, Having
    <2> QED  BY <2>1, <2>2, CoverStep
<1>6. CASE ResetAnswered
    <2>1. /\ pc = "rset" /\ pc' = "settle" /\ UNCHANGED <<seen, notice, txs, touched>>
          /\ left' = DOMAIN st \ Having("failed")
        BY <1>6 DEF ResetAnswered
    <2>2. seen \subseteq touched \cup (UNION txs) \cup DOMAIN st /\ Having("failed") \subseteq touched
          => seen \subseteq touched \cup (UNION txs) \cup (DOMAIN st \ Having("failed"))
        BY CoverLeft
    <2>3. pc' = "settle" /\ seen' = seen /\ touched' = touched /\ UNION txs' = UNION txs
          /\ left' = DOMAIN st \ Having("failed")
        BY <2>1
    <2>4. Handled => Handled'
        BY <2>1, <2>2, <2>3 DEF Handled, Under
    <2> QED  BY <2>1, <2>4, CoverStep
<1>7. ASSUME NEW r \in Rows, Settle(r)
      PROVE  CoverInv'
    <2>1. /\ pc = "settle" /\ UNCHANGED <<pc, seen, notice, txs>>
          /\ left' = left \ {r} /\ touched' = touched \cup {r}
        BY <1>7 DEF Settle, Log, Entry
    <2>2. pc' = "settle" /\ seen' = seen /\ UNION txs' = UNION txs
        BY <2>1
    <2>3. seen \subseteq touched \cup (UNION txs) \cup left
          => seen' \subseteq touched' \cup (UNION txs') \cup left'
        <3>1. seen \subseteq touched \cup (UNION txs) \cup left
              => seen \subseteq (touched \cup {r}) \cup (UNION txs) \cup (left \ {r})
            BY CoverMoves
        <3>2. touched' = touched \cup {r} /\ left' = left \ {r}
            BY <2>1
        <3> QED  BY <2>2, <3>1, <3>2
    <2>4. Handled => Handled'
        BY <2>1, <2>2, <2>3 DEF Handled, Under, Waits
    <2> QED  BY <2>1, <2>4, CoverStep
<1>8. CASE EndTransaction
    <2>1. /\ pc = "settle" /\ left = {} /\ pc' = "next"
          /\ UNCHANGED <<seen, notice, txs, touched>>
        BY <1>8 DEF EndTransaction
    <2>2. seen \subseteq touched \cup (UNION txs) \cup left
          => seen' \subseteq touched' \cup UNION txs'
        <3>1. touched \cup (UNION txs) \cup {} = touched' \cup UNION txs' /\ seen' = seen
            BY <2>1
        <3> QED  BY <2>1, <3>1
    <2>3. Handled => Handled'
        BY <2>1, <2>2 DEF Handled, Under, Waits
    <2> QED  BY <2>1, <2>3, CoverStep
<1> QED  BY <1>1, <1>2, <1>3, <1>4, <1>5, <1>6, <1>7, <1>8 DEF Transaction

\* A notice another dispatchd writes was not among the rows read.
LEMMA ElsewhereCover ==
    ASSUME TInv, SeenWritten, CoverInv, NEW q \in Rows, Elsewhere(q)
    PROVE  CoverInv'
<1>1. UNCHANGED <<pc, seen, txs, st, left, touched>>
    BY ElsewhereTables
<1>2. \A n \in seen \cap Notices : notice'[n] = notice[n]
    BY NoticeKept, ElsewhereStep DEF SeenWritten
<1>3. \A r \in seen : Letter(r)' = Letter(r)
    BY <1>2 DEF Letter, TInv, RoundType, Rows
<1>4. Grouped' = Grouped
    BY <1>1, <1>3 DEF Grouped
<1>5. Handled => Handled'
    BY <1>1 DEF Handled, Having
<1> QED  BY <1>1, <1>4, <1>5 DEF CoverInv, FitsArray

LEMMA NextCover ==
    ASSUME TInv, OnceInv, SeenWritten, IsFiniteSet(outbox), CoverInv, [Next]_vars
    PROVE  CoverInv'
<1>1. CASE StartRound \/ Called \/ Bouncing \/ Crash
    <2>1. pc' \in {"idle", "round", "bounce", "notify", "judge"}
        BY <1>1 DEF StartRound, Called, StartBounces, StartOnce, Bouncing, GiveUp, Compose,
                    InsertNotice, Bounced, Rest, Crash
    <2> QED  BY <2>1, CoverRest
<1>2. CASE \/ Serve \/ Drop \/ UNCHANGED vars
           \/ (\E m \in Mails : Queue(m)) \/ (\E r \in Rows : Elapse(r))
    <2>1. UNCHANGED <<pc, seen, notice, txs, st, left, touched>>
        BY <1>2 DEF Serve, Drop, Untouched, Queue, Elapse, vars
    <2>2. Handled => Handled'
        BY <2>1 DEF Handled, Having
    <2> QED  BY <2>1, <2>2, CoverStep
<1> QED  BY <1>1, <1>2, DeliveryCover, TransactionCover, ElsewhereCover DEF Next, Environment

(* A row whose server has been tried is left with a trace, through every    *)
(* answer that is refused, late or missing, every statement that fails and  *)
(* rows that other processes take away, as long as the transactions of the  *)
(* remote fit the array without growing it (logic_handle_remote clears the  *)
(* wrong entries when it grows).                                            *)
THEOREM NoRowForgotten == Spec => [](FitsArray => NoRowSkipped)
<1>1. Init => IsFiniteSet(outbox) /\ CoverInv /\ SeenWritten
    BY FS_EmptySet DEF Init, CoverInv, Handled, Under, SeenWritten
<1>2. Init => OnceInv
    <2>1. Init => DOMAIN st = {}
        BY DEF Init
    <2> QED  BY <2>1 DEF Init, OnceInv, Under
<1>3. CoverInv => (FitsArray => NoRowSkipped)
    BY DEF CoverInv, Handled, NoRowSkipped
<1>4. TInv /\ OnceInv /\ IsFiniteSet(outbox) /\ SeenWritten /\ CoverInv /\ [Next]_vars
          => OnceInv' /\ IsFiniteSet(outbox)' /\ SeenWritten' /\ CoverInv'
    BY NextOnce, FiniteStays, NextSeen, NextCover
<1> QED  BY <1>1, <1>2, <1>3, <1>4, Typed, PTL DEF Spec

----------------------------------------------------------------------------
(* Nothing is done twice but in doubt, as long as late answers are few     *)

Writing == {"bounce", "notify", "judge"}

(* The client knows of every recipient the server has accepted, if nothing *)
(* is late and the server reads commands, but of the one it waits for, or  *)
(* has given up on it.  Content that the client has given up on goes to no *)
(* other recipients.                                                       *)
Accepted == rcpts \subseteq Having("ok") \cup doubt

Answered ==
    /\ phase \in {"idle", "gone"} => rcpts = {}
    /\ pc = "mail" /\ Sync /\ phase # "data" /\ back = <<"ok">> => rcpts = {}
    /\ pc \in {"offer", "data"} /\ Sync /\ phase # "data" => Accepted
    /\ pc = "rcpt" /\ Sync /\ phase # "data"
           => /\ rcpts \subseteq Having("ok") \cup doubt \cup {at}
              /\ at \in rcpts => at \in doubt \/ back \in {<<"ok">>, <<"moved">>}
    /\ pc = "data" /\ back = <<"go">> => Accepted
    /\ pc = "dot" /\ line # <<>> => Accepted
    /\ pc # "dot" /\ Contents(line) # {} => rcpts \subseteq doubt

(* Bounces are written about rows of the outbox.                           *)
Drafted ==
    /\ pc \notin Writing => draft = {}
    /\ pc \in Writing => cands \subseteq outbox

(* The server has the mail, and its row is about to be deleted.            *)
Settling(m) ==
    /\ m \in Having("ok")
    /\ \/ pc = "rset"
       \/ pc = "settle" /\ m \in left
       \/ pc = "dot" /\ line = <<>> /\ back \in {<<>>, <<"ok">>}

(* Its notice is being written.                                            *)
Bounces(m) == pc \in {"notify", "judge"} /\ m = at

(* The server may come to accept it, or has.                               *)
Asked(s) == {r \in Rows : \E j \in 1..Len(s) : s[j].verb = "RCPT" /\ s[j].to = r}
Offering == rcpts \cup Asked(line)

Fresh(m) == taken[m] = 0 /\ ~Told(m)

(* What a mail has been through so far, unless nobody can know: as long as *)
(* its row is in the outbox, or is offered, it was neither taken nor       *)
(* reported, but for the moments in which the row is about to go.          *)
Fate(m) ==
    /\ taken[m] = 0 \/ (taken[m] <= 1 /\ ~Told(m))
    /\ m \in outbox => (taken[m] = 0 \/ Settling(m)) /\ (~Told(m) \/ Bounces(m))
    /\ m \in draft => taken[m] = 0 /\ (m \notin outbox \/ Bounces(m))
    /\ m \in Offering \/ m \notin arrived => Fresh(m)

Fates == \A m \in Mails \ doubt : Fate(m)

FateInv == Answered /\ Drafted /\ Fates

LEMMA EmptyAsked == Asked(<<>>) = {}
BY DEF Asked

\* Only a RCPT brings up a row.
LEMMA SendAsked ==
    ASSUME TInv, Pipe, NEW v \in Verbs, NEW r \in Rows \cup {None}, Send(v, r)
    PROVE  /\ v # "RCPT" => Asked(line') \subseteq Asked(line)
           /\ Asked(line') \subseteq Asked(line) \cup {r}
<1> DEFINE e == [verb |-> v, to |-> r]
<1>1. e.verb = v /\ e.to = r
    OBVIOUS
<1>2. \A j \in 1..Len(line') : (j \in 1..Len(line) /\ line'[j] = line[j]) \/ line'[j] = e
    BY SendOne
<1> HIDE DEF e
<1>3. ASSUME NEW q \in Asked(line'), q \notin Asked(line)
      PROVE  v = "RCPT" /\ q = r
    <2>1. PICK j \in 1..Len(line') : line'[j].verb = "RCPT" /\ line'[j].to = q
        BY DEF Asked
    <2>2. q \in Rows
        BY DEF Asked
    <2>3. line'[j] = e
        BY <1>2, <1>3, <2>1, <2>2 DEF Asked
    <2> QED  BY <1>1, <2>1, <2>3
<1> QED  BY <1>3

LEMMA ServeAsked ==
    ASSUME TInv, Serve
    PROVE  Asked(line') \subseteq Asked(line)
<1>1. \A j \in 1..Len(line') : j + 1 \in 1..Len(line) /\ line'[j] = line[j + 1]
    BY ServeOne
<1> QED  BY <1>1 DEF Asked

\* Steps that neither deliver, report nor bring up a mail
LEMMA FatesStep ==
    ASSUME Fates, UNCHANGED <<notice, arrived>>, doubt \subseteq doubt',
           outbox' \subseteq outbox, draft' \subseteq draft,
           ASSUME NEW m \in Mails \ doubt'
           PROVE  /\ taken'[m] = taken[m]
                  /\ m \in outbox' /\ Settling(m) => Settling(m)'
                  /\ m \in outbox' /\ Bounces(m) => Bounces(m)'
                  /\ m \in Offering' => m \in Offering \/ Fresh(m)
    PROVE  Fates'
<1> SUFFICES ASSUME NEW m \in Mails \ doubt' PROVE Fate(m)'
    BY DEF Fates
<1>1. Fate(m) /\ (Told(m)' <=> Told(m))
    BY DEF Fates, Told
<1>2. /\ taken'[m] = taken[m]
      /\ m \in outbox' /\ Settling(m) => Settling(m)'
      /\ m \in outbox' /\ Bounces(m) => Bounces(m)'
      /\ m \in Offering' => m \in Offering \/ Fresh(m)
    OBVIOUS
<1> QED  BY <1>1, <1>2 DEF Fate, Fresh

\* Nothing is delivered and nothing written about.
LEMMA QuietFates ==
    ASSUME Fates, UNCHANGED <<taken, notice, arrived>>, doubt \subseteq doubt',
           outbox' \subseteq outbox, draft' \subseteq draft,
           pc \notin {"dot", "rset", "settle", "notify", "judge"}, Offering' \subseteq Offering
    PROVE  Fates'
<1>1. ASSUME NEW m \in Mails \ doubt'
      PROVE  ~Settling(m) /\ ~Bounces(m) /\ (m \in Offering' => m \in Offering)
    BY DEF Settling, Bounces
<1> QED  BY <1>1, FatesStep

\* Where the client sends nothing and waits for nothing, little has to be answered.
LEMMA QuietAnswered ==
    ASSUME Answered, UNCHANGED <<line, phase, rcpts>>, doubt \subseteq doubt', pc # "dot",
           pc' \notin {"mail", "offer", "rcpt", "data", "dot"}
    PROVE  Answered'
BY DEF Answered

LEMMA NoneAnswered ==
    ASSUME line' = <<>>, rcpts' = {}
    PROVE  Answered'
BY DEF Answered, Accepted

LEMMA CalledFate ==
    ASSUME TInv, FateInv, StartRound \/ Called
    PROVE  FateInv'
<1> DEFINE Quiet ==
        /\ UNCHANGED <<outbox, notice, arrived, taken, doubt, draft>> /\ UNCHANGED connVars
        /\ pc \in {"idle", "round"} /\ pc' \in {"round", "bounce"}
        /\ pc' = "bounce" => cands' \subseteq outbox
<1>1. Quiet
    <2>1. CASE StartRound
        BY <2>1 DEF StartRound, dbVars, bounceVars, history
    <2>2. CASE StartBounces
        <3>1. Candidates \subseteq outbox
            BY DEF Candidates
        <3>2. cands' \subseteq Candidates
            BY <2>2, ResultType DEF StartBounces, TInv
        <3> QED  BY <2>2, <3>1, <3>2 DEF StartBounces, dbVars, history
    <2>3. ASSUME NEW h \in Remotes, StartOnce(h)
          PROVE  Quiet
        BY <2>3 DEF StartOnce, dbVars, bounceVars, history
    <2> QED  BY <2>1, <2>2, <2>3 DEF Called
<1>2. Offering' = Offering
    BY <1>1 DEF Offering, connVars
<1>3. Fates' /\ Answered'
    BY <1>1, <1>2, QuietFates, QuietAnswered DEF FateInv, connVars
<1>4. Drafted'
    BY <1>1 DEF FateInv, Drafted, Writing
<1> QED  BY <1>3, <1>4 DEF FateInv

LEMMA ConnectFate ==
    ASSUME TInv, FateInv, Connect
    PROVE  FateInv'
<1>1. /\ UNCHANGED <<outbox, notice, arrived, taken, doubt, draft>>
      /\ pc = "connect" /\ pc' = "next" /\ rcpts' = {}
    BY DEF Connect, dbVars, bounceVars, history
<1>2. Asked(line') = {}
    <2>1. PICK k \in 0..MaxLate : line' = [i \in 1..k |-> [verb |-> "NOOP", to |-> None]]
        BY DEF Connect
    <2>2. \A j \in 1..Len(line') : line'[j].verb = "NOOP"
        BY <2>1, BoundsAssumption
    <2> QED  BY <2>2 DEF Asked
<1>3. Fates'
    BY <1>1, <1>2, QuietFates DEF FateInv, Offering
<1>4. Answered' /\ Drafted'
    BY <1>1 DEF FateInv, Answered, Drafted, Writing
<1> QED  BY <1>3, <1>4 DEF FateInv

LEMMA DeliveryFate ==
    ASSUME TInv, FateInv, Delivery
    PROVE  FateInv'
<1> DEFINE Quiet ==
        /\ UNCHANGED <<outbox, notice, arrived, taken, doubt, draft>>
        /\ pc \in {"round", "connect", "unreached", "next"}
        /\ pc' \in {"round", "connect", "unreached"}
        /\ UNCHANGED connVars \/ Closed
<1>1. CASE Quiet
    <2>1. Offering' \subseteq Offering
        BY <1>1, EmptyAsked DEF Offering, connVars, Closed
    <2>2. Answered'
        BY <1>1, QuietAnswered, NoneAnswered DEF FateInv, connVars, Closed
    <2>3. Fates' /\ Drafted'
        BY <1>1, <2>1, QuietFates DEF FateInv, Drafted, Writing
    <2> QED  BY <2>2, <2>3 DEF FateInv
<1>2. ASSUME NEW h \in Remotes, Skip(h) \/ HandleRemote(h)
      PROVE  Quiet
    BY <1>2 DEF Skip, HandleRemote, dbVars, bounceVars, history
<1>3. CASE Unreachable \/ EndRemote
    BY <1>1, <1>3 DEF Unreachable, EndRemote, dbVars, bounceVars, history
<1>4. ASSUME NEW r \in Rows, FailUnreached(r)
      PROVE  Quiet
    BY <1>4, LogKeeps DEF FailUnreached, bounceVars, history
<1> QED  BY <1>1, <1>2, <1>3, <1>4, ConnectFate DEF Delivery

----------------------------------------------------------------------------
(* Transactions *)

\* Steps of a transaction leave the notices alone.
LEMMA DraftedStays ==
    ASSUME Drafted, UNCHANGED draft, pc \notin Writing, pc' \notin Writing
    PROVE  Drafted'
BY DEF Drafted

\* Steps that send no content bring up none.
LEMMA ContentsStay ==
    ASSUME TInv, NEW v, NEW r, Send(v, r), v # "content"
    PROVE  Contents(line') = Contents(line)
BY SendContents DEF TInv

LEMMA ResetFate ==
    ASSUME TInv, Pipe, Answered, NEW f, Reset(f), UNCHANGED <<phase, rcpts, doubt>>, pc # "dot"
    PROVE  Answered' /\ Offering' \subseteq Offering
<1>1. Send("RSET", None) /\ pc' = "rset" /\ "RSET" \in Verbs
    BY DEF Reset, Verbs
<1>2. Contents(line') = Contents(line) /\ Asked(line') \subseteq Asked(line)
    BY <1>1, ContentsStay, SendAsked
<1> QED  BY <1>1, <1>2 DEF Answered, Offering

LEMMA StartTransactionFate ==
    ASSUME TInv, LInv, FateInv, StartTransaction
    PROVE  FateInv'
<1>1. /\ UNCHANGED <<outbox, notice, arrived, taken, doubt, draft, phase, rcpts, back>>
      /\ pc = "next" /\ pc' = "mail" /\ Send("MAIL", None) /\ "MAIL" \in Verbs
    BY DEF StartTransaction, Begin, dbVars, bounceVars, history, Verbs
<1>2. Contents(line') = Contents(line) /\ Asked(line') \subseteq Asked(line)
    BY <1>1, ContentsStay, SendAsked DEF LInv
<1>3. ASSUME Sync', phase # "data", back' = <<"ok">>
      PROVE  rcpts = {}
    <2>1. phase # "gone" => back = <<>>
        BY <1>1, <1>3, SendSynced DEF LInv, Waits
    <2> QED  BY <1>1, <1>3, <2>1 DEF FateInv, Answered
<1>4. Answered'
    BY <1>1, <1>2, <1>3 DEF FateInv, Answered
<1>5. Fates' /\ Drafted'
    BY <1>1, <1>2, QuietFates, DraftedStays DEF FateInv, Writing, Offering
<1> QED  BY <1>4, <1>5 DEF FateInv

LEMMA MailAnsweredFate ==
    ASSUME TInv, LInv, Patient, FateInv, MailAnswered
    PROVE  FateInv'
<1>1. /\ UNCHANGED <<outbox, notice, arrived, taken, doubt, draft, phase, rcpts, st>>
      /\ pc = "mail" /\ pc' \in {"offer", "rset"}
    BY DEF MailAnswered, Reset, dbVars, bounceVars, history
<1>2. PICK x \in Answers \cup {"none"} :
          /\ Read(x)
          /\ \/ x = "ok" /\ pc' = "offer" /\ UNCHANGED line
             \/ Reset(x = "perm")
    BY DEF MailAnswered
<1>3. Answered' /\ Offering' \subseteq Offering
    <2>1. CASE x = "ok" /\ pc' = "offer" /\ UNCHANGED line
        <3>1. ASSUME Sync', phase # "data"
              PROVE  rcpts = {}
            <4>1. Sync /\ back = <<"ok">>
                BY <1>1, <1>2, <2>1, <3>1, ReadSynced DEF LInv, Waits
            <4> QED  BY <1>1, <3>1, <4>1 DEF FateInv, Answered
        <3> QED  BY <1>1, <2>1, <3>1 DEF FateInv, Answered, Accepted, Offering
    <2>2. CASE Reset(x = "perm")
        BY <1>1, <2>2, ResetFate DEF LInv, FateInv
    <2> QED  BY <1>2, <2>1, <2>2
<1>4. Fates' /\ Drafted'
    BY <1>1, <1>3, QuietFates, DraftedStays DEF FateInv, Writing
<1> QED  BY <1>3, <1>4 DEF FateInv

LEMMA OfferFate ==
    ASSUME TInv, LInv, OnceInv, FateInv, NEW r \in Rows, Offer(r)
    PROVE  FateInv'
<1>1. /\ UNCHANGED <<outbox, notice, arrived, taken, doubt, draft, phase, rcpts, back>>
      /\ pc = "offer" /\ pc' \in {"offer", "rcpt"} /\ r \in Having("ready")
    BY DEF Offer, OnceInv, dbVars, bounceVars, history
<1>2. Having("ok")' = Having("ok") /\ r \notin Having("ok")
    BY <1>1 DEF Offer, Having
<1>3. CASE Send("RCPT", r) /\ pc' = "rcpt" /\ at' = r /\ r \in outbox
    <2>1. Contents(line') = Contents(line) /\ Asked(line') \subseteq Asked(line) \cup {r}
        BY <1>3, ContentsStay, SendAsked DEF LInv, Verbs
    <2>2. ASSUME Sync', phase # "data"
          PROVE  rcpts \subseteq Having("ok") \cup doubt
        <3>1. phase # "gone" => Sync
            BY <1>1, <1>3, <2>2, SendSynced DEF LInv, Verbs, Waits
        <3> QED  BY <1>1, <2>2, <3>1 DEF FateInv, Answered, Accepted
    <2>3. Answered'
        BY <1>1, <1>2, <1>3, <2>1, <2>2 DEF FateInv, Answered
    <2>4. Fates'
        <3>1. ASSUME NEW m \in Mails \ doubt'
              PROVE  ~Settling(m) /\ ~Bounces(m) /\ (m \in Offering' => m \in Offering \/ Fresh(m))
            <4>1. ~Settling(m) /\ ~Bounces(m)
                BY <1>1 DEF Settling, Bounces
            <4>2. m \in outbox => Fresh(m)
                BY <1>1, <3>1, <4>1 DEF FateInv, Fates, Fate, Fresh
            <4> QED  BY <1>1, <1>3, <2>1, <4>1, <4>2 DEF Offering
        <3> QED  BY <1>1, <3>1, FatesStep DEF FateInv
    <2> QED  BY <1>1, <2>3, <2>4, DraftedStays DEF FateInv, Writing
<1>4. CASE UNCHANGED <<line, pc>>
    <2>1. Answered'
        BY <1>1, <1>2, <1>4 DEF FateInv, Answered, Accepted, Sync, Outstanding
    <2>2. Offering' = Offering
        BY <1>1, <1>4 DEF Offering
    <2> QED  BY <1>1, <2>1, <2>2, QuietFates, DraftedStays DEF FateInv, Writing
<1> QED  BY <1>3, <1>4 DEF Offer

LEMMA RcptAnsweredFate ==
    ASSUME TInv, LInv, OnceInv, Patient, FateInv, RcptAnswered
    PROVE  FateInv'
<1>1. /\ UNCHANGED <<outbox, notice, arrived, taken, draft, phase, rcpts, line>>
      /\ pc = "rcpt" /\ pc' = "offer" /\ at \in Having("ready")
    BY LogKeeps DEF RcptAnswered, OnceInv, dbVars, bounceVars
<1>2. PICK x \in Answers \cup {"none"} :
          /\ Read(x)
          /\ st' = [st EXCEPT ![at] = IF x = "ok" THEN "ok" ELSE "failed"]
          /\ doubt' = IF x \in {"none", "moved"} THEN doubt \cup {at} ELSE doubt
    BY DEF RcptAnswered
<1>3. Having("ok")' = IF x = "ok" THEN Having("ok") \cup {at} ELSE Having("ok")
    BY <1>1, <1>2 DEF Having
<1>4. ASSUME Sync', phase # "data"
      PROVE  Accepted'
    <2>1. Sync /\ (x = "none" \/ back = <<x>>)
        BY <1>1, <1>2, <1>4, ReadSynced DEF LInv, Waits
    <2>2. /\ rcpts \subseteq Having("ok") \cup doubt \cup {at}
          /\ at \in rcpts => at \in doubt \/ back \in {<<"ok">>, <<"moved">>}
        BY <1>1, <1>4, <2>1 DEF FateInv, Answered
    <2>3. x \notin {"ok", "moved", "none"} => back \notin {<<"ok">>, <<"moved">>}
        BY <2>1
    <2> QED  BY <1>1, <1>2, <1>3, <2>2, <2>3 DEF Accepted
<1>5. doubt \subseteq doubt'
    BY <1>2
<1>6. Answered'
    BY <1>1, <1>4, <1>5 DEF FateInv, Answered
<1>7. Offering' = Offering
    BY <1>1 DEF Offering
<1>8. Fates' /\ Drafted'
    BY <1>1, <1>5, <1>7, QuietFates, DraftedStays DEF FateInv, Writing
<1> QED  BY <1>6, <1>8 DEF FateInv

LEMMA AskForDataFate ==
    ASSUME TInv, LInv, FateInv, AskForData
    PROVE  FateInv'
<1>1. /\ UNCHANGED <<outbox, notice, arrived, taken, doubt, draft, phase, rcpts, st, back>>
      /\ pc = "offer" /\ pc' \in {"data", "rset"} /\ Having("ok")' = Having("ok")
    BY DEF AskForData, Reset, dbVars, bounceVars, history, Having
<1>2. Answered' /\ Offering' \subseteq Offering
    <2>1. CASE Having("ok") # {} /\ pc' = "data" /\ Send("DATA", None)
        <3>1. Contents(line') = Contents(line) /\ Asked(line') \subseteq Asked(line)
            BY <2>1, ContentsStay, SendAsked DEF LInv, Verbs
        <3>2. ASSUME Sync', phase # "data"
              PROVE  Accepted
            <4>1. phase # "gone" => Sync
                BY <1>1, <2>1, <3>2, SendSynced DEF LInv, Verbs, Waits
            <4> QED  BY <1>1, <3>2, <4>1 DEF FateInv, Answered, Accepted
        <3>3. back # <<"go">>
            <4>1. Replies(back, 0)
                BY <1>1, <2>1 DEF LInv, Pipe, Distances, Free
            <4> QED  BY <4>1 DEF Replies, Goes
        <3>4. Accepted => Accepted'
            BY <1>1 DEF Accepted
        <3> QED  BY <1>1, <2>1, <3>1, <3>2, <3>3, <3>4 DEF FateInv, Answered, Offering
    <2>2. CASE Reset(FALSE)
        BY <1>1, <2>2, ResetFate DEF LInv, FateInv
    <2> QED  BY <2>1, <2>2 DEF AskForData
<1>3. Fates' /\ Drafted'
    BY <1>1, <1>2, QuietFates, DraftedStays DEF FateInv, Writing
<1> QED  BY <1>2, <1>3 DEF FateInv

LEMMA DataAnsweredFate ==
    ASSUME TInv, LInv, Patient, FateInv, DataAnswered
    PROVE  FateInv'
<1>1. /\ UNCHANGED <<outbox, notice, arrived, taken, doubt, draft, phase, rcpts, st>>
      /\ pc = "data" /\ Having("ok")' = Having("ok")
    BY DEF DataAnswered, dbVars, bounceVars, history, Having
<1>2. PICK x \in Answers \cup {"none"} :
          /\ Read(x)
          /\ \/ x = "go" /\ pc' = "dot" /\ Send("content", None)
             \/ pc' = "reject" /\ UNCHANGED line
    BY DEF DataAnswered
<1>3. Answered'
    <2>1. CASE x = "go" /\ pc' = "dot" /\ Send("content", None)
        <3>1. back # <<>> /\ Head(back) = "go" /\ back \in Seq(Answers)
            BY <1>2, <2>1, ReadOne DEF LInv, TInv, ConnType
        <3>2. Len(back) = 1
            <4>1. 1 \in Goes(back)
                BY <3>1 DEF Goes
            <4> QED  BY <1>1, <4>1 DEF LInv, Pipe, Distances
        <3>3. back = <<"go">>
            BY <3>1, <3>2, OneAnswer
        <3>4. Accepted'
            BY <1>1, <3>3 DEF FateInv, Answered, Accepted
        <3> QED  BY <1>1, <2>1, <3>4 DEF FateInv, Answered
    <2>2. CASE pc' = "reject" /\ UNCHANGED line
        BY <1>1, <2>2, QuietAnswered DEF FateInv
    <2> QED  BY <1>2, <2>1, <2>2
<1>4. Asked(line') \subseteq Asked(line)
    BY <1>2, SendAsked DEF LInv, Verbs
<1>5. Fates' /\ Drafted'
    BY <1>1, <1>2, <1>4, QuietFates, DraftedStays DEF FateInv, Writing, Offering
<1> QED  BY <1>3, <1>5 DEF FateInv

LEMMA DotAnsweredFate ==
    ASSUME TInv, LInv, Patient, FateInv, DotAnswered
    PROVE  FateInv'
<1>1. /\ UNCHANGED <<outbox, notice, arrived, taken, draft, phase, rcpts, st>>
      /\ pc = "dot" /\ pc' \in {"reject", "rset"} /\ Having("ok")' = Having("ok")
    BY DEF DotAnswered, Reset, dbVars, bounceVars, Having
<1>2. PICK x \in Answers \cup {"none"} :
          /\ Read(x)
          /\ IF x = "ok" THEN Reset(FALSE) ELSE pc' = "reject" /\ UNCHANGED line
          /\ doubt' = IF x = "none" THEN doubt \cup Having("ok") ELSE doubt
    BY DEF DotAnswered
<1>3. x # "none" => back # <<>> /\ Head(back) = x /\ line = <<>>
    <2>1. x # "none" => back # <<>> /\ Head(back) = x
        BY <1>2, ReadOne DEF LInv
    <2>2. back # <<>> => Len(back) # 0
        BY EmptySeq DEF TInv, ConnType
    <2>3. Len(back) + Len(line) <= 1
        BY <1>1 DEF LInv, Pipe, Channel, Outstanding
    <2>4. \A m, n \in Nat : m + n <= 1 /\ m # 0 => n = 0
        OBVIOUS
    <2>5. Len(line) = 0 => line = <<>>
        BY EmptySeq DEF TInv, ConnType
    <2> QED  BY <2>1, <2>2, <2>3, <2>4, <2>5, Lengths
<1>4. x = "ok" => Contents(line') = Contents(line) /\ Asked(line') \subseteq Asked(line)
    BY <1>2, ContentsStay, SendAsked DEF LInv, Reset, Verbs
<1>5. Answered'
    <2>1. Contents(line') # {} => x = "none" /\ line # <<>>
        BY <1>2, <1>3, <1>4, EmptyContents
    <2>2. Contents(line') # {} => rcpts' \subseteq doubt'
        BY <1>1, <1>2, <2>1 DEF FateInv, Answered, Accepted
    <2> QED  BY <1>1, <2>2 DEF FateInv, Answered
<1>6. doubt \subseteq doubt'
    BY <1>2
<1>7. Offering' \subseteq Offering
    BY <1>1, <1>2, <1>4 DEF Offering
<1>8. Fates'
    <2>1. ASSUME NEW m \in Mails \ doubt'
          PROVE  ~Bounces(m) /\ (Settling(m) => Settling(m)')
        <3>1. ~Bounces(m)
            BY <1>1 DEF Bounces
        <3>2. CASE x = "ok"
            BY <1>1, <1>2, <3>1, <3>2 DEF Settling, Reset
        <3>3. CASE x = "none"
            BY <1>2, <3>1, <3>3 DEF Settling
        <3>4. CASE x \notin {"ok", "none"}
            <4>1. back \notin {<<>>, <<"ok">>}
                BY <1>3, <3>4
            <4> QED  BY <1>1, <3>1, <4>1 DEF Settling
        <3> QED  BY <3>1, <3>2, <3>3, <3>4
    <2> QED  BY <1>1, <1>6, <1>7, <2>1, FatesStep DEF FateInv
<1>9. Drafted'
    BY <1>1, DraftedStays DEF FateInv, Writing
<1> QED  BY <1>5, <1>8, <1>9 DEF FateInv

LEMMA RejectFate ==
    ASSUME TInv, LInv, FateInv, Rejected \/ \E r \in Rows : RejectRow(r)
    PROVE  FateInv'
<1>1. /\ UNCHANGED <<outbox, notice, arrived, taken, doubt, draft, phase, rcpts>>
      /\ pc = "reject" /\ pc' \in {"reject", "rset"}
      /\ (pc' = "reject" /\ UNCHANGED line) \/ Reset(perm)
    <2>1. CASE Rejected
        BY <2>1 DEF Rejected, Reset, dbVars, bounceVars, history
    <2>2. ASSUME NEW r \in Rows, RejectRow(r)
          PROVE  /\ UNCHANGED <<outbox, notice, arrived, taken, doubt, draft, phase, rcpts, line>>
                 /\ pc = "reject" /\ pc' = "reject"
        BY <2>2, LogKeeps DEF RejectRow, connVars, bounceVars, history
    <2> QED  BY <2>1, <2>2
<1>2. Answered' /\ Offering' \subseteq Offering
    <2>1. CASE pc' = "reject" /\ UNCHANGED line
        BY <1>1, <2>1, QuietAnswered DEF FateInv, Offering
    <2>2. CASE Reset(perm)
        BY <1>1, <2>2, ResetFate DEF LInv, FateInv
    <2> QED  BY <1>1, <2>1, <2>2
<1>3. Fates' /\ Drafted'
    BY <1>1, <1>2, QuietFates, DraftedStays DEF FateInv, Writing
<1> QED  BY <1>2, <1>3 DEF FateInv

LEMMA ResetAnsweredFate ==
    ASSUME FateInv, ResetAnswered
    PROVE  FateInv'
<1>1. /\ UNCHANGED <<outbox, notice, arrived, taken, doubt, draft, phase, rcpts, st, line>>
      /\ pc = "rset" /\ pc' = "settle" /\ left' = DOMAIN st \ Having("failed")
    BY DEF ResetAnswered, dbVars, bounceVars, history
<1>2. Answered' /\ Drafted'
    BY <1>1, QuietAnswered, DraftedStays DEF FateInv, Writing
<1>3. Fates'
    <2>1. ASSUME NEW m \in Mails \ doubt'
          PROVE  /\ Settling(m) => Settling(m)'
                 /\ ~Bounces(m) /\ (m \in Offering' => m \in Offering)
        BY <1>1 DEF Settling, Having, Bounces, Offering
    <2> QED  BY <1>1, <2>1, FatesStep DEF FateInv
<1> QED  BY <1>2, <1>3 DEF FateInv

LEMMA SettleFate ==
    ASSUME FateInv, NEW r \in Rows, Settle(r)
    PROVE  FateInv'
<1>1. /\ UNCHANGED <<notice, arrived, taken, draft, phase, rcpts, st, line, back, at>>
      /\ pc = "settle" /\ pc' = "settle" /\ left' = left \ {r}
      /\ doubt' = IF st[r] = "ok" THEN doubt \cup (outbox' \cap {r}) ELSE doubt
    BY DEF Settle, connVars, bounceVars
<1>2. outbox' \subseteq outbox /\ doubt \subseteq doubt'
    BY <1>1, LogKeeps DEF Settle, Delete, Removed, Forgotten, dbVars
<1>3. Answered' /\ Drafted'
    BY <1>1, <1>2, QuietAnswered, DraftedStays DEF FateInv, Writing
<1>4. Fates'
    <2>1. ASSUME NEW m \in Mails \ doubt'
          PROVE  /\ m \in outbox' /\ Settling(m) => Settling(m)'
                 /\ ~Bounces(m) /\ (m \in Offering' => m \in Offering)
        <3>1. ~Bounces(m) /\ (m \in Offering' => m \in Offering)
            BY <1>1 DEF Bounces, Offering
        <3>2. ASSUME m \in outbox', Settling(m)
              PROVE  Settling(m)'
            <4>1. st[m] = "ok" /\ m \in left
                BY <1>1, <3>2 DEF Settling, Having
            <4>2. m # r
                BY <1>1, <2>1, <3>2, <4>1
            <4> QED  BY <1>1, <3>2, <4>1, <4>2 DEF Settling, Having
        <3> QED  BY <3>1, <3>2
    <2> QED  BY <1>1, <1>2, <2>1, FatesStep DEF FateInv
<1> QED  BY <1>3, <1>4 DEF FateInv

LEMMA EndTransactionFate ==
    ASSUME FateInv, EndTransaction
    PROVE  FateInv'
<1>1. /\ UNCHANGED <<outbox, notice, arrived, taken, doubt, draft, phase, rcpts, line, back>>
      /\ pc = "settle" /\ pc' = "next" /\ left = {}
    BY DEF EndTransaction, dbVars, connVars, bounceVars, history
<1>2. Answered' /\ Drafted'
    BY <1>1, QuietAnswered, DraftedStays DEF FateInv, Writing
<1>3. Fates'
    <2>1. ASSUME NEW m \in Mails \ doubt'
          PROVE  ~Settling(m) /\ ~Bounces(m) /\ (m \in Offering' => m \in Offering)
        BY <1>1 DEF Settling, Bounces, Offering
    <2> QED  BY <1>1, <2>1, FatesStep DEF FateInv
<1> QED  BY <1>2, <1>3 DEF FateInv

LEMMA TransactionFate ==
    ASSUME TInv, LInv, OnceInv, Patient, FateInv, Transaction
    PROVE  FateInv'
BY StartTransactionFate, MailAnsweredFate, OfferFate, RcptAnsweredFate, AskForDataFate,
   DataAnsweredFate, DotAnsweredFate, RejectFate, ResetAnsweredFate, SettleFate,
   EndTransactionFate DEF Transaction

----------------------------------------------------------------------------
(* Bounces, crashes *)

LEMMA ComposeFate ==
    ASSUME FateInv, NEW m \in Rows, Compose(m)
    PROVE  FateInv'
<1>1. /\ UNCHANGED <<outbox, notice, arrived, taken, doubt, phase, rcpts, line, back, cands>>
      /\ pc = "bounce" /\ pc' = "notify" /\ m \in cands \cap Mails
      /\ draft' = draft \cup {m} /\ at' = m
    BY DEF Compose, dbVars, connVars, history
<1>2. Answered'
    BY <1>1, QuietAnswered DEF FateInv
<1>3. Fates'
    <2> SUFFICES ASSUME NEW n \in Mails \ doubt PROVE Fate(n)'
        BY <1>1 DEF Fates
    <2>1. /\ Fate(n) /\ (Told(n)' <=> Told(n)) /\ ~Settling(n) /\ ~Bounces(n)
          /\ (n \in Offering' => n \in Offering)
        BY <1>1 DEF FateInv, Fates, Told, Settling, Bounces, Offering
    <2>2. m \in outbox /\ Bounces(m)'
        BY <1>1 DEF FateInv, Drafted, Writing, Bounces
    <2> QED  BY <1>1, <2>1, <2>2 DEF Fate, Fresh
<1>4. Drafted'
    BY <1>1 DEF FateInv, Drafted, Writing
<1> QED  BY <1>2, <1>3, <1>4 DEF FateInv

LEMMA InsertNoticeFate ==
    ASSUME TInv, LInv, Known, FateInv, InsertNotice
    PROVE  FateInv'
<1>1. /\ UNCHANGED <<arrived, taken, doubt, phase, rcpts, line, back, cands, draft, at>>
      /\ pc = "notify" /\ pc' \in {"notify", "judge"} /\ outbox \subseteq outbox'
    BY DEF InsertNotice, Inserted, connVars, history
<1>2. Answered'
    BY <1>1, QuietAnswered DEF FateInv
<1>3. Fates'
    <2> SUFFICES ASSUME NEW m \in Mails \ doubt PROVE Fate(m)'
        BY <1>1 DEF Fates
    <2>1. m \in outbox' => m \in outbox
        BY RowsAssumption DEF InsertNotice, Inserted, Unused, NextId
    <2>2. m \notin draft => (Told(m)' => Told(m))
        <3>1. CASE Unused # {} /\ Inserted(NextId)
            <4> DEFINE e == [to |-> Addressee, about |-> draft, first |-> text']
            <4>1. NextId \in Notices
                BY <3>1 DEF NextId, Unused
            <4>2. notice' = [notice EXCEPT ![NextId] = e] /\ e.about = draft
                BY <3>1 DEF Inserted
            <4> HIDE DEF e
            <4>3. \A n \in Notices : notice'[n] = IF n = NextId THEN e ELSE notice[n]
                BY <4>1, <4>2 DEF TInv, DbType
            <4> QED  BY <4>2, <4>3 DEF Told
        <3>2. CASE UNCHANGED notice
            BY <3>2 DEF Told
        <3> QED  BY <3>1, <3>2 DEF InsertNotice
    <2>3. m \notin Offering'
        <3>1. phase = "gone" /\ line = <<>>
            BY <1>1 DEF LInv, Pipe, Channel, Resting
        <3>2. rcpts = {}
            BY <3>1 DEF FateInv, Answered
        <3> QED  BY <1>1, <3>1, <3>2, EmptyAsked DEF Offering
    <2>4. Fate(m) /\ ~Settling(m) /\ (Bounces(m)' <=> Bounces(m))
        BY <1>1 DEF FateInv, Fates, Settling, Bounces
    <2>5. m \in draft => m \in arrived
        BY DEF Known
    <2>6. CASE m \in draft
        BY <1>1, <2>1, <2>3, <2>4, <2>5, <2>6 DEF Fate, Fresh
    <2>7. CASE m \notin draft
        BY <1>1, <2>1, <2>2, <2>3, <2>4, <2>7 DEF Fate, Fresh
    <2> QED  BY <2>6, <2>7
<1>4. Drafted'
    BY <1>1 DEF FateInv, Drafted, Writing
<1> QED  BY <1>2, <1>3, <1>4 DEF FateInv

LEMMA BouncingFate ==
    ASSUME TInv, LInv, Known, FateInv, Bouncing
    PROVE  FateInv'
<1>1. ASSUME NEW n \in Rows, GiveUp(n)
      PROVE  FateInv'
    <2>1. /\ UNCHANGED <<notice, arrived, taken, doubt, phase, rcpts, line, back, draft>>
          /\ pc = "bounce" /\ pc' = "bounce" /\ cands' = cands \ {n}
          /\ outbox' \subseteq outbox /\ outbox \ {n} \subseteq outbox'
        BY <1>1, DeleteLeaves DEF GiveUp, Delete, Removed, Forgotten, dbVars, connVars, history
    <2>2. Fates'
        BY <2>1, QuietFates DEF FateInv, Offering
    <2>3. Answered' /\ Drafted'
        BY <2>1, QuietAnswered DEF FateInv, Drafted, Writing
    <2> QED  BY <2>2, <2>3 DEF FateInv
<1>2. CASE Bounced
    <2>1. /\ UNCHANGED <<notice, arrived, taken, phase, rcpts, line, back, draft>>
          /\ pc = "judge" /\ pc' = "bounce" /\ cands' = cands \ {at}
          /\ outbox' \subseteq outbox /\ outbox \ {at} \subseteq outbox'
          /\ doubt' = doubt \cup (outbox' \cap {at})
        BY <1>2, DeleteLeaves DEF Bounced, Delete, Removed, Forgotten, dbVars, connVars
    <2>2. Fates'
        <3>1. ASSUME NEW m \in Mails \ doubt'
              PROVE  /\ ~Settling(m) /\ (m \in outbox' => ~Bounces(m))
                     /\ (m \in Offering' => m \in Offering)
            BY <2>1 DEF Settling, Bounces, Offering
        <3> QED  BY <2>1, <3>1, FatesStep DEF FateInv
    <2>3. Answered' /\ Drafted'
        BY <2>1, QuietAnswered DEF FateInv, Drafted, Writing
    <2> QED  BY <2>2, <2>3 DEF FateInv
<1>3. CASE Rest
    <2>1. /\ UNCHANGED <<outbox, notice, arrived, taken, doubt, phase, rcpts, line, back>>
          /\ pc \in {"round", "bounce"} /\ pc' = "idle" /\ draft' = {}
        BY <1>3 DEF Rest, dbVars, connVars, history
    <2>2. Fates'
        BY <2>1, QuietFates DEF FateInv, Offering
    <2>3. Answered' /\ Drafted'
        BY <2>1, QuietAnswered DEF FateInv, Drafted, Writing
    <2> QED  BY <2>2, <2>3 DEF FateInv
<1> QED  BY <1>1, <1>2, <1>3, ComposeFate, InsertNoticeFate DEF Bouncing

LEMMA CrashFate ==
    ASSUME FateInv, Crash
    PROVE  FateInv'
<1>1. /\ UNCHANGED <<outbox, notice, arrived, taken>>
      /\ pc' = "idle" /\ draft' = {} /\ rcpts' = {} /\ line' = <<>>
      /\ doubt' = doubt \cup Having("ok") \cup ({at} \ {None})
    BY DEF Crash, Closed, dbVars
<1>2. Offering' = {}
    BY <1>1, EmptyAsked DEF Offering
<1>3. Fates'
    <2>1. ASSUME NEW m \in Mails \ doubt'
          PROVE  ~Settling(m) /\ ~Bounces(m)
        BY <1>1, RowsAssumption DEF Settling, Bounces, Rows
    <2> QED  BY <1>1, <1>2, <2>1, FatesStep DEF FateInv
<1>4. Answered' /\ Drafted'
    BY <1>1, NoneAnswered DEF Drafted, Writing
<1> QED  BY <1>3, <1>4 DEF FateInv

----------------------------------------------------------------------------
(* The server, other processes, and time *)

LEMMA DropFate ==
    ASSUME FateInv, Drop
    PROVE  FateInv'
<1>1. /\ UNCHANGED <<outbox, notice, arrived, taken, doubt, draft, cands, pc, st, left, at>>
      /\ line' = <<>> /\ back' \in {back, <<>>} /\ rcpts' = {} /\ phase' = "gone"
    BY DEF Drop, Untouched, dbVars, bounceVars
<1>2. Offering' = {}
    BY <1>1, EmptyAsked DEF Offering
<1>3. Fates'
    <2>1. ASSUME NEW m \in Mails \ doubt'
          PROVE  (Settling(m) => Settling(m)') /\ (Bounces(m) => Bounces(m)')
        BY <1>1 DEF Settling, Having, Bounces
    <2> QED  BY <1>1, <1>2, <2>1, FatesStep DEF FateInv
<1>4. Answered' /\ Drafted'
    BY <1>1, NoneAnswered DEF FateInv, Drafted
<1> QED  BY <1>3, <1>4 DEF FateInv

\* Steps that leave the transaction alone
LEMMA AnsweredStays ==
    ASSUME Answered, UNCHANGED <<line, back, phase, rcpts, pc, st, at>>, doubt \subseteq doubt'
    PROVE  Answered'
<1>1. Having("ok")' = Having("ok")
    BY DEF Having
<1> QED  BY <1>1 DEF Answered, Accepted, Sync, Outstanding

\* What other processes do to the tables
LEMMA ForeignFate ==
    ASSUME TInv, Known, FateInv,
           \/ \E m \in Mails : Queue(m)
           \/ \E r \in Rows : Elapse(r) \/ Elsewhere(r)
    PROVE  FateInv'
<1>1. /\ UNCHANGED <<phase, rcpts, line, back, draft, cands, pc, st, left, at>>
      /\ doubt \subseteq doubt'
    <2>1. ASSUME NEW r \in Rows, Elsewhere(r)
          PROVE  /\ UNCHANGED <<phase, rcpts, line, back, draft, cands, pc, st, left, at>>
                 /\ doubt \subseteq doubt'
        BY <2>1, ElsewhereTables
           DEF TakenElsewhere, FailedElsewhere, AlsoTaken, connVars, bounceVars
    <2> QED  BY <2>1 DEF Queue, Elapse, connVars, bounceVars, history
<1>2. Answered'
    BY <1>1, AnsweredStays DEF FateInv
<1>3. \A m \in Mails : /\ Settling(m)' <=> Settling(m)
                       /\ Bounces(m)' <=> Bounces(m)
                       /\ m \in Offering' <=> m \in Offering
                       /\ UNCHANGED notice => (Told(m)' <=> Told(m))
    BY <1>1 DEF Settling, Having, Bounces, Offering, Told
<1>4. CASE \E r \in Rows : Elapse(r)
    <2>1. UNCHANGED <<outbox, notice, arrived, taken, doubt>>
        BY <1>4 DEF Elapse, history
    <2>2. Fates'
        BY <1>1, <1>3, <2>1, FatesStep DEF FateInv
    <2> QED  BY <1>1, <1>2, <2>1, <2>2 DEF FateInv, Drafted
<1>5. ASSUME NEW q \in Mails, Queue(q)
      PROVE  FateInv'
    <2>1. /\ q \notin arrived /\ arrived' = arrived \cup {q} /\ outbox' = outbox \cup {q}
          /\ UNCHANGED <<notice, taken, doubt>> /\ pc \notin Writing
        BY <1>5 DEF Queue, Unlocked, Writing
    <2>2. ASSUME NEW m \in Mails \ doubt'
          PROVE  Fate(m)'
        <3>1. Fate(m) /\ m \notin draft'
            BY <1>1, <2>1 DEF FateInv, Fates, Drafted
        <3> QED  BY <1>1, <1>3, <2>1, <3>1 DEF Fate, Fresh
    <2> QED  BY <1>1, <1>2, <2>1, <2>2 DEF FateInv, Fates, Drafted
<1>6. ASSUME NEW r \in Rows, Elsewhere(r)
      PROVE  FateInv'
    <2>1. UNCHANGED arrived /\ pc \notin Writing
        BY <1>6, ElsewhereTables DEF Writing
    <2>2. ASSUME NEW m \in Mails \ doubt'
          PROVE  /\ taken'[m] = taken[m] /\ (Told(m)' <=> Told(m))
                 /\ m \in outbox' <=> m \in outbox
        <3>1. CASE TakenElsewhere(r)
            <4>1. m # r
                BY <3>1 DEF TakenElsewhere, AlsoTaken
            <4> QED  BY <1>3, <3>1, <4>1
                        DEF TakenElsewhere, AlsoTaken, Removed, dbVars, TInv, HistoryType
        <3>2. CASE FailedElsewhere(r)
            <4>1. UNCHANGED <<outbox, notice>> /\ (AlsoTaken(r) \/ UNCHANGED taken)
                BY <3>2 DEF FailedElsewhere
            <4>2. AlsoTaken(r) => m # r
                BY DEF AlsoTaken
            <4>3. taken'[m] = taken[m]
                <5>1. m \in Rows
                    BY DEF Rows
                <5> QED  BY <4>1, <4>2, <5>1 DEF AlsoTaken, TInv, HistoryType
            <4> QED  BY <1>3, <4>1, <4>3
        <3>3. CASE r \in Notices /\ Removed(r) /\ UNCHANGED <<notice, doubt, taken>>
            BY <1>3, <3>3, RowsAssumption DEF Removed
        <3>4. ASSUME NEW n \in Notices, NEW e \in NoticeText, notice[n] = None, r \in Mails,
                     e.to = SenderOf[r], e.about = {r}, notice' = [notice EXCEPT ![n] = e],
                     outbox' = (outbox \cup {n}) \ {r} \/ outbox' = outbox \cup {n},
                     doubt' = doubt \cup {r}, UNCHANGED taken
              PROVE  /\ taken'[m] = taken[m] /\ (Told(m)' <=> Told(m))
                     /\ m \in outbox' <=> m \in outbox
            <4>1. m # r /\ m # n
                BY <2>2, <3>4, RowsAssumption
            <4>2. Told(m)' <=> Told(m)
                BY <3>4, <4>1, NoticeWritten
            <4> QED  BY <3>4, <4>1, <4>2
        <3> QED  BY <1>6, <3>1, <3>2, <3>3, <3>4, ElsewhereTables
    <2>3. ASSUME NEW m \in Mails \ doubt'
          PROVE  Fate(m)'
        <3>1. Fate(m) /\ taken'[m] = taken[m] /\ (Told(m)' <=> Told(m)) /\ (m \in outbox' <=> m \in outbox)
            BY <1>1, <2>2 DEF FateInv, Fates
        <3> QED  BY <1>1, <1>3, <2>1, <3>1 DEF Fate, Fresh
    <2> QED  BY <1>1, <1>2, <2>1, <2>3 DEF FateInv, Fates, Drafted
<1> QED  BY <1>4, <1>5, <1>6

\* The server answers what the client waits for, or what it has given up on.
LEMMA ServeAnswered ==
    ASSUME TInv, LInv, FateInv, Serve
    PROVE  Answered'
<1>1. UNCHANGED <<pc, st, at, doubt>> /\ phase # "gone" /\ Having("ok")' = Having("ok")
    BY DEF Serve, Untouched, Having
<1>2. phase' \in {"idle", "gone"} => rcpts' = {}
    BY <1>1 DEF Serve, OnContent, OnMail, OnRcpt, OnData, OnReset, FateInv, Answered
<1>3. ASSUME pc = "mail", Sync', phase' # "data", back' = <<"ok">>
      PROVE  rcpts' = {}
    <2>1. OnMail
        BY <1>3, ServeWaited DEF LInv
    <2>2. back = <<>>
        BY <1>3, ServeSynced DEF LInv
    <2> QED  BY <1>3, <2>1, <2>2 DEF OnMail, Answer, Refusals, FateInv, Answered
<1>4. ASSUME pc \in {"offer", "data"}, Sync', phase' # "data"
      PROVE  Accepted'
    <2>1. pc = "data" /\ OnData /\ Sync /\ phase # "data"
        BY <1>4, ServeWaited DEF LInv, Waits
    <2> QED  BY <1>1, <2>1 DEF OnData, FateInv, Answered, Accepted
<1>5. ASSUME pc = "data", back' = <<"go">>
      PROVE  Accepted'
    <2>1. Sync /\ phase # "data" /\ OnData
        BY <1>5, ServeGo DEF LInv
    <2> QED  BY <1>1, <1>5, <2>1 DEF OnData, FateInv, Answered, Accepted
<1>6. ASSUME pc = "rcpt", Sync', phase' # "data"
      PROVE  /\ rcpts' \subseteq Having("ok") \cup doubt \cup {at}
             /\ at \in rcpts' => at \in doubt \/ back' \in {<<"ok">>, <<"moved">>}
    <2>1. OnRcpt /\ Head(line).to = at /\ Sync /\ phase # "data"
        BY <1>6, ServeWaited DEF LInv
    <2>2. back = <<>>
        BY <1>6, ServeSynced DEF LInv
    <2>3. rcpts' = rcpts \/ (rcpts' = rcpts \cup {at} /\ back' \in {<<"ok">>, <<"moved">>})
        BY <2>1, <2>2 DEF OnRcpt, Answer
    <2> QED  BY <1>6, <2>1, <2>2, <2>3 DEF FateInv, Answered
<1>7. pc = "dot" => line' = <<>>
    BY ServeDot DEF LInv
<1>8. Contents(line') = {}
    <2>1. ASSUME NEW j \in Contents(line')
          PROVE  FALSE
        <3>1. j \in Nat \ {0} /\ j + 1 \in Contents(line)
            BY <2>1, ServeOne DEF Contents
        <3>2. j + 1 = 1
            BY <3>1 DEF LInv, Pipe, Channel
        <3> QED  BY <3>1, <3>2
    <2> QED  BY <2>1
<1> QED  BY <1>1, <1>2, <1>3, <1>4, <1>5, <1>6, <1>7, <1>8 DEF Answered

\* The content the client waits for is taken for recipients it knows of.
LEMMA ServedFate ==
    ASSUME TInv, LInv, Known, FateInv, Serve, pc = "dot"
    PROVE  Fates'
<1>1. UNCHANGED <<pc, st, at, left, outbox, notice, arrived, draft, doubt>>
    BY DEF Serve, Untouched, dbVars, bounceVars
<1>2. line # <<>> /\ line' = <<>> /\ Head(line).verb = "content" /\ phase = "data" /\ back = <<>>
    BY ServeDot DEF LInv
<1>3. Having("ok")' = Having("ok")
    BY <1>1 DEF Having
<1>4. rcpts' = {} /\ (taken' = taken \/ (taken' = Served /\ back' = <<"ok">>))
    BY <1>2 DEF Serve, OnContent, Answer
<1>5. Offering' = {}
    BY <1>2, <1>4, EmptyAsked DEF Offering
<1>6. CASE taken' = taken
    <2>1. ASSUME NEW m \in Mails \ doubt'
          PROVE  ~Settling(m) /\ ~Bounces(m)
        BY <1>2 DEF Settling, Bounces
    <2> QED  BY <1>1, <1>5, <1>6, <2>1, FatesStep DEF FateInv
<1>7. CASE taken' = Served /\ back' = <<"ok">>
    <2>1. ASSUME NEW m \in Mails \ doubt
          PROVE  Fate(m)'
        <3>1. Fate(m) /\ ~Settling(m) /\ ~Bounces(m) /\ m \notin draft' /\ (Told(m)' <=> Told(m))
            BY <1>1, <1>2 DEF FateInv, Fates, Drafted, Writing, Settling, Bounces, Told
        <3>2. CASE m \in rcpts
            <4>1. Fresh(m) /\ taken'[m] = 1
                BY <1>7, <3>1, <3>2 DEF Fate, Offering, Fresh, Served, Rows
            <4>2. m \in Having("ok")
                BY <1>2, <3>2 DEF FateInv, Answered, Accepted
            <4>3. Settling(m)'
                BY <1>1, <1>2, <1>3, <1>7, <4>2 DEF Settling
            <4>4. m \in arrived
                BY <3>2, RowsAssumption DEF Known
            <4> QED  BY <1>1, <1>5, <3>1, <4>1, <4>3, <4>4 DEF Fate, Fresh
        <3>3. CASE m \notin rcpts
            <4>1. taken'[m] = taken[m]
                BY <1>7, <3>3 DEF Served, Rows
            <4> QED  BY <1>1, <1>5, <3>1, <4>1 DEF Fate, Fresh
        <3> QED  BY <3>2, <3>3
    <2> QED  BY <1>1, <2>1 DEF Fates
<1> QED  BY <1>4, <1>6, <1>7

\* Other content is taken for recipients that are in doubt only.
LEMMA ServeFate ==
    ASSUME TInv, LInv, Known, FateInv, Serve
    PROVE  FateInv'
<1>1. UNCHANGED <<pc, st, at, left, outbox, notice, arrived, cands, draft, doubt>>
    BY DEF Serve, Untouched, dbVars, bounceVars
<1>2. ASSUME pc # "dot"
      PROVE  Fates'
    <2>1. taken' = taken \/ (taken' = Served /\ Head(line).verb = "content")
        BY DEF Serve, OnContent, OnMail, OnRcpt, OnData, OnReset
    <2>2. \A m \in Mails \ doubt : taken'[m] = taken[m]
        <3>1. CASE taken' = taken
            BY <3>1
        <3>2. CASE taken' = Served /\ Head(line).verb = "content"
            <4>1. 1 \in Contents(line)
                <5>1. line # <<>> /\ Head(line) = line[1] /\ line \in Seq(Commands)
                    BY ServeOne DEF TInv, ConnType
                <5>2. 1 \in 1..Len(line)
                    BY <5>1
                <5> QED  BY <3>2, <5>1, <5>2 DEF Contents
            <4>2. rcpts \subseteq doubt
                BY <1>2, <4>1 DEF FateInv, Answered
            <4> QED  BY <3>2, <4>2 DEF Served, Rows
        <3> QED  BY <2>1, <3>1, <3>2
    <2>3. Offering' \subseteq Offering
        <3>1. rcpts' \subseteq rcpts \cup Asked(line)
            <4>1. \/ rcpts' \subseteq rcpts
                  \/ Head(line).verb = "RCPT" /\ rcpts' = rcpts \cup {Head(line).to}
                BY DEF Serve, OnContent, OnMail, OnRcpt, OnData, OnReset
            <4>2. Head(line).verb = "RCPT" => rcpts' \subseteq Rows /\ 1 \in 1..Len(line) /\ Head(line) = line[1]
                BY NextType, ServeOne, EmptySeq DEF TInv, ConnType, Next, Environment
            <4> QED  BY <4>1, <4>2 DEF Asked
        <3> QED  BY <3>1, ServeAsked DEF Offering
    <2>4. ASSUME NEW m \in Mails \ doubt'
          PROVE  (Settling(m) => Settling(m)') /\ (Bounces(m) => Bounces(m)')
        BY <1>1, <1>2 DEF Settling, Having, Bounces
    <2> QED  BY <1>1, <2>2, <2>3, <2>4, FatesStep DEF FateInv
<1>3. Drafted'
    BY <1>1 DEF FateInv, Drafted
<1> QED  BY <1>2, <1>3, ServeAnswered, ServedFate DEF FateInv

LEMMA NextFate ==
    ASSUME TInv, LInv, OnceInv, Known, Patient, FateInv, [Next]_vars
    PROVE  FateInv'
<1>1. CASE UNCHANGED vars
    <2>1. Answered' /\ Drafted'
        BY <1>1, AnsweredStays DEF vars, dbVars, connVars, bounceVars, history, FateInv, Drafted
    <2>2. Fates'
        BY <1>1 DEF vars, dbVars, connVars, bounceVars, history, FateInv, Fates, Fate, Told,
                    Settling, Having, Bounces, Offering, Fresh
    <2> QED  BY <2>1, <2>2 DEF FateInv
<1>2. CASE Environment
    BY <1>2, ServeFate, DropFate, ForeignFate DEF Environment
<1> QED  BY <1>1, <1>2, CalledFate, DeliveryFate, TransactionFate, BouncingFate, CrashFate DEF Next

(* As long as at most three answers come after they were given up, each in *)
(* a piece of its own, no mail is delivered twice, and none is both        *)
(* delivered and reported to its sender as undeliverable, unless the       *)
(* client could not know better: an answer about it did not come in time,  *)
(* it died in between, a deletion failed or another dispatchd worked on    *)
(* the mail; or the server took the recipient with 251, an answer the      *)
(* client does not know (logic_handle_transaction, mail_dispatch,          *)
(* smtp_rcpt, logic_generate_bounces).                                     *)
THEOREM OnceOrInDoubt ==
    ASSUME Patient
    PROVE  Spec => []TwiceOnlyInDoubt
<1>1. Init => TInv /\ LInv /\ OnceInv /\ Known /\ FateInv
    <2>1. Init => DOMAIN st = {} /\ Len(line) = 0
        BY DEF Init
    <2>2. Init => OnceInv /\ Known
        BY <2>1 DEF Init, OnceInv, Under, Known, Offered
    <2>3. Init => Contents(line) = {} /\ Offering = {} /\ Having("ok") = {}
        BY <2>1, EmptyAsked, EmptyContents DEF Init, Offering, Having
    <2>4. Init => FateInv
        BY <2>3 DEF Init, FateInv, Answered, Drafted, Writing, Fates, Fate, Settling,
                    Bounces, Fresh, Told, Rows
    <2> QED  BY <2>2, <2>4, InitType, InitLost
<1>2. TInv /\ LInv /\ OnceInv /\ Known /\ FateInv /\ [Next]_vars
          => (TInv /\ LInv /\ OnceInv /\ Known /\ FateInv)'
    BY NextType, NextLost, NextOnce, NextKnown, NextFate
<1>3. TInv /\ FateInv => TwiceOnlyInDoubt
    <2> SUFFICES ASSUME TInv, FateInv, NEW m \in arrived, m \notin doubt
                 PROVE  ~(taken[m] > 1) /\ ~(taken[m] > 0 /\ Told(m))
        BY DEF TwiceOnlyInDoubt
    <2>1. m \in Mails /\ taken[m] \in 0..2
        BY DEF TInv, HistoryType, Rows
    <2>2. taken[m] = 0 \/ (taken[m] <= 1 /\ ~Told(m))
        BY <2>1 DEF FateInv, Fates, Fate
    <2>3. taken[m] = 0 => ~(taken[m] > 1) /\ ~(taken[m] > 0)
        OBVIOUS
    <2>4. taken[m] <= 1 => ~(taken[m] > 1)
        BY <2>1
    <2> QED  BY <2>2, <2>3, <2>4
<1> QED  BY <1>1, <1>2, <1>3, PTL DEF Spec
===============================================================================
