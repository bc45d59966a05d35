------------------------------- MODULE Dispatch -------------------------------
(***************************************************************************)
(* cmail-dispatchd: it reads the rows of the outbox that are due, one      *)
(* remote server at a time, delivers them as SMTP client, records what     *)
(* failed in the faillog, deletes what was taken, and at the end of every  *)
(* round writes bounce notices for what has failed for good or too often.  *)
(*                                                                         *)
(* One action runs from one wait of the program (for an answer of the      *)
(* server, for a statement of the database) to the next, because a crash,  *)
(* a lost answer or a failing statement may come at each of them.  Another *)
(* process on the database is seen by what it does to the outbox.          *)
(*                                                                         *)
(* A signal to stop makes every later read give up early; the round goes   *)
(* on to its end.  So it shows nothing but answers that do not come.       *)
(***************************************************************************)
EXTENDS Naturals, Sequences, FiniteSets

CONSTANTS
    Mails,       \* rows that smtpd puts into the outbox
    Notices,     \* ids of the rows for bounce notices
    Addresses,   \* senders of the mails and receivers of copies of notices
    Remotes,     \* servers mail is delivered to
    Handoffs,    \* those named in mail_remote; the others are domains
    BadHosts,    \* those whose name has less than two characters
    None,
    SenderOf,    \* mail_envelopefrom of a mail
    RemoteOf,    \* the server a mail is for
    LetterOf,    \* what its mail_data says
    HomeOf,      \* the domain of an address
    BounceTo,    \* bounce_copy of the configuration
    Retries,     \* retries of the configuration
    Chunk,       \* CMAIL_REALLOC_CHUNK
    Faults,      \* what may fail ("query", "lookup", "log", "delete", "insert",
                 \* "dns") or come in between ("crash", "another")
    MaxMishaps,  \* bound on how often
    MaxLate,     \* answers the client gives up on before they come
    Coalesce     \* answers may arrive in one piece

Rows == Mails \cup Notices

ASSUME RowsAssumption ==
    /\ Mails \cap Notices = {}
    /\ None \notin Rows \cup Addresses \cup Remotes
    /\ Handoffs \subseteq Remotes /\ BadHosts \subseteq Remotes

ASSUME TablesAssumption ==
    /\ SenderOf \in [Mails -> Addresses]
    /\ RemoteOf \in [Mails -> Remotes]
    /\ DOMAIN LetterOf = Mails
    /\ HomeOf \in [Addresses -> Remotes]
    /\ BounceTo \in Seq(Addresses)

ASSUME BoundsAssumption ==
    /\ Retries \in Nat \ {0} /\ Chunk \in Nat \ {0}
    /\ MaxMishaps \in Nat /\ MaxLate \in Nat
    /\ Coalesce \in BOOLEAN

\* What a notice says: its addressee, the mails it reports, and the row of the
\* first copy of the same text.
NoticeText == [to : Addresses, about : SUBSET Mails, first : Notices]

ASSUME NoticeAssumption == None \notin NoticeText

VARIABLES
    \* the tables outbox and faillog
    arrived,  \* the mails smtpd has put into the outbox so far
    outbox,   \* the rows of the outbox
    fails,    \* entries of each row in the faillog, counted up to Retries
    fatal,    \* rows with a permanent entry
    waiting,  \* rows whose last entry is younger than the retry interval
    notice,   \* what the rows of the notices say
    \* the round
    pc,       \* what the program waits for
    once,     \* the program was called to deliver to one remote only
    todo,     \* remotes of this round that are left
    txs,      \* transactions that are left for the remote, as sets of rows
    blank,    \* entries of the array of transactions that were cleared
    st,       \* status of the recipients of the transaction under way
    left,     \* its rows that the running loop has not reached
    at,       \* the row at hand
    perm,     \* rows that were not reached fail permanently
    \* the connection
    line,     \* commands on their way to the server
    back,     \* answers on their way to the client
    phase,    \* what the server expects, "gone" without a connection
    rcpts,    \* recipients the server has accepted for the mail under way
    \* bounces
    cands,    \* candidates that are left
    draft,    \* the mails the text of the notice speaks of
    copy,     \* the addressee of the next copy, 0 for the sender
    text,     \* the row of the first copy
    sound,    \* no insertion has failed
    \* histories
    taken,    \* how often a server took a row: 0, 1 or more often
    doubt,    \* rows of which the client cannot know what has become of them, or
              \* has got an answer about that it does not know
    seen,     \* rows the transactions of the remote were made of
    touched,  \* those of them that were dealt with
    mishaps   \* failures so far

dbVars == <<outbox, fails, fatal, waiting>>
roundVars == <<once, todo>>
connVars == <<line, back, phase, rcpts>>
bounceVars == <<cands, draft, copy, text, sound>>
history == <<arrived, taken, doubt>>
vars == <<dbVars, notice, pc, roundVars, txs, blank, st, left, at, perm,
          connVars, bounceVars, history, seen, touched, mishaps>>

Programs == {"idle", "round", "connect", "unreached", "next", "mail", "offer", "rcpt",
             "data", "dot", "reject", "rset", "settle", "bounce", "notify", "judge"}
Statuses == {"ready", "ok", "failed"}
\* 250, 354, 251 (the server will forward), 4yz and what else there is
Answers == {"ok", "go", "moved", "temp", "perm"}
Refusals == {"temp", "perm"}
Verbs == {"NOOP", "MAIL", "RCPT", "DATA", "content", "RSET"}
Commands == [verb : Verbs, to : Rows \cup {None}]

----------------------------------------------------------------------------
(* The database                                                            *)

Host(r) == IF r \in Mails THEN RemoteOf[r] ELSE HomeOf[notice[r].to]

\* Rows with the same data and the same sender are one transaction.
Letter(r) ==
    IF r \in Mails THEN <<LetterOf[r], SenderOf[r]>> ELSE <<notice[r].first, None>>

Due == {r \in outbox : r \notin fatal /\ r \notin waiting}

\* Mutant of Candidates: only permanent failures are bounced.
CandidatesFatalOnly == {r \in outbox : r \in fatal}

Candidates == {r \in outbox : r \in fatal \/ fails[r] >= Retries}

Mishap(what) ==
    /\ what \in Faults
    /\ mishaps < MaxMishaps
    /\ mishaps' = mishaps + 1

\* The result of a SELECT: all rows, or those read before an error.
Result(S, T) ==
    \/ T = S /\ UNCHANGED mishaps
    \/ T \in SUBSET S /\ Mishap("query")

\* Entries in the faillog go with the row.
Forgotten(r) ==
    /\ fails' = [fails EXCEPT ![r] = 0]
    /\ fatal' = fatal \ {r}
    /\ waiting' = waiting \ {r}

Removed(r) == outbox' = outbox \ {r} /\ Forgotten(r)

Delete(r) ==
    \/ Removed(r) /\ UNCHANGED mishaps
    \/ Mishap("delete") /\ UNCHANGED dbVars

\* Mutant of Log: nothing ties the faillog to the outbox.
LogAnyRow(r, isFatal) ==
    /\ touched' = touched \cup {r}
    /\ fails' = [fails EXCEPT ![r] = IF @ < Retries THEN @ + 1 ELSE @]
    /\ fatal' = IF isFatal THEN fatal \cup {r} ELSE fatal
    /\ waiting' = waiting \cup {r}
    /\ UNCHANGED <<outbox, mishaps>>

Entry(r, isFatal) ==
    /\ fails' = [fails EXCEPT ![r] = IF @ < Retries THEN @ + 1 ELSE @]
    /\ fatal' = IF isFatal THEN fatal \cup {r} ELSE fatal
    /\ waiting' = waiting \cup {r}

\* The foreign key refuses entries for rows that are gone.
Log(r, isFatal) ==
    /\ touched' = touched \cup {r}
    /\ UNCHANGED outbox
    /\ \/ r \in outbox /\ Entry(r, isFatal) /\ UNCHANGED mishaps
       \/ /\ (r \notin outbox /\ UNCHANGED mishaps) \/ Mishap("log")
          /\ UNCHANGED <<fails, fatal, waiting>>

----------------------------------------------------------------------------
(* The connection                                                          *)

Send(v, r) ==
    line' = IF phase = "gone" THEN line ELSE Append(line, [verb |-> v, to |-> r])

\* One answer is read.  What has arrived together with it is overwritten by the
\* next read.  An answer in two pieces is not understood ("none"), and neither is
\* there one if the connection is gone or the time is up.
Read(x) ==
    \/ /\ back # <<>> /\ x = Head(back)
       /\ \/ back' = Tail(back)
          \/ \E k \in 3..(Len(back) + 1) : Coalesce /\ back' = SubSeq(back, k, Len(back))
    \/ back # <<>> /\ x = "none" /\ back' = Tail(back)
    \/ /\ back = <<>> /\ x = "none" /\ UNCHANGED back
       /\ phase = "gone" \/ Len(line) <= MaxLate

Refused(x) == x \notin {"ok", "temp", "none"}

Closed ==
    /\ line' = <<>> /\ back' = <<>> /\ phase' = "gone"
    /\ rcpts' = {}

----------------------------------------------------------------------------
Init ==
    /\ arrived = {} /\ outbox = {} /\ fatal = {} /\ waiting = {}
    /\ fails = [r \in Rows |-> 0]
    /\ notice = [n \in Notices |-> None]
    /\ pc = "idle" /\ once = FALSE /\ todo = {} /\ txs = {} /\ blank = 0
    /\ st = <<>> /\ left = {} /\ at = None /\ perm = FALSE
    /\ line = <<>> /\ back = <<>> /\ phase = "gone" /\ rcpts = {}
    /\ cands = {} /\ draft = {} /\ copy = 0 /\ text = None /\ sound = TRUE
    /\ taken = [r \in Rows |-> 0] /\ doubt = {} /\ seen = {} /\ touched = {}
    /\ mishaps = 0

----------------------------------------------------------------------------
(* The server, as RFC 5321 lets it behave                                  *)

Served == [r \in Rows |-> IF r \notin rcpts THEN taken[r] ELSE IF taken[r] = 0 THEN 1 ELSE 2]

Answer(x) == back' = Append(back, x)

OnMail ==
    /\ Head(line).verb = "MAIL"
    /\ \/ phase = "idle" /\ Answer("ok") /\ phase' = "mail"
       \/ (\E x \in Refusals : Answer(x)) /\ UNCHANGED phase
    /\ UNCHANGED <<rcpts, taken>>

\* A recipient is taken with 250, or with 251.
OnRcpt ==
    /\ Head(line).verb = "RCPT"
    /\ \/ /\ phase = "mail" /\ rcpts' = rcpts \cup {Head(line).to}
          /\ \E x \in {"ok", "moved"} : Answer(x)
       \/ (\E x \in Refusals : Answer(x)) /\ UNCHANGED rcpts
    /\ UNCHANGED <<phase, taken>>

OnData ==
    /\ Head(line).verb = "DATA"
    /\ \/ rcpts # {} /\ Answer("go") /\ phase' = "data"
       \/ (\E x \in Refusals : Answer(x)) /\ UNCHANGED phase
    /\ UNCHANGED <<rcpts, taken>>

OnReset ==
    /\ Head(line).verb \in {"RSET", "NOOP"}
    /\ Answer("ok")
    /\ IF Head(line).verb = "RSET" THEN phase' = "idle" /\ rcpts' = {} ELSE UNCHANGED <<phase, rcpts>>
    /\ UNCHANGED taken

\* Behind 354 every line is content, up to the final dot.
OnContent ==
    \/ /\ Head(line).verb # "content"
       /\ UNCHANGED <<back, phase, rcpts, taken>>
    \/ /\ Head(line).verb = "content"
       /\ \/ Answer("ok") /\ taken' = Served
          \/ (\E x \in Refusals : Answer(x)) /\ UNCHANGED taken
       /\ phase' = "idle" /\ rcpts' = {}

Untouched == UNCHANGED <<arrived, dbVars, notice, pc, roundVars, txs, blank, st, left, at, perm,
                         bounceVars, doubt, seen, touched, mishaps>>

Serve ==
    /\ line # <<>> /\ phase # "gone"
    /\ line' = Tail(line)
    /\ IF phase = "data" THEN OnContent ELSE OnMail \/ OnRcpt \/ OnData \/ OnReset
    /\ Untouched

\* The connection breaks; answers on their way may be lost.
Drop ==
    /\ phase # "gone"
    /\ phase' = "gone" /\ line' = <<>> /\ rcpts' = {}
    /\ back' \in {back, <<>>}
    /\ UNCHANGED taken
    /\ Untouched

----------------------------------------------------------------------------
(* Other processes, and time                                               *)

\* While a statement of the program is open, other processes wait for it.
Unlocked == pc \notin {"rcpt", "bounce", "notify", "judge"}

\* mail_store_outbox of smtpd
Queue(m) ==
    /\ m \notin arrived /\ Unlocked
    /\ arrived' = arrived \cup {m} /\ outbox' = outbox \cup {m}
    /\ UNCHANGED <<fails, fatal, waiting, notice, pc, roundVars, txs, blank, st, left, at, perm,
                   connVars, bounceVars, taken, doubt, seen, touched, mishaps>>

(* Another cmail-dispatchd works on a row, a daemon or one that was called to  *)
(* deliver, to hand off or to generate bounces.                                *)

\* What it has to do with the row the program does not learn.
AlsoTaken(r) ==
    /\ taken' = [taken EXCEPT ![r] = IF @ = 0 THEN 1 ELSE 2]
    /\ doubt' = doubt \cup {r}

\* It delivers the row, and deletes it unless it dies or the statement fails.
TakenElsewhere(r) ==
    /\ AlsoTaken(r)
    /\ Removed(r) \/ UNCHANGED dbVars
    /\ UNCHANGED notice

\* It logs a failure, and may not have seen the answer of a server that took
\* the row.
FailedElsewhere(r) ==
    /\ \E isFatal \in BOOLEAN : Entry(r, isFatal)
    /\ AlsoTaken(r) \/ UNCHANGED <<taken, doubt>>
    /\ UNCHANGED <<outbox, notice>>

Unused == {n \in Notices : notice[n] = None}

\* AUTOINCREMENT hands out the ids one after the other, and none twice.
NextId == CHOOSE n \in Notices : n \in Unused

\* It bounces the row: the notice and the deletion are seen at once, as its query
\* is open until then.  Copies of the notice are left out.  A notice it gives up.
BouncedElsewhere(r) ==
    /\ r \in Candidates
    /\ \/ /\ r \in Mails /\ Unused # {}
          /\ notice' = [notice EXCEPT ![NextId] =
                [to |-> SenderOf[r], about |-> {r}, first |-> NextId]]
          /\ \/ outbox' = (outbox \cup {NextId}) \ {r} /\ Forgotten(r)
             \/ outbox' = outbox \cup {NextId} /\ UNCHANGED <<fails, fatal, waiting>>
          /\ doubt' = doubt \cup {r}
       \/ r \in Notices /\ Removed(r) /\ UNCHANGED <<notice, doubt>>
    /\ UNCHANGED taken

Elsewhere(r) ==
    /\ r \in outbox /\ Mishap("another") /\ Unlocked
    /\ TakenElsewhere(r) \/ FailedElsewhere(r) \/ BouncedElsewhere(r)
    /\ UNCHANGED <<arrived, pc, roundVars, txs, blank, st, left, at, perm,
                   connVars, bounceVars, seen, touched>>

Elapse(r) ==
    /\ r \in waiting
    /\ waiting' = waiting \ {r}
    /\ UNCHANGED <<outbox, fails, fatal, notice, pc, roundVars, txs, blank, st, left, at, perm,
                   connVars, bounceVars, history, seen, touched, mishaps>>

----------------------------------------------------------------------------
(* A round: logic_loop_hosts, logic_handle_remote                          *)

StartRound ==
    /\ pc = "idle"
    /\ \E S \in SUBSET Due : Result(Due, S) /\ todo' = {Host(r) : r \in S}
    /\ pc' = "round" /\ once' = FALSE
    /\ UNCHANGED <<dbVars, notice, txs, blank, st, left, at, perm, connVars, bounceVars,
                   history, seen, touched>>

\* cmail-dispatchd deliver | handoff remote
StartOnce(h) ==
    /\ pc = "idle"
    /\ pc' = "round" /\ once' = TRUE /\ todo' = {h}
    /\ UNCHANGED <<dbVars, notice, txs, blank, st, left, at, perm, connVars, bounceVars,
                   history, seen, touched, mishaps>>

\* The array of transactions grows by Chunk entries at a time, and each time its
\* first Chunk entries are cleared instead of the new ones.
Transactions(S) ==
    LET All == {{n \in S : Letter(n) = Letter(r)} : r \in S} IN
    \E Cleared \in SUBSET All :
        /\ Cardinality(Cleared) = IF Cardinality(All) > Chunk THEN Chunk ELSE 0
        /\ txs' = All \ Cleared
        /\ blank' = Cardinality(Cleared)

ReadTransactions(h) ==
    LET Mine == {r \in Due : Host(r) = h} IN
    \E S \in SUBSET Mine :
        Result(Mine, S) /\ Transactions(S) /\ seen' = S /\ touched' = {}

\* The hostname is invalid or its lookup has failed for now: nothing is recorded.
Skip(h) ==
    /\ pc = "round" /\ h \in todo
    /\ todo' = todo \ {h}
    /\ \/ h \in BadHosts /\ UNCHANGED mishaps
       \/ h \notin Handoffs /\ Mishap("dns")
    /\ UNCHANGED <<dbVars, notice, pc, once, txs, blank, st, left, at, perm, connVars, bounceVars,
                   history, seen, touched>>

HandleRemote(h) ==
    /\ pc = "round" /\ h \in todo \ BadHosts
    /\ todo' = todo \ {h}
    /\ ReadTransactions(h)
    /\ pc' = "connect"
    /\ perm' \in IF h \in Handoffs THEN {FALSE} ELSE BOOLEAN  \* no such domain
    /\ UNCHANGED <<dbVars, notice, once, st, left, at, connVars, bounceVars, history>>

\* One of the servers and ports answers and agrees on a protocol.  Answers to the
\* commands that hide the length of the session may come late.
Connect ==
    /\ pc = "connect" /\ ~perm
    /\ pc' = "next" /\ phase' = "idle" /\ rcpts' = {} /\ back' = <<>>
    /\ \E k \in 0..MaxLate : line' = [i \in 1..k |-> [verb |-> "NOOP", to |-> None]]
    /\ UNCHANGED <<dbVars, notice, roundVars, txs, blank, st, left, at, perm, bounceVars,
                   history, seen, touched, mishaps>>

\* None does, or there is none.
Unreachable ==
    /\ pc = "connect"
    /\ pc' = "unreached" /\ left' = UNION txs /\ txs' = {} /\ blank' = 0
    /\ UNCHANGED <<dbVars, notice, roundVars, st, at, perm, connVars, bounceVars,
                   history, seen, touched, mishaps>>

FailUnreached(r) ==
    /\ pc = "unreached" /\ r \in left
    /\ Log(r, perm) /\ left' = left \ {r}
    /\ UNCHANGED <<notice, pc, roundVars, txs, blank, st, at, perm, connVars, bounceVars,
                   history, seen>>

EndRemote ==
    /\ \/ pc = "unreached" /\ left = {}
       \/ pc = "next" /\ txs = {} /\ blank = 0
    /\ pc' = "round" /\ perm' = FALSE /\ seen' = {} /\ touched' = {}
    /\ Closed
    /\ UNCHANGED <<dbVars, notice, roundVars, txs, blank, st, left, at, bounceVars, history, mishaps>>

----------------------------------------------------------------------------
(* A transaction: logic_handle_transaction, mail_dispatch                  *)

Begin(T) ==
    /\ st' = [r \in T |-> "ready"] /\ left' = T
    /\ Send("MAIL", None) /\ pc' = "mail"
    /\ UNCHANGED <<dbVars, notice, roundVars, at, perm, back, phase, rcpts, bounceVars,
                   history, seen, touched, mishaps>>

StartTransaction ==
    /\ pc = "next"
    /\ \/ blank > 0 /\ blank' = blank - 1 /\ UNCHANGED txs /\ Begin({})
       \/ \E T \in txs : blank = 0 /\ txs' = txs \ {T} /\ UNCHANGED blank /\ Begin(T)

\* smtp_rset, with what is to become of the rows that were not reached
Reset(isFatal) == pc' = "rset" /\ perm' = isFatal /\ Send("RSET", None)

MailAnswered ==
    /\ pc = "mail"
    /\ \E x \in Answers \cup {"none"} :
          /\ Read(x)
          /\ IF x = "ok" THEN pc' = "offer" /\ UNCHANGED <<perm, line>> ELSE Reset(x = "perm")
    /\ UNCHANGED <<dbVars, notice, roundVars, txs, blank, st, left, at, phase, rcpts, bounceVars,
                   history, seen, touched, mishaps>>

\* The row is read; if it is gone, or cannot be read, the server is not asked.
Offer(r) ==
    /\ pc = "offer" /\ r \in left
    /\ left' = left \ {r}
    /\ \/ /\ r \in outbox
          /\ at' = r /\ Send("RCPT", r) /\ pc' = "rcpt"
          /\ UNCHANGED <<st, touched, mishaps>>
       \/ /\ r \notin outbox
          /\ st' = [st EXCEPT ![r] = "failed"] /\ touched' = touched \cup {r}
          /\ UNCHANGED <<at, line, pc, mishaps>>
       \/ Mishap("lookup") /\ UNCHANGED <<st, touched, at, line, pc>>
    /\ UNCHANGED <<dbVars, notice, roundVars, txs, blank, perm, back, phase, rcpts,
                   bounceVars, history, seen>>

\* Mutant of RcptAnswered: a refused recipient keeps its status.
RcptAnsweredUnmarked ==
    /\ pc = "rcpt"
    /\ \E x \in Answers \cup {"none"} :
          /\ Read(x)
          /\ IF x = "ok"
             THEN st' = [st EXCEPT ![at] = "ok"] /\ UNCHANGED <<dbVars, touched, mishaps>>
             ELSE UNCHANGED st /\ Log(at, Refused(x))
          /\ doubt' = IF x \in {"none", "moved"} THEN doubt \cup {at} ELSE doubt
    /\ pc' = "offer" /\ at' = None
    /\ UNCHANGED <<notice, roundVars, txs, blank, left, perm, line, phase, rcpts, bounceVars,
                   arrived, taken, seen>>

RcptAnswered ==
    /\ pc = "rcpt"
    /\ \E x \in Answers \cup {"none"} :
          /\ Read(x)
          /\ IF x = "ok"
             THEN st' = [st EXCEPT ![at] = "ok"] /\ UNCHANGED <<dbVars, touched, mishaps>>
             ELSE st' = [st EXCEPT ![at] = "failed"] /\ Log(at, Refused(x))
          /\ doubt' = IF x \in {"none", "moved"} THEN doubt \cup {at} ELSE doubt
    /\ pc' = "offer" /\ at' = None
    /\ UNCHANGED <<notice, roundVars, txs, blank, left, perm, line, phase, rcpts, bounceVars,
                   arrived, taken, seen>>

Having(s) == {r \in DOMAIN st : st[r] = s}

AskForData ==
    /\ pc = "offer" /\ left = {}
    /\ IF Having("ok") # {} THEN pc' = "data" /\ Send("DATA", None) /\ UNCHANGED perm ELSE Reset(FALSE)
    /\ UNCHANGED <<dbVars, notice, roundVars, txs, blank, st, left, at, back, phase, rcpts,
                   bounceVars, history, seen, touched, mishaps>>

\* Mutant of DataAnswered: the content is sent whatever the answer is.
DataAnsweredUnchecked ==
    /\ pc = "data"
    /\ \E x \in Answers \cup {"none"} :
          /\ Read(x)
          /\ pc' = "dot" /\ Send("content", None) /\ UNCHANGED perm
    /\ UNCHANGED <<dbVars, notice, roundVars, txs, blank, st, left, at, phase, rcpts, bounceVars,
                   history, seen, touched, mishaps>>

\* Whatever is not 354, no answer included, fails the recipients for good.
DataAnswered ==
    /\ pc = "data"
    /\ \E x \in Answers \cup {"none"} :
          /\ Read(x)
          /\ IF x = "go"
             THEN pc' = "dot" /\ Send("content", None) /\ UNCHANGED perm
             ELSE pc' = "reject" /\ perm' = TRUE /\ UNCHANGED line
    /\ UNCHANGED <<dbVars, notice, roundVars, txs, blank, st, left, at, phase, rcpts, bounceVars,
                   history, seen, touched, mishaps>>

\* Mutant of DotAnswered: no answer is a good answer.
DotAnsweredBlindly ==
    /\ pc = "dot"
    /\ \E x \in Answers \cup {"none"} :
          /\ Read(x)
          /\ IF x \in {"ok", "none"} THEN Reset(FALSE)
             ELSE pc' = "reject" /\ perm' = Refused(x) /\ UNCHANGED line
          /\ doubt' = IF x = "none" THEN doubt \cup Having("ok") ELSE doubt
    /\ UNCHANGED <<dbVars, notice, roundVars, txs, blank, st, left, at, phase, rcpts, bounceVars,
                   arrived, taken, seen, touched, mishaps>>

DotAnswered ==
    /\ pc = "dot"
    /\ \E x \in Answers \cup {"none"} :
          /\ Read(x)
          /\ IF x = "ok" THEN Reset(FALSE)
             ELSE pc' = "reject" /\ perm' = Refused(x) /\ UNCHANGED line
          /\ doubt' = IF x = "none" THEN doubt \cup Having("ok") ELSE doubt
    /\ UNCHANGED <<dbVars, notice, roundVars, txs, blank, st, left, at, phase, rcpts, bounceVars,
                   arrived, taken, seen, touched, mishaps>>

RejectRow(r) ==
    /\ pc = "reject" /\ r \in Having("ok")
    /\ Log(r, perm) /\ st' = [st EXCEPT ![r] = "failed"]
    /\ UNCHANGED <<notice, pc, roundVars, txs, blank, left, at, perm, connVars, bounceVars,
                   history, seen>>

Rejected ==
    /\ pc = "reject" /\ Having("ok") = {}
    /\ Reset(perm)
    /\ UNCHANGED <<dbVars, notice, roundVars, txs, blank, st, left, at, back, phase, rcpts,
                   bounceVars, history, seen, touched, mishaps>>

ResetAnswered ==
    /\ pc = "rset"
    /\ \E x \in Answers \cup {"none"} : Read(x)
    /\ pc' = "settle" /\ left' = DOMAIN st \ Having("failed")
    /\ UNCHANGED <<dbVars, notice, roundVars, txs, blank, st, at, perm, line, phase, rcpts,
                   bounceVars, history, seen, touched, mishaps>>

\* Mutant of Settle: delivered rows are not deleted.
SettleKeepsDelivered(r) ==
    /\ pc = "settle" /\ r \in left
    /\ left' = left \ {r}
    /\ \/ st[r] = "ok" /\ UNCHANGED <<dbVars, mishaps>> /\ touched' = touched \cup {r}
       \/ st[r] = "ready" /\ Log(r, perm)
    /\ UNCHANGED <<notice, pc, roundVars, txs, blank, st, at, perm, connVars, bounceVars,
                   history, seen>>

\* Mutant of Settle: rows that were never offered are forgotten.
SettleForgetsReady(r) ==
    /\ pc = "settle" /\ r \in left
    /\ left' = left \ {r}
    /\ \/ st[r] = "ok" /\ Delete(r) /\ touched' = touched \cup {r}
       \/ st[r] = "ready" /\ UNCHANGED <<dbVars, touched, mishaps>>
    /\ doubt' = IF st[r] = "ok" THEN doubt \cup (outbox' \cap {r}) ELSE doubt
    /\ UNCHANGED <<notice, pc, roundVars, txs, blank, st, at, perm, connVars, bounceVars,
                   arrived, taken, seen>>

\* Delivered rows are deleted, those that were never offered fail.
Settle(r) ==
    /\ pc = "settle" /\ r \in left
    /\ left' = left \ {r}
    /\ \/ st[r] = "ok" /\ Delete(r) /\ touched' = touched \cup {r}
       \/ st[r] = "ready" /\ Log(r, perm)
    /\ doubt' = IF st[r] = "ok" THEN doubt \cup (outbox' \cap {r}) ELSE doubt
    /\ UNCHANGED <<notice, pc, roundVars, txs, blank, st, at, perm, connVars, bounceVars,
                   arrived, taken, seen>>

EndTransaction ==
    /\ pc = "settle" /\ left = {}
    /\ pc' = "next" /\ st' = <<>> /\ perm' = FALSE
    /\ UNCHANGED <<dbVars, notice, roundVars, txs, blank, left, at, connVars, bounceVars, history,
                   seen, touched, mishaps>>

----------------------------------------------------------------------------
(* Bounces: logic_generate_bounces                                         *)

\* At the end of a round, or because cmail-dispatchd was called with "genbounces".
StartBounces ==
    /\ (pc = "round" /\ todo = {} /\ ~once) \/ pc = "idle"
    /\ \E S \in SUBSET Candidates : Result(Candidates, S) /\ cands' = S
    /\ pc' = "bounce" /\ once' = FALSE
    /\ UNCHANGED <<dbVars, notice, todo, txs, blank, st, left, at, perm, connVars,
                   draft, copy, text, sound, history, seen, touched>>

\* Bounces of bounces are ignored.
GiveUp(n) ==
    /\ pc = "bounce" /\ n \in cands \cap Notices
    /\ cands' = cands \ {n} /\ Delete(n)
    /\ UNCHANGED <<notice, pc, roundVars, txs, blank, st, left, at, perm, connVars,
                   draft, copy, text, sound, history, seen, touched>>

\* The text is appended to what the buffer holds from earlier candidates.
Compose(m) ==
    /\ pc = "bounce" /\ m \in cands \cap Mails
    /\ draft' = draft \cup {m} /\ at' = m /\ pc' = "notify"
    /\ UNCHANGED <<dbVars, notice, roundVars, txs, blank, st, left, perm, connVars, cands, copy,
                   text, sound, history, seen, touched, mishaps>>

Addressee == IF copy = 0 THEN SenderOf[at] ELSE BounceTo[copy]

Inserted(n) ==
    /\ text' = IF copy = 0 THEN n ELSE text
    /\ notice' = [notice EXCEPT ![n] = [to |-> Addressee, about |-> draft, first |-> text']]
    /\ outbox' = outbox \cup {n}

InsertNotice ==
    /\ pc = "notify"
    /\ \/ Unused # {} /\ Inserted(NextId) /\ UNCHANGED <<sound, mishaps>>
       \/ Mishap("insert") /\ sound' = FALSE /\ UNCHANGED <<notice, outbox, text>>
    /\ IF sound' /\ copy < Len(BounceTo)
       THEN copy' = copy + 1 /\ UNCHANGED pc
       ELSE pc' = "judge" /\ UNCHANGED copy
    /\ UNCHANGED <<fails, fatal, waiting, roundVars, txs, blank, st, left, at, perm, connVars,
                   cands, draft, history, seen, touched>>

\* Mutant of Bounced: the mail goes even if no notice could be written.
BouncedUnchecked ==
    /\ pc = "judge"
    /\ Delete(at)
    /\ cands' = cands \ {at} /\ pc' = "bounce" /\ at' = None /\ copy' = 0 /\ text' = None
    /\ doubt' = doubt \cup (outbox' \cap {at})
    /\ UNCHANGED <<notice, roundVars, txs, blank, st, left, perm, connVars, draft, sound,
                   arrived, taken, seen, touched>>

\* The mail goes if all copies are written, of this notice and all before it.
Bounced ==
    /\ pc = "judge"
    /\ IF sound THEN Delete(at) ELSE UNCHANGED <<dbVars, mishaps>>
    /\ cands' = cands \ {at} /\ pc' = "bounce" /\ at' = None /\ copy' = 0 /\ text' = None
    /\ doubt' = doubt \cup (outbox' \cap {at})
    /\ UNCHANGED <<notice, roundVars, txs, blank, st, left, perm, connVars, draft, sound,
                   arrived, taken, seen, touched>>

\* The daemon sleeps, a program that was called once ends.
Rest ==
    /\ \/ pc = "bounce" /\ cands = {}
       \/ pc = "round" /\ todo = {} /\ once
    /\ pc' = "idle" /\ once' = FALSE /\ draft' = {} /\ sound' = TRUE
    /\ UNCHANGED <<dbVars, notice, todo, txs, blank, st, left, at, perm, connVars, cands, copy, text,
                   history, seen, touched, mishaps>>

----------------------------------------------------------------------------
\* Notices have no sender, and behind the first Chunk entries of the array
\* nothing has set the field of the sender before it is sent and freed.
Undefined == Cardinality({Letter(r) : r \in seen}) > Chunk /\ seen \cap Notices # {}

\* The process dies and is started again.
Crash ==
    /\ pc # "idle"
    /\ Mishap("crash") \/ (Undefined /\ UNCHANGED mishaps)
    /\ doubt' = doubt \cup Having("ok") \cup ({at} \ {None})
    /\ pc' = "idle" /\ once' = FALSE /\ todo' = {} /\ txs' = {} /\ blank' = 0
    /\ st' = <<>> /\ left' = {} /\ at' = None /\ perm' = FALSE
    /\ cands' = {} /\ draft' = {} /\ copy' = 0 /\ text' = None /\ sound' = TRUE
    /\ seen' = {} /\ touched' = {}
    /\ Closed
    /\ UNCHANGED <<dbVars, notice, arrived, taken>>

Transaction ==
    \/ StartTransaction \/ MailAnswered \/ AskForData \/ DataAnswered \/ DotAnswered
    \/ Rejected \/ ResetAnswered \/ EndTransaction \/ RcptAnswered
    \/ \E r \in Rows : Offer(r) \/ RejectRow(r) \/ Settle(r)

Delivery ==
    \/ \E h \in Remotes : Skip(h) \/ HandleRemote(h)
    \/ Connect \/ Unreachable \/ EndRemote
    \/ \E r \in Rows : FailUnreached(r)

Bouncing ==
    \/ \E r \in Rows : GiveUp(r) \/ Compose(r)
    \/ InsertNotice \/ Bounced \/ Rest

Called == StartBounces \/ \E h \in Remotes : StartOnce(h)

Environment ==
    \/ Serve \/ Drop
    \/ \E m \in Mails : Queue(m)
    \/ \E r \in Rows : Elapse(r) \/ Elsewhere(r)

Next ==
    \/ StartRound \/ Called \/ Delivery \/ Transaction \/ Bouncing \/ Crash
    \/ Environment

Spec == Init /\ [][Next]_vars

\* The daemon goes on and begins a round at every interval, whoever calls it
\* besides; a server answers or the connection breaks; time passes.
FairSpec ==
    /\ Spec
    /\ SF_vars(StartRound)
    /\ WF_vars(Delivery \/ Transaction \/ Bouncing \/ (pc = "round" /\ StartBounces))
    /\ WF_vars(Serve \/ Drop)
    /\ \A r \in Rows : WF_vars(Elapse(r))

----------------------------------------------------------------------------
TypeOK ==
    /\ arrived \subseteq Mails
    /\ outbox \subseteq Rows /\ fatal \subseteq outbox /\ waiting \subseteq outbox
    /\ fails \in [Rows -> 0..Retries]
    /\ notice \in [Notices -> NoticeText \cup {None}]
    /\ pc \in Programs /\ once \in BOOLEAN /\ todo \subseteq Remotes
    /\ txs \subseteq SUBSET Rows /\ blank \in Nat
    /\ DOMAIN st \subseteq Rows /\ \A r \in DOMAIN st : st[r] \in Statuses
    /\ left \subseteq Rows /\ at \in Rows \cup {None} /\ perm \in BOOLEAN
    /\ line \in Seq(Commands) /\ back \in Seq(Answers)
    /\ phase \in {"gone", "idle", "mail", "data"} /\ rcpts \subseteq Rows
    /\ cands \subseteq Rows /\ draft \subseteq Mails
    /\ copy \in 0..Len(BounceTo) /\ text \in Notices \cup {None} /\ sound \in BOOLEAN
    /\ taken \in [Rows -> 0..2] /\ doubt \subseteq Rows
    /\ seen \subseteq Rows /\ touched \subseteq Rows /\ mishaps \in 0..MaxMishaps

Told(m) == \E n \in Notices : notice[n] # None /\ m \in notice[n].about /\ notice[n].to = SenderOf[m]

\* No mail is lost: what smtpd has put into the outbox is there until the server
\* has taken it or its sender has been told, through crashes, lost answers and
\* failing statements (mail_delete is called for what the server has taken and
\* for what has been bounced only).
NothingLost ==
    \A m \in arrived : m \in outbox \/ taken[m] > 0 \/ Told(m)

\* A mail is delivered twice, or bounced although it was delivered, only if the
\* client could not know better: an answer about it did not come, the client
\* died before the row was deleted, a statement failed between the notice and the
\* deletion, or another dispatchd worked on the mail; or if the server took the
\* recipient with 251, which smtp_rcpt takes for a refusal.
TwiceOnlyInDoubt ==
    \A m \in arrived : (taken[m] > 1 \/ (taken[m] > 0 /\ Told(m))) => m \in doubt

\* A row whose server has been tried is never left without a trace: when
\* logic_handle_remote is done, every row it has read was deleted or has got an
\* entry in the faillog (or the attempt to do so has failed).
NoRowSkipped ==
    (pc = "unreached" /\ left = {}) \/ (pc = "next" /\ txs = {} /\ blank = 0)
        => seen \subseteq touched

\* One attempt counts as one failure: the loops of mail_dispatch and
\* logic_handle_transaction never log the same row twice.  Another dispatchd counts
\* for itself.
OneFailureAnAttempt ==
    [][\A r \in Rows : fails'[r] > fails[r] => r \notin touched \/ Elsewhere(r)]_vars

\* Lines of the mail are never read as commands: the client sends them only to a
\* server that waits for them (smtp_data).
ContentIsContent ==
    line # <<>> /\ Head(line).verb = "content" => phase = "data"

\* Every mail leaves the outbox some day: delivered, or bounced after as many
\* attempts as the configuration allows (FairSpec).
EventuallyLeaves == \A m \in Mails : m \in outbox ~> m \notin outbox

\* dispatchd implements the promise of DispatchService.
Service == INSTANCE DispatchService WITH
    queue <- outbox,
    taken <- {r \in Rows : taken[r] > 0},
    told <- {m \in Mails : Told(m)}

ImplementsService == Service!ASpec
===============================================================================
