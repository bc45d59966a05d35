------------------------------- MODULE Maildrop -------------------------------
(***************************************************************************)
(* cmail-popd: POP3 sessions over maildrops that live in the master        *)
(* database and, for some users, in a database of their own.               *)
(*                                                                         *)
(* The daemon is one process with one select loop.  It reads what a client *)
(* has sent and runs one handler per buffered line before it looks at      *)
(* another client (client_process), so each action below is one handler;   *)
(* `active' is the connection whose buffered lines are being run.  A line  *)
(* that closes the connection does not stop the loop over the buffer: the  *)
(* lines after it still reach the handlers.                                *)
(*                                                                         *)
(* The maildrop lock (popd.pop_lock) and the mail are in the database and  *)
(* survive the daemon.  The deletion marks are in a temporary table of the *)
(* daemon's database connection, shared by all its sessions.               *)
(***************************************************************************)
EXTENDS Integers, FiniteSets

CONSTANTS Conns,        \* slots of the connection pool
          Users,        \* users enabled in table popd
          Mails,        \* every mail that ever exists
          None,         \* "no connection", "no user"
          Owner,        \* the user each mail is for
          HasUserDb,    \* users with a user database
          UserDbMails,  \* the mails smtpd stores in a user database
          FailLimit,    \* CMAIL_FAILSCORE_LIMIT
          ListenerTls,  \* TLS mode of the listener
          TlsRequire,   \* the listener's tls_require
          Faults,       \* database operations that may fail
          LinesAfterClose, \* clients may send lines behind the one that closes
          Unlocks,      \* how operators use `cmail-admin-popd unlock'
          MayCrash      \* the daemon may die at any time

TlsModes == {"NONE", "NEGOTIATE", "ONLY"}
FaultKinds == {"lock", "unlock", "read", "attach", "mark", "unmark", "delete"}

ASSUME MaildropAssumption ==
    /\ None \notin Conns /\ None \notin Users
    /\ Owner \in [Mails -> Users]
    /\ HasUserDb \subseteq Users
    /\ UserDbMails \subseteq {m \in Mails : Owner[m] \in HasUserDb}
    /\ FailLimit \in Int /\ FailLimit < 0
    /\ ListenerTls \in TlsModes /\ TlsRequire \in BOOLEAN
    /\ Faults \subseteq FaultKinds
    /\ LinesAfterClose \in BOOLEAN /\ MayCrash \in BOOLEAN
    /\ Unlocks \in {"never", "careful", "any"}

VARIABLES lock,    \* popd.pop_lock of each user
          box,     \* what has become of each mail
          marks,   \* temp.deletions of the daemon's master connection
          sess,    \* the CLIENT structure of each connection slot
          active   \* the connection client_process is working on, or None

vars == <<lock, box, marks, sess, active>>

-------------------------------------------------------------------------------
(* Sessions *)

Session == [open   : BOOLEAN,                  \* fd >= 0
            tls    : TlsModes,                 \* tls_mode
            state  : {"AUTH", "TRANSACTION"},  \* STATE_UPDATE is never assigned
            method : {"USER", "SASL"},         \* auth.method
            sasl   : BOOLEAN,                  \* auth.ctx.method # SASL_INVALID
            named  : BOOLEAN,                  \* auth.user.authenticated is set
            ok     : BOOLEAN,                  \* auth.auth_ok
            user   : Users \cup {None},        \* auth.user.authorized
            mails  : SUBSET Mails,             \* maildrop.mails
            flags  : SUBSET Mails,             \* those with flag_delete
            udb    : Users \cup {None},        \* whose database user_conn is
            umarks : SUBSET (Users \X Mails),  \* temp.deletions of user_conn
            score  : Int]                      \* connection_score

\* The CLIENT structure as client_accept initialises it.
NewSession(isopen, mode) ==
    [open |-> isopen, tls |-> mode, state |-> "AUTH", method |-> "USER",
     sasl |-> FALSE, named |-> FALSE, ok |-> FALSE, user |-> None,
     mails |-> {}, flags |-> {}, udb |-> None, umarks |-> {}, score |-> 0]

AuthReset(s) ==
    [s EXCEPT !.method = "USER", !.sasl = FALSE, !.named = FALSE,
              !.ok = FALSE, !.user = None]

\* Whether closing this session releases a maildrop.
Holding(s) == s.ok /\ s.named

\* The session after client_close.  The maildrop is emptied by
\* maildrop_release only; state and score are left as they are.
Closed(s) ==
    LET r == [AuthReset(s) EXCEPT !.open = FALSE, !.tls = "NONE"]
    IN  IF Holding(s)
        THEN [r EXCEPT !.mails = {}, !.flags = {}, !.udb = None, !.umarks = {}]
        ELSE r

Init ==
    /\ lock = [u \in Users |-> FALSE]
    /\ box = [m \in Mails |-> "unsent"]
    /\ marks = {}
    /\ sess = [c \in Conns |-> NewSession(FALSE, "NONE")]
    /\ active = None

-------------------------------------------------------------------------------
(* The maildrop *)

MarksOf(u, table) == {m \in Mails : <<u, m>> \in table}
Unmarked(u, table) == {p \in table : p[1] # u}

\* Mutant of Release: the marks outlive the session.
ReleaseKeepsMarks(u) ==
    /\ lock' = [lock EXCEPT ![u] = FALSE]
    /\ UNCHANGED marks

\* maildrop_release: clear the marks, drop the lock.  Failures are logged.
Release(u) ==
    /\ \/ marks' = Unmarked(u, marks)
       \/ "unmark" \in Faults /\ UNCHANGED marks
    /\ \/ lock' = [lock EXCEPT ![u] = FALSE]
       \/ "unlock" \in Faults /\ UNCHANGED lock

\* client_close on slot c, whose session has become s.
CloseConn(c, s) ==
    /\ sess' = [sess EXCEPT ![c] = Closed(s)]
    /\ IF Holding(s) THEN Release(s.user) ELSE UNCHANGED <<lock, marks>>

\* A handler that returns 0 or 1 and leaves the database alone.
Stay(c, s) ==
    /\ sess' = [sess EXCEPT ![c] = s]
    /\ active' = c
    /\ UNCHANGED <<lock, box, marks>>

\* A handler that returns -1: the score drops, and below the limit the
\* client is kicked and the rest of its input is thrown away.
Reject(c, s) ==
    /\ UNCHANGED box
    /\ IF s.score - 1 < FailLimit
       THEN CloseConn(c, s) /\ active' = None
       ELSE /\ sess' = [sess EXCEPT ![c] = [s EXCEPT !.score = @ - 1]]
            /\ active' = c
            /\ UNCHANGED <<lock, marks>>

\* maildrop_read: a row that cannot be fetched ends the listing quietly.
Listings(S) == IF "read" \in Faults THEN SUBSET S ELSE {S}

\* Mutant of StoredIn: the listing does not ask for the user.
StoredForAnyone(u, db) == {m \in db : box[m] = "stored"}

StoredIn(u, db) == {m \in db : Owner[m] = u /\ box[m] = "stored"}
MasterMails == Mails \ UserDbMails

\* What maildrop_read and maildrop_user_attach leave in the session s: the
\* listing is appended to what the session already lists.  When one of the
\* two reads or the opening of the user database fails, what has been read
\* and opened stays.
Listed(s, M, db) == [s EXCEPT !.mails = @ \cup M, !.udb = db]
Attached(s, u) ==
    {Listed(s, M \cup U, IF u \in HasUserDb THEN u ELSE s.udb) :
        M \in Listings(StoredIn(u, MasterMails)),
        U \in Listings(StoredIn(u, UserDbMails))}
AttachFailed(s, u) ==
    IF "attach" \in Faults
    THEN {Listed(s, M, db) : M \in {{}} \cup Listings(StoredIn(u, MasterMails)),
                             db \in {s.udb, None} \cup ({u} \cap HasUserDb)}
         \cup {Listed(s, U, db) : U \in Listings(StoredIn(u, UserDbMails)),
                                  db \in {u} \cap HasUserDb}
    ELSE {}

\* Mutant of Acquire: nobody looks at the number of rows the lock changed.
AcquireUnchecked(c, s, u) ==
    LET in == [s EXCEPT !.sasl = FALSE, !.named = TRUE, !.ok = TRUE, !.user = u]
    IN  /\ active' = c
        /\ UNCHANGED <<box, marks>>
        /\ lock' = [lock EXCEPT ![u] = TRUE]
        /\ \E t \in Attached(in, u) :
              sess' = [sess EXCEPT ![c] =
                  [t EXCEPT !.state = "TRANSACTION", !.score = @ + 1]]

\* Mutant of Acquire: the session enters TRANSACTION whatever maildrop_acquire
\* answers.
AcquireUnanswered(c, s, u) ==
    LET in == [s EXCEPT !.sasl = FALSE, !.named = TRUE, !.ok = TRUE, !.user = u]
    IN  /\ active' = c
        /\ UNCHANGED <<box, marks>>
        /\ ~lock[u] /\ lock' = [lock EXCEPT ![u] = TRUE]
        /\ \E t \in Attached(in, u) \cup {AuthReset(f) : f \in AttachFailed(in, u)} :
              sess' = [sess EXCEPT ![c] =
                  [t EXCEPT !.state = "TRANSACTION", !.score = @ + 1]]

\* maildrop_acquire after good credentials for u.  maildrop_lock answers -1
\* when the row was not unlocked or a parameter could not be bound, but 1 when
\* the statement itself failed, and only a negative answer stops the login.
\* A failure behind the lock forgets the user and leaves the lock.
Acquire(c, s, u) ==
    LET in == [s EXCEPT !.sasl = FALSE, !.named = TRUE, !.ok = TRUE, !.user = u]
    IN  /\ active' = c
        /\ UNCHANGED <<box, marks>>
        /\ \/ /\ lock[u] \/ "lock" \in Faults
              /\ sess' = [sess EXCEPT ![c] = AuthReset(in)]
              /\ UNCHANGED lock
           \/ /\ \/ ~lock[u] /\ lock' = [lock EXCEPT ![u] = TRUE]
                 \/ "lock" \in Faults /\ UNCHANGED lock
              /\ \/ \E t \in Attached(in, u) :
                       sess' = [sess EXCEPT ![c] =
                           [t EXCEPT !.state = "TRANSACTION", !.score = @ + 1]]
                 \/ \E t \in AttachFailed(in, u) :
                       sess' = [sess EXCEPT ![c] = AuthReset(t)]

-------------------------------------------------------------------------------
(* Connections *)

\* A line of client c reaches its handler: the next one of the batch being
\* run, or the first of a new read.
Line(c, state) ==
    /\ sess[c].state = state
    /\ \/ active = None /\ sess[c].open /\ sess[c].tls # "NEGOTIATE"
       \/ active = c /\ (sess[c].open \/ LinesAfterClose)

\* client_process runs out of complete lines.
EndBatch(c) ==
    /\ active = c
    /\ active' = None
    /\ UNCHANGED <<lock, box, marks, sess>>

\* client_accept into a free slot.
Accept(c) ==
    /\ active = None
    /\ ~sess[c].open
    /\ sess' = [sess EXCEPT ![c] =
           NewSession(TRUE, IF ListenerTls = "ONLY" THEN "NEGOTIATE" ELSE "NONE")]
    /\ UNCHANGED <<lock, box, marks, active>>

\* The TLS handshake completes.
Handshake(c) ==
    /\ active = None
    /\ sess[c].open /\ sess[c].tls = "NEGOTIATE"
    /\ sess' = [sess EXCEPT ![c].tls = "ONLY"]
    /\ UNCHANGED <<lock, box, marks, active>>

\* The client disconnects, its connection fails, or it overruns the buffer.
HangUp(c) ==
    /\ active = None
    /\ sess[c].open
    /\ CloseConn(c, sess[c])
    /\ UNCHANGED <<box, active>>

\* Mutant of Timeout: the slot is freed without client_close.
TimeoutFreesSlot(c) ==
    /\ active = None
    /\ sess[c].open
    /\ sess' = [sess EXCEPT ![c] = NewSession(FALSE, "NONE")]
    /\ UNCHANGED <<lock, box, marks, active>>

\* The client was silent for POP_SERVER_TIMEOUT seconds.
Timeout(c) ==
    /\ active = None
    /\ sess[c].open
    /\ CloseConn(c, sess[c])
    /\ UNCHANGED <<box, active>>

-------------------------------------------------------------------------------
(* Lines in state AUTHORIZATION *)

\* Mutant of LoginAllowed: a handshake that has begun is taken for TLS.
LoginAllowedEarly(s) == s.tls # "NONE" \/ ~TlsRequire

LoginAllowed(s) == s.tls = "ONLY" \/ ~TlsRequire
SaslPending(s) == s.method = "SASL" /\ ~s.ok

\* What follows the credentials: they are wrong, or they are a user's.
Credentials(c, s) ==
    \/ Reject(c, AuthReset(s))
    \/ \E u \in Users : Acquire(c, s, u)

UserCmd(c) ==
    LET s == sess[c] IN
    /\ Line(c, "AUTH")
    /\ LoginAllowed(s) /\ ~SaslPending(s)
    /\ IF s.named
       THEN Reject(c, s)
       ELSE Stay(c, [s EXCEPT !.method = "USER", !.named = TRUE])

PassCmd(c) ==
    LET s == sess[c] IN
    /\ Line(c, "AUTH")
    /\ LoginAllowed(s) /\ ~SaslPending(s)
    /\ IF ~s.named \/ s.method # "USER"
       THEN Reject(c, s)
       ELSE Credentials(c, s)

\* AUTH: an unknown mechanism, a challenge, or an initial response.
AuthCmd(c) ==
    LET s == [sess[c] EXCEPT !.method = "SASL", !.named = FALSE, !.user = None]
    IN  /\ Line(c, "AUTH")
        /\ LoginAllowed(s) /\ ~SaslPending(sess[c])
        /\ \/ Reject(c, AuthReset(s))
           \/ Stay(c, [s EXCEPT !.sasl = TRUE])
           \/ Credentials(c, [s EXCEPT !.sasl = TRUE])

\* The line after a challenge: cancellation, or the response.
SaslLine(c) ==
    LET s == sess[c] IN
    /\ Line(c, "AUTH")
    /\ LoginAllowed(s) /\ SaslPending(s)
    /\ \/ Stay(c, AuthReset(s))
       \/ s.sasl /\ Credentials(c, s)
       \/ ~s.sasl /\ Reject(c, AuthReset(s))

\* STLS: the handshake is prepared, which may fail behind the change of mode.
Stls(c) ==
    LET s == sess[c]
        t == [s EXCEPT !.tls = "NEGOTIATE"]
    IN  /\ Line(c, "AUTH")
        /\ ~LoginAllowed(s) \/ ~SaslPending(s)
        /\ IF s.tls # "NONE" \/ ListenerTls # "NEGOTIATE"
           THEN Reject(c, s)
           ELSE Stay(c, t) \/ Reject(c, t)

\* CAPA, XYZZY, or a command this state does not know.
AuthOther(c) ==
    LET s == sess[c] IN
    /\ Line(c, "AUTH")
    /\ ~LoginAllowed(s) \/ ~SaslPending(s)
    /\ Stay(c, s) \/ Reject(c, s)

QuitInAuth(c) ==
    LET s == sess[c] IN
    /\ Line(c, "AUTH")
    /\ ~LoginAllowed(s) \/ ~SaslPending(s)
    /\ CloseConn(c, s)
    /\ active' = c
    /\ UNCHANGED box

-------------------------------------------------------------------------------
(* Lines in state TRANSACTION *)

\* DELE: the mark goes into the database the mail is in.  A mark that cannot
\* be made is logged; the session believes in it all the same.
Dele(c, m) ==
    LET s == sess[c]
        t == [s EXCEPT !.flags = @ \cup {m}]
        mark == <<s.user, m>>
    IN  /\ Line(c, "TRANSACTION")
        /\ IF m \notin s.mails \/ m \in s.flags
           THEN Reject(c, s)
           ELSE /\ active' = c
                /\ UNCHANGED <<lock, box>>
                /\ \/ /\ m \in UserDbMails
                      /\ sess' = [sess EXCEPT ![c] = [t EXCEPT !.umarks = @ \cup {mark}]]
                      /\ UNCHANGED marks
                   \/ /\ m \notin UserDbMails
                      /\ sess' = [sess EXCEPT ![c] = t]
                      /\ marks' = marks \cup {mark}
                   \/ /\ "mark" \in Faults
                      /\ sess' = [sess EXCEPT ![c] = t]
                      /\ UNCHANGED marks

\* RSET: clear both tables, then the flags; stop at the first failure.
Rset(c) ==
    LET s == sess[c]
        kept == [s EXCEPT !.umarks = Unmarked(s.user, @)]
    IN  /\ Line(c, "TRANSACTION")
        /\ active' = c
        /\ UNCHANGED <<lock, box>>
        /\ \/ /\ marks' = Unmarked(s.user, marks)
              /\ sess' = [sess EXCEPT ![c] = [kept EXCEPT !.flags = {}]]
           \/ /\ "unmark" \in Faults
              /\ marks' \in {marks, Unmarked(s.user, marks)}
              /\ UNCHANGED sess

\* LIST, UIDL and RETR of message m, or of a number that names none.
Inspect(c, m) ==
    LET s == sess[c] IN
    /\ Line(c, "TRANSACTION")
    /\ IF m \in s.mails \ s.flags THEN Stay(c, s) ELSE Reject(c, s)

\* STAT, NOOP, CAPA, XYZZY, the full listings, or an unknown command.
TransactionOther(c) ==
    /\ Line(c, "TRANSACTION")
    /\ Stay(c, sess[c]) \/ Reject(c, sess[c])

\* maildrop_update deletes from the master database, then from the user
\* database; either may fail, and the other is still done.
DoomedInMaster(s) == MarksOf(s.user, marks) \cap MasterMails
DoomedInUserDb(s) == IF s.udb = None THEN {} ELSE MarksOf(s.user, s.umarks)
\* Mutant of Doomed: the user database is not looked at when the master
\* database had something to delete.
DoomedFirstOnly(s) ==
    {IF DoomedInMaster(s) # {} THEN DoomedInMaster(s) ELSE DoomedInUserDb(s)}

Doomed(s) ==
    LET M == DoomedInMaster(s)
        U == DoomedInUserDb(s)
    IN  IF "delete" \in Faults THEN {M \cup U, M, U, {}} ELSE {M \cup U}
Expunge(D) ==
    box' = [m \in Mails |-> IF m \in D THEN "expunged" ELSE box[m]]

\* QUIT: maildrop_update, then client_close.
Quit(c) ==
    LET s == sess[c] IN
    /\ Line(c, "TRANSACTION")
    /\ \E D \in Doomed(s) : Expunge(D)
    /\ CloseConn(c, s)
    /\ active' = c

-------------------------------------------------------------------------------
(* The rest of the world *)

\* cmail-smtpd stores a mail for its user.
Deliver(m) ==
    /\ box[m] = "unsent"
    /\ box' = [box EXCEPT ![m] = "stored"]
    /\ UNCHANGED <<lock, marks, sess, active>>

\* `cmail-admin-popd unlock': the manual asks for it to be used only when
\* the maildrop is not open in any connection.
AdminUnlock(u) ==
    /\ Unlocks # "never"
    /\ Unlocks = "careful" => \A c \in Conns : sess[c].user # u
    /\ lock' = [lock EXCEPT ![u] = FALSE]
    /\ UNCHANGED <<box, marks, sess, active>>

Rebooted == [c \in Conns |-> NewSession(FALSE, "NONE")]

\* A termination signal: the loop ends, open clients are closed in turn, and
\* the daemon is started again.
Shutdown ==
    LET held == {u \in Users : \E c \in Conns :
                    sess[c].open /\ Holding(sess[c]) /\ sess[c].user = u}
    IN  /\ active = None
        /\ \E freed \in IF "unlock" \in Faults THEN SUBSET held ELSE {held} :
              lock' = [u \in Users |-> lock[u] /\ u \notin freed]
        /\ marks' = {}
        /\ sess' = Rebooted
        /\ UNCHANGED <<box, active>>

\* The daemon dies, perhaps inside a QUIT: behind the first deletion, or
\* behind both and before the release.  It is started again, and nothing
\* resets the locks.
Crash ==
    /\ MayCrash
    /\ \/ UNCHANGED box
       \/ \E c \in Conns : /\ Line(c, "TRANSACTION")
                           /\ \E D \in Doomed(sess[c])
                                        \cup {DoomedInMaster(sess[c])} : Expunge(D)
    /\ marks' = {}
    /\ sess' = Rebooted
    /\ active' = None
    /\ UNCHANGED lock

-------------------------------------------------------------------------------
AuthLine(c) ==
    \/ UserCmd(c) \/ PassCmd(c) \/ AuthCmd(c) \/ SaslLine(c)
    \/ Stls(c) \/ AuthOther(c) \/ QuitInAuth(c)

TransactionLine(c) ==
    \/ \E m \in Mails : Dele(c, m) \/ Inspect(c, m)
    \/ Rset(c) \/ TransactionOther(c) \/ Quit(c)

Connection(c) ==
    \/ Accept(c) \/ Handshake(c) \/ HangUp(c) \/ Timeout(c) \/ EndBatch(c)

Next ==
    \/ \E c \in Conns : Connection(c) \/ AuthLine(c) \/ TransactionLine(c)
    \/ \E m \in Mails : Deliver(m)
    \/ \E u \in Users : AdminUnlock(u)
    \/ Shutdown
    \/ Crash

Spec == Init /\ [][Next]_vars

-------------------------------------------------------------------------------
(* Properties *)

TypeOK ==
    /\ lock \in [Users -> BOOLEAN]
    /\ box \in [Mails -> {"unsent", "stored", "expunged"}]
    /\ marks \in SUBSET (Users \X Mails)
    /\ sess \in [Conns -> Session]
    /\ active \in Conns \cup {None}

\* Session c has the maildrop of user u open.
Holds(c, u) == sess[c].ok /\ sess[c].user = u

\* "Only one connection to a maildrop may be open at any time"
\* (install_master.sql): no two sessions hold the same maildrop.
MutualExclusion ==
    \A c, d \in Conns, u \in Users : Holds(c, u) /\ Holds(d, u) => c = d

\* Whoever holds a maildrop holds its lock, so no other login can get by.
HolderHasLock ==
    \A c \in Conns, u \in Users : Holds(c, u) => lock[u]

\* A session lists, and so can fetch and delete, only its own user's mail.
OwnMailOnly ==
    \A c \in Conns : sess[c].ok =>
        \A m \in sess[c].mails : Owner[m] = sess[c].user

\* Mail is expunged only as a session that was shown it, and flagged it,
\* ends; a session that is dropped, or a flag that RSET took back, expunges
\* nothing.  Whose mail a session is shown is the matter of OwnMailOnly, which
\* a user database that cannot be attached breaks.
ExpungeOnlyFlagged ==
    [][\A m \in Mails : box[m] # "expunged" /\ box'[m] = "expunged" =>
          \E c \in Conns : /\ sess[c].ok /\ m \in sess[c].flags
                            /\ ~sess'[c].ok]_vars

\* QUIT expunges everything the session shows as deleted, from whichever of
\* the two databases it is in.
QuitExpunges ==
    [][\A c \in Conns : sess[c].ok /\ Quit(c) =>
          \A m \in sess[c].flags : box'[m] = "expunged"]_vars

\* On a listener with tls_require no open session is logged in over a plain
\* connection, in whatever order STLS, AUTH and their lines arrive.
LoginNeedsTls ==
    \A c \in Conns :
        TlsRequire /\ sess[c].open /\ sess[c].state = "TRANSACTION" => sess[c].tls = "ONLY"

\* The sessions implement the service of MaildropService.
HolderOf(u) ==
    IF \E c \in Conns : Holds(c, u) THEN CHOOSE c \in Conns : Holds(c, u) ELSE None
Service == INSTANCE MaildropService WITH
    holder  <- [u \in Users |-> HolderOf(u)],
    seen    <- [u \in Users |-> UNION {sess[c].mails : c \in {d \in Conns : Holds(d, u)}}],
    flagged <- [u \in Users |-> UNION {sess[c].flags : c \in {d \in Conns : Holds(d, u)}}]
ImplementsService == Service!ASpec
===============================================================================
