-------------------------- MODULE MaildropRefinement --------------------------
(***************************************************************************)
(* What the sessions of cmail-popd do to mail, for any number of           *)
(* connections, users and mails: whose mail they list, what QUIT deletes,  *)
(* when a session needs TLS, and that Maildrop implements MaildropService. *)
(*                                                                         *)
(* The handlers of a session come down to a few moves (StepMoves); each    *)
(* property is proved move by move.                                        *)
(***************************************************************************)
EXTENDS MaildropProofs

(* The moves *)

\* t is s as far as the maildrop is concerned.
Like(s, t) ==
    /\ t.ok = s.ok /\ (s.ok => t.named)
    /\ s.ok \/ s.state = "TRANSACTION" => t.user = s.user
    /\ t.state = s.state /\ t.open = s.open
    /\ t.mails = s.mails /\ t.flags = s.flags /\ t.udb = s.udb /\ t.umarks = s.umarks
    /\ t.tls \in {s.tls, "ONLY"} \/ s.state = "AUTH"

\* t is what client_close leaves of s.
Gone(s, t) ==
    /\ ~t.ok /\ ~t.open /\ t.state = s.state /\ t.user = None
    /\ IF s.ok THEN t.mails = {} /\ t.flags = {} /\ t.umarks = {}
       ELSE t.mails = s.mails /\ t.flags = s.flags /\ t.umarks = s.umarks

\* t is s after u has logged in.
Entered(s, t, u) ==
    /\ t.ok /\ t.user = u /\ t.state = "TRANSACTION"
    /\ t.open = s.open /\ t.tls = s.tls /\ t.flags = s.flags /\ t.umarks = s.umarks
    /\ \E M \in Listings(StoredIn(u, MasterMails)), U \in Listings(StoredIn(u, UserDbMails)) :
          t.mails = s.mails \cup (M \cup U)
    /\ t.udb = IF u \in HasUserDb THEN u ELSE s.udb

Becomes(c, t) == t \in Session /\ sess' = [sess EXCEPT ![c] = t]
Answers(c) == sess[c].open \/ LinesAfterClose

Idles(c) ==
    /\ UNCHANGED <<lock, box, marks>>
    /\ \E t \in Session : Like(sess[c], t) /\ Becomes(c, t)

Leaves(c) ==
    /\ IF sess[c].ok THEN Release(sess[c].user) ELSE UNCHANGED <<lock, marks>>
    /\ \E t \in Session : Gone(sess[c], t) /\ Becomes(c, t)

Drops(c) == Leaves(c) /\ UNCHANGED box

LogsIn(c, u) ==
    /\ ~sess[c].ok /\ sess[c].state = "AUTH" /\ LoginAllowed(sess[c]) /\ Answers(c)
    /\ "lock" \notin Faults => ~lock[u] /\ lock' = [lock EXCEPT ![u] = TRUE]
    /\ UNCHANGED <<box, marks>>
    /\ \E t \in Session : Entered(sess[c], t, u) /\ Becomes(c, t)

LoginFails(c) ==
    /\ "attach" \in Faults
    /\ ~sess[c].ok
    /\ UNCHANGED marks
    /\ \E t \in Session :
          /\ Becomes(c, t)
          /\ t.state = "AUTH" /\ ~t.ok
          /\ t.flags = sess[c].flags /\ t.umarks = sess[c].umarks

Accepts(c) ==
    /\ ~sess[c].open
    /\ UNCHANGED <<lock, box, marks>>
    /\ \E mode \in TlsModes : Becomes(c, NewSession(TRUE, mode))

Deletes(c, m) ==
    /\ sess[c].ok /\ m \in sess[c].mails \ sess[c].flags
    /\ UNCHANGED <<lock, box>>
    /\ \E t \in Session :
          /\ Becomes(c, t)
          /\ t.ok /\ t.user = sess[c].user /\ t.state = sess[c].state /\ t.open = sess[c].open
          /\ t.tls = sess[c].tls /\ t.mails = sess[c].mails /\ t.udb = sess[c].udb
          /\ t.flags = sess[c].flags \cup {m}
          /\ \/ /\ m \in UserDbMails /\ UNCHANGED marks
                /\ t.umarks = sess[c].umarks \cup {<<sess[c].user, m>>}
             \/ /\ m \notin UserDbMails /\ marks' = marks \cup {<<sess[c].user, m>>}
                /\ t.umarks = sess[c].umarks
             \/ "mark" \in Faults /\ UNCHANGED marks /\ t.umarks = sess[c].umarks

Resets(c) ==
    /\ sess[c].state = "TRANSACTION"
    /\ UNCHANGED <<lock, box>>
    /\ marks' = Unmarked(sess[c].user, marks)
    /\ \E t \in Session :
          /\ Becomes(c, t)
          /\ t.ok = sess[c].ok /\ t.user = sess[c].user /\ t.state = sess[c].state
          /\ t.open = sess[c].open /\ t.tls = sess[c].tls
          /\ t.mails = sess[c].mails /\ t.udb = sess[c].udb
          /\ t.flags = {} /\ t.umarks = Unmarked(sess[c].user, sess[c].umarks)

\* RSET stops at the first failure.
ResetFails(c) ==
    /\ "unmark" \in Faults
    /\ UNCHANGED <<lock, box, sess>>
    /\ marks' \subseteq marks

Quits(c) ==
    /\ sess[c].state = "TRANSACTION"
    /\ \E D \in Doomed(sess[c]) : Expunge(D)
    /\ Leaves(c)

Moves(c) ==
    \/ Idles(c) \/ Drops(c) \/ LoginFails(c) \/ Accepts(c) \/ Resets(c) \/ ResetFails(c) \/ Quits(c)
    \/ \E u \in Users : LogsIn(c, u)
    \/ \E m \in Mails : Deletes(c, m)

-------------------------------------------------------------------------------
(* Every handler makes one of them. *)

LEMMA LikeItself == ASSUME NEW s, SessionOK(s) PROVE Like(s, s)
BY DEF Like, SessionOK

LEMMA LikeReset ==
    ASSUME NEW s \in Session, NEW t \in Session, Like(s, t), ~s.ok, s.state = "AUTH"
    PROVE  AuthReset(t) \in Session /\ Like(s, AuthReset(t))
<1>1. AuthReset(t) \in Session /\ ~AuthReset(t).ok
      /\ AuthReset(t).state = t.state /\ AuthReset(t).mails = t.mails
    BY AuthResetType
<1>2. /\ AuthReset(t).open = t.open /\ AuthReset(t).flags = t.flags
      /\ AuthReset(t).udb = t.udb /\ AuthReset(t).umarks = t.umarks
    BY DEF AuthReset, Session
<1> QED  BY <1>1, <1>2 DEF Like, Session

LEMMA LikeScored ==
    ASSUME NEW s \in Session, NEW t \in Session, Like(s, t)
    PROVE  [t EXCEPT !.score = @ - 1] \in Session /\ Like(s, [t EXCEPT !.score = @ - 1])
BY DEF Like, Session

LEMMA ClosedIsGone ==
    ASSUME NEW s \in Session, NEW t \in Session, Like(s, t)
    PROVE  Closed(t) \in Session /\ Gone(s, Closed(t)) /\ (Holding(t) <=> s.ok)
<1> DEFINE a == AuthReset(t)
           r == [a EXCEPT !.open = FALSE, !.tls = "NONE"]
           e == [r EXCEPT !.mails = {}, !.flags = {}, !.udb = None, !.umarks = {}]
<1>1. /\ a \in Session /\ ~a.ok /\ a.state = t.state /\ a.mails = t.mails
      /\ a.user = None /\ a.flags = t.flags /\ a.umarks = t.umarks
    <2>1. a \in Session
        BY AuthResetType
    <2>2. /\ ~a.ok /\ a.state = t.state /\ a.mails = t.mails
          /\ a.user = None /\ a.flags = t.flags /\ a.umarks = t.umarks
        BY DEF AuthReset, Session
    <2> QED  BY <2>1, <2>2
<1> HIDE DEF a
<1>2. r \in Session
    BY <1>1 DEF Session, TlsModes
<1>3. /\ ~r.ok /\ ~r.open /\ r.state = t.state /\ r.mails = t.mails
      /\ r.user = None /\ r.flags = t.flags /\ r.umarks = t.umarks
    BY <1>1 DEF Session
<1> HIDE DEF r
<1>4. /\ e \in Session /\ ~e.ok /\ ~e.open /\ e.state = t.state /\ e.mails = {}
      /\ e.user = None /\ e.flags = {} /\ e.umarks = {}
    BY <1>2, <1>3 DEF Session
<1>5. Closed(t) = IF Holding(t) THEN e ELSE r
    BY DEF Closed, r, a
<1> HIDE DEF e
<1>6. Holding(t) <=> s.ok
    BY DEF Holding, Like
<1> QED  BY <1>2, <1>3, <1>4, <1>5, <1>6 DEF Gone, Like

LEMMA StayIdles ==
    ASSUME NEW c \in Conns, NEW t \in Session, Like(sess[c], t), Stay(c, t)
    PROVE  Idles(c)
BY DEF Stay, Idles, Becomes

LEMMA CloseLeaves ==
    ASSUME NEW c \in Conns, sess[c] \in Session, NEW t \in Session, Like(sess[c], t),
           CloseConn(c, t)
    PROVE  Leaves(c)
<1>1. Closed(t) \in Session /\ Gone(sess[c], Closed(t)) /\ (Holding(t) <=> sess[c].ok)
    BY ClosedIsGone
<1>2. sess[c].ok => t.user = sess[c].user
    BY DEF Like
<1> QED  BY <1>1, <1>2 DEF CloseConn, Leaves, Becomes

LEMMA RejectMoves ==
    ASSUME NEW c \in Conns, sess[c] \in Session, NEW t \in Session, Like(sess[c], t),
           Reject(c, t)
    PROVE  Idles(c) \/ Drops(c)
<1>1. CASE t.score - 1 < FailLimit
    BY <1>1, CloseLeaves DEF Reject, Drops
<1>2. CASE ~(t.score - 1 < FailLimit)
    BY <1>2, LikeScored DEF Reject, Idles, Becomes
<1> QED  BY <1>1, <1>2

LEMMA AcquireMoves ==
    ASSUME NEW c \in Conns, sess[c] \in Session, ~sess[c].ok, sess[c].state = "AUTH",
           LoginAllowed(sess[c]), Answers(c),
           NEW s \in Session, Like(sess[c], s), s.tls = sess[c].tls,
           NEW u \in Users, Acquire(c, s, u)
    PROVE  Idles(c) \/ LoginFails(c) \/ LogsIn(c, u)
<1> DEFINE in == LoggedIn(s, u)
<1>1. /\ in \in Session /\ in.ok /\ in.user = u /\ in.state = "AUTH"
      /\ in.open = s.open /\ in.tls = s.tls /\ in.mails = s.mails /\ in.flags = s.flags
      /\ in.udb = s.udb /\ in.umarks = s.umarks
    BY DEF Session, LoggedIn, Like
<1>2. /\ UNCHANGED <<box, marks>>
      /\ \/ sess' = [sess EXCEPT ![c] = AuthReset(in)] /\ UNCHANGED lock
         \/ /\ "lock" \notin Faults => ~lock[u] /\ lock' = [lock EXCEPT ![u] = TRUE]
            /\ \/ \E t \in Attached(in, u) : sess' = [sess EXCEPT ![c] =
                      [t EXCEPT !.state = "TRANSACTION", !.score = @ + 1]]
               \/ \E t \in AttachFailed(in, u) : sess' = [sess EXCEPT ![c] = AuthReset(t)]
    BY DEF Acquire, LoggedIn
<1> HIDE DEF in
<1>3. CASE sess' = [sess EXCEPT ![c] = AuthReset(in)] /\ UNCHANGED lock
    <2> DEFINE r == AuthReset(in)
    <2>1. r \in Session /\ ~r.ok /\ r.state = "AUTH" /\ r.mails = in.mails
        BY <1>1, AuthResetType
    <2>2. r.open = in.open /\ r.flags = in.flags /\ r.udb = in.udb /\ r.umarks = in.umarks
        BY <1>1 DEF AuthReset, Session
    <2>3. sess' = [sess EXCEPT ![c] = r]
        BY <1>3
    <2> HIDE DEF r
    <2>4. Like(sess[c], r)
        BY <1>1, <2>1, <2>2 DEF Like, Session
    <2> QED  BY <1>2, <1>3, <2>1, <2>3, <2>4 DEF Idles, Becomes
<1>4. ASSUME "lock" \notin Faults => ~lock[u] /\ lock' = [lock EXCEPT ![u] = TRUE],
             NEW t \in Attached(in, u),
             sess' = [sess EXCEPT ![c] = [t EXCEPT !.state = "TRANSACTION", !.score = @ + 1]]
      PROVE  LogsIn(c, u)
    <2>1. PICK M \in Listings(StoredIn(u, MasterMails)), U \in Listings(StoredIn(u, UserDbMails)) :
              t = Listed(in, M \cup U, IF u \in HasUserDb THEN u ELSE in.udb)
        BY DEF Attached
    <2> DEFINE db == IF u \in HasUserDb THEN u ELSE in.udb
               n == [t EXCEPT !.state = "TRANSACTION", !.score = @ + 1]
    <2>2. t \in Session /\ t.ok /\ t.user = u
        BY <1>1, AttachedType
    <2>3. /\ t.open = in.open /\ t.tls = in.tls /\ t.flags = in.flags /\ t.umarks = in.umarks
          /\ t.mails = in.mails \cup (M \cup U) /\ t.udb = db
        BY <1>1, <2>1 DEF Listed, Session
    <2>4. t.score + 1 \in Int
        BY <2>2 DEF Session
    <2>5. /\ n \in Session /\ n.ok /\ n.user = u /\ n.state = "TRANSACTION"
          /\ n.open = t.open /\ n.tls = t.tls /\ n.flags = t.flags /\ n.umarks = t.umarks
          /\ n.mails = t.mails /\ n.udb = t.udb
        BY <2>2, <2>4 DEF Session
    <2>6. sess' = [sess EXCEPT ![c] = n]
        BY <1>4
    <2> HIDE DEF n
    <2>7. Entered(sess[c], n, u)
        BY <1>1, <2>3, <2>5 DEF Entered, Like
    <2> QED  BY <1>2, <1>4, <2>5, <2>6, <2>7 DEF LogsIn, Becomes
<1>5. ASSUME NEW t \in AttachFailed(in, u), sess' = [sess EXCEPT ![c] = AuthReset(t)]
      PROVE  LoginFails(c)
    <2>1. "attach" \in Faults
        BY <1>5 DEF AttachFailed
    <2>2. t \in Session /\ t.state = "AUTH"
        BY <1>1, AttachFailedType
    <2>3. AuthReset(t) \in Session /\ ~AuthReset(t).ok /\ AuthReset(t).state = "AUTH"
        BY <2>2, AuthResetType
    <2>4. t.flags = in.flags /\ t.umarks = in.umarks
        <3>1. PICK M, db : t = Listed(in, M, db)
            BY <1>5 DEF AttachFailed
        <3> QED  BY <1>1, <3>1 DEF Listed, Session
    <2>5. AuthReset(t).flags = t.flags /\ AuthReset(t).umarks = t.umarks
        BY <2>2 DEF AuthReset, Session
    <2>6. AuthReset(t).flags = sess[c].flags /\ AuthReset(t).umarks = sess[c].umarks
        BY <1>1, <2>4, <2>5 DEF Like
    <2> QED  BY <1>2, <1>5, <2>1, <2>3, <2>6 DEF LoginFails, Becomes
<1> QED  BY <1>2, <1>3, <1>4, <1>5

LEMMA CredentialsMove ==
    ASSUME NEW c \in Conns, sess[c] \in Session, ~sess[c].ok, sess[c].state = "AUTH",
           LoginAllowed(sess[c]), Answers(c),
           NEW s \in Session, Like(sess[c], s), s.tls = sess[c].tls, Credentials(c, s)
    PROVE  Moves(c)
BY LikeReset, RejectMoves, AcquireMoves DEF Credentials, Moves

LEMMA ConnectionMoves ==
    ASSUME TInv, NEW c \in Conns, Connection(c)
    PROVE  Moves(c)
<1> DEFINE s == sess[c]
<1>1. s \in Session /\ SessionOK(s) /\ Like(s, s)
    BY SessionAt, LikeItself
<1>2. CASE Accept(c)
    <2>1. (IF ListenerTls = "ONLY" THEN "NEGOTIATE" ELSE "NONE") \in TlsModes
        BY DEF TlsModes
    <2>2. Accepts(c)
        BY <1>2, <2>1, NewSessionOK DEF Accept, Accepts, Becomes
    <2> QED  BY <2>2 DEF Moves
<1>3. CASE Handshake(c)
    <2> DEFINE t == [s EXCEPT !.tls = "ONLY"]
    <2>1. t \in Session /\ Like(s, t)
        BY <1>1 DEF Session, TlsModes, Like
    <2>2. sess' = [sess EXCEPT ![c] = t]
        BY <1>3 DEF Handshake
    <2>3. Idles(c)
        BY <1>3, <2>1, <2>2 DEF Handshake, Idles, Becomes
    <2> QED  BY <2>3 DEF Moves
<1>4. CASE HangUp(c) \/ Timeout(c)
    <2>1. CloseConn(c, s) /\ UNCHANGED box
        BY <1>4 DEF HangUp, Timeout
    <2>2. Drops(c)
        BY <1>1, <2>1, CloseLeaves DEF Drops
    <2> QED  BY <2>2 DEF Moves
<1>5. CASE EndBatch(c)
    <2>1. sess' = [sess EXCEPT ![c] = s] /\ UNCHANGED <<lock, box, marks>>
        BY <1>5 DEF EndBatch, TInv, TypeOK
    <2>2. Idles(c)
        BY <1>1, <2>1 DEF Idles, Becomes
    <2> QED  BY <2>2 DEF Moves
<1> QED  BY <1>2, <1>3, <1>4, <1>5 DEF Connection

LEMMA AuthLineMoves ==
    ASSUME TInv, NEW c \in Conns, AuthLine(c)
    PROVE  Moves(c)
<1> DEFINE s == sess[c]
<1>1. s \in Session /\ SessionOK(s) /\ Like(s, s)
    BY SessionAt, LikeItself
<1>2. s.state = "AUTH" /\ ~s.ok /\ Answers(c)
    BY <1>1 DEF AuthLine, UserCmd, PassCmd, AuthCmd, SaslLine, Stls, AuthOther,
                QuitInAuth, Line, SessionOK, Answers
<1>3. AuthReset(s) \in Session /\ Like(s, AuthReset(s))
    BY <1>1, <1>2, LikeReset
<1>4. ASSUME NEW t \in Session, Like(s, t), Stay(c, t) \/ Reject(c, t)
      PROVE  Moves(c)
    BY <1>1, <1>4, StayIdles, RejectMoves DEF Moves
<1>5. CASE UserCmd(c)
    <2> DEFINE t == [s EXCEPT !.method = "USER", !.named = TRUE]
    <2>1. t \in Session /\ Like(s, t)
        BY <1>1, <1>2 DEF Session, Like
    <2> QED  BY <1>1, <1>4, <1>5, <2>1 DEF UserCmd
<1>6. CASE PassCmd(c)
    BY <1>1, <1>2, <1>4, <1>6, CredentialsMove DEF PassCmd
<1>7. CASE AuthCmd(c)
    <2> DEFINE t == [s EXCEPT !.method = "SASL", !.named = FALSE, !.user = None]
               i == [t EXCEPT !.sasl = TRUE]
    <2>1. t \in Session /\ Like(s, t) /\ t.tls = s.tls
        BY <1>1, <1>2 DEF Session, Like
    <2>2. i \in Session /\ Like(s, i) /\ i.tls = s.tls
        BY <1>1, <1>2, <2>1 DEF Session, Like
    <2>3. Reject(c, AuthReset(t)) \/ Stay(c, i) \/ Credentials(c, i)
        BY <1>7 DEF AuthCmd
    <2>4. LoginAllowed(t)
        BY <1>7 DEF AuthCmd
    <2> HIDE DEF t, i
    <2>5. LoginAllowed(s)
        BY <2>1, <2>4 DEF LoginAllowed
    <2>6. AuthReset(t) \in Session /\ Like(s, AuthReset(t))
        BY <1>1, <1>2, <2>1, LikeReset
    <2> QED  BY <1>1, <1>2, <1>4, <2>2, <2>3, <2>5, <2>6, CredentialsMove
<1>8. CASE SaslLine(c)
    BY <1>1, <1>2, <1>3, <1>4, <1>8, CredentialsMove DEF SaslLine
<1>9. CASE Stls(c)
    <2> DEFINE t == [s EXCEPT !.tls = "NEGOTIATE"]
    <2>1. t \in Session /\ Like(s, t)
        BY <1>1, <1>2 DEF Session, TlsModes, Like
    <2> QED  BY <1>1, <1>4, <1>9, <2>1 DEF Stls
<1>10. CASE AuthOther(c)
    BY <1>1, <1>4, <1>10 DEF AuthOther
<1>11. CASE QuitInAuth(c)
    <2>1. Drops(c)
        BY <1>1, <1>11, CloseLeaves DEF QuitInAuth, Drops
    <2> QED  BY <2>1 DEF Moves
<1> QED  BY <1>5, <1>6, <1>7, <1>8, <1>9, <1>10, <1>11 DEF AuthLine

LEMMA TransactionLineMoves ==
    ASSUME TInv, NEW c \in Conns, TransactionLine(c)
    PROVE  Moves(c)
<1> DEFINE s == sess[c]
<1>1. s \in Session /\ SessionOK(s) /\ Like(s, s)
    BY SessionAt, LikeItself
<1>2. s.state = "TRANSACTION"
    BY DEF TransactionLine, Dele, Inspect, Rset, TransactionOther, Quit, Line
<1>3. ASSUME Stay(c, s) \/ Reject(c, s)
      PROVE  Moves(c)
    BY <1>1, <1>3, StayIdles, RejectMoves DEF Moves
<1>4. ASSUME NEW m \in Mails, Dele(c, m)
      PROVE  Moves(c)
    <2>1. CASE m \notin s.mails \/ m \in s.flags
        BY <1>3, <1>4, <2>1 DEF Dele
    <2>2. CASE m \in s.mails /\ m \notin s.flags
        <3> DEFINE mark == <<s.user, m>>
                   F == s.flags \cup {m}
                   U == s.umarks \cup {mark}
                   t == [s EXCEPT !.flags = F]
                   v == [t EXCEPT !.umarks = U]
        <3>1. s.ok /\ mark \in Users \X Mails
            BY <1>1, <1>2, <2>2 DEF SessionOK
        <3>2. F \in SUBSET Mails /\ U \in SUBSET (Users \X Mails)
            BY <1>1, <3>1 DEF Session
        <3>3. /\ UNCHANGED <<lock, box>>
              /\ \/ m \in UserDbMails /\ sess' = [sess EXCEPT ![c] = v] /\ marks' = marks
                 \/ m \notin UserDbMails /\ sess' = [sess EXCEPT ![c] = t] /\ marks' = marks \cup {mark}
                 \/ "mark" \in Faults /\ sess' = [sess EXCEPT ![c] = t] /\ marks' = marks
            <4>1. [[s EXCEPT !.flags = @ \cup {m}] EXCEPT !.umarks = @ \cup {mark}] = v
                BY <1>1 DEF Session
            <4> QED  BY <1>4, <2>2, <4>1 DEF Dele
        <3> HIDE DEF mark, F, U
        <3>4. /\ t \in Session /\ t.ok = s.ok /\ t.user = s.user /\ t.state = s.state
              /\ t.open = s.open /\ t.tls = s.tls /\ t.mails = s.mails /\ t.udb = s.udb
              /\ t.flags = F /\ t.umarks = s.umarks
            BY <1>1, <3>2 DEF Session
        <3> HIDE DEF t
        <3>5. /\ v \in Session /\ v.ok = t.ok /\ v.user = t.user /\ v.state = t.state
              /\ v.open = t.open /\ v.tls = t.tls /\ v.mails = t.mails /\ v.udb = t.udb
              /\ v.flags = F /\ v.umarks = U
            BY <3>2, <3>4 DEF Session
        <3> HIDE DEF v
        <3>6. CASE m \in UserDbMails /\ sess' = [sess EXCEPT ![c] = v] /\ marks' = marks
            <4>1. Becomes(c, v)
                BY <3>5, <3>6 DEF Becomes
            <4>2. /\ v.ok /\ v.user = s.user /\ v.state = s.state /\ v.open = s.open
                  /\ v.tls = s.tls /\ v.mails = s.mails /\ v.udb = s.udb
                  /\ v.flags = s.flags \cup {m} /\ v.umarks = s.umarks \cup {<<s.user, m>>}
                BY <3>1, <3>4, <3>5 DEF mark, F, U
            <4>3. Deletes(c, m)
                BY <2>2, <3>1, <3>3, <3>5, <3>6, <4>1, <4>2 DEF Deletes
            <4> QED  BY <4>3 DEF Moves
        <3>7. CASE /\ sess' = [sess EXCEPT ![c] = t]
                   /\ \/ m \notin UserDbMails /\ marks' = marks \cup {mark}
                      \/ "mark" \in Faults /\ marks' = marks
            <4>1. Becomes(c, t)
                BY <3>4, <3>7 DEF Becomes
            <4>2. /\ t.ok /\ t.user = s.user /\ t.state = s.state /\ t.open = s.open
                  /\ t.tls = s.tls /\ t.mails = s.mails /\ t.udb = s.udb
                  /\ t.flags = s.flags \cup {m} /\ t.umarks = s.umarks
                BY <3>1, <3>4 DEF F
            <4>3. \/ m \notin UserDbMails /\ marks' = marks \cup {<<s.user, m>>}
                  \/ "mark" \in Faults /\ UNCHANGED marks
                BY <3>7 DEF mark
            <4>4. Deletes(c, m)
                BY <2>2, <3>1, <3>3, <3>4, <4>1, <4>2, <4>3 DEF Deletes
            <4> QED  BY <4>4 DEF Moves
        <3> QED  BY <3>3, <3>6, <3>7
    <2> QED  BY <2>1, <2>2
<1>5. ASSUME NEW m \in Mails, Inspect(c, m)
      PROVE  Moves(c)
    BY <1>3, <1>5 DEF Inspect
<1>6. CASE Rset(c)
    <2> DEFINE U == Unmarked(s.user, s.umarks)
               kept == [s EXCEPT !.umarks = U]
               t == [kept EXCEPT !.flags = {}]
    <2>1. U \in SUBSET (Users \X Mails)
        BY <1>1 DEF Session, Unmarked
    <2>2. /\ UNCHANGED <<lock, box>>
          /\ \/ marks' = Unmarked(s.user, marks) /\ sess' = [sess EXCEPT ![c] = t]
             \/ "unmark" \in Faults /\ marks' \in {marks, Unmarked(s.user, marks)} /\ UNCHANGED sess
        <3>1. kept = [s EXCEPT !.umarks = Unmarked(s.user, @)]
            BY <1>1 DEF Session
        <3> QED  BY <1>6, <3>1 DEF Rset
    <2> HIDE DEF U
    <2>3. /\ kept \in Session /\ kept.ok = s.ok /\ kept.user = s.user /\ kept.state = s.state
          /\ kept.open = s.open /\ kept.tls = s.tls /\ kept.mails = s.mails /\ kept.udb = s.udb
          /\ kept.umarks = U
        BY <1>1, <2>1 DEF Session
    <2> HIDE DEF kept
    <2>4. /\ t \in Session /\ t.ok = s.ok /\ t.user = s.user /\ t.state = s.state
          /\ t.open = s.open /\ t.tls = s.tls /\ t.mails = s.mails /\ t.udb = s.udb
          /\ t.flags = {} /\ t.umarks = U
        BY <2>3 DEF Session
    <2> HIDE DEF t
    <2>5. CASE marks' = Unmarked(s.user, marks) /\ sess' = [sess EXCEPT ![c] = t]
        <3>1. Resets(c)
            BY <1>2, <2>2, <2>4, <2>5 DEF Resets, Becomes, U
        <3> QED  BY <3>1 DEF Moves
    <2>6. CASE /\ "unmark" \in Faults /\ UNCHANGED sess
               /\ marks' \in {marks, Unmarked(s.user, marks)}
        <3>1. ResetFails(c)
            BY <2>2, <2>6 DEF ResetFails, Unmarked
        <3> QED  BY <3>1 DEF Moves
    <2> QED  BY <2>2, <2>5, <2>6
<1>7. CASE TransactionOther(c)
    BY <1>3, <1>7 DEF TransactionOther
<1>8. CASE Quit(c)
    <2>1. Quits(c)
        BY <1>1, <1>2, <1>8, CloseLeaves DEF Quit, Quits
    <2> QED  BY <2>1 DEF Moves
<1> QED  BY <1>4, <1>5, <1>6, <1>7, <1>8 DEF TransactionLine

LEMMA StepMoves ==
    ASSUME TInv, NEW c \in Conns, Connection(c) \/ AuthLine(c) \/ TransactionLine(c)
    PROVE  Moves(c)
BY ConnectionMoves, AuthLineMoves, TransactionLineMoves

\* What is left of Next leaves every session alone or starts them all anew.
LEMMA OtherSteps ==
    ASSUME TInv, [Next]_vars
    PROVE  \/ \E c \in Conns : Moves(c)
           \/ UNCHANGED <<marks, sess>>
           \/ marks' = {} /\ sess' = Rebooted
<1>1. ASSUME NEW c \in Conns, Connection(c) \/ AuthLine(c) \/ TransactionLine(c)
      PROVE  Moves(c)
    BY <1>1, StepMoves
<1>2. CASE UNCHANGED vars \/ (\E m \in Mails : Deliver(m)) \/ (\E u \in Users : AdminUnlock(u))
    BY <1>2 DEF vars, Deliver, AdminUnlock
<1>3. CASE Shutdown \/ Crash
    BY <1>3 DEF Shutdown, Crash
<1> QED  BY <1>1, <1>2, <1>3 DEF Next

LEMMA SessionsAfter ==
    ASSUME TInv, NEW c \in Conns, NEW t, Becomes(c, t), NEW d \in Conns
    PROVE  sess'[d] = IF d = c THEN t ELSE sess[d]
BY DEF TInv, TypeOK, Becomes

LEMMA Freshness ==
    ASSUME sess' = Rebooted, NEW d \in Conns
    PROVE  sess'[d] = NewSession(FALSE, "NONE")
BY DEF Rebooted

LEMMA Typed == Spec => []TInv
<1> QED  BY TypedInit, TypedStep, PTL DEF Spec

-------------------------------------------------------------------------------
(* TLS *)

TlsOK(s) == TlsRequire /\ s.open /\ s.state = "TRANSACTION" => s.tls = "ONLY"

LEMMA TlsStep == TInv /\ LoginNeedsTls /\ [Next]_vars => LoginNeedsTls'
<1> SUFFICES ASSUME TInv, LoginNeedsTls, [Next]_vars PROVE LoginNeedsTls'
    OBVIOUS
<1>1. LoginNeedsTls = \A d \in Conns : TlsOK(sess[d])
    BY DEF LoginNeedsTls, TlsOK
<1>2. LoginNeedsTls' = \A d \in Conns : TlsOK(sess'[d])
    BY DEF LoginNeedsTls, TlsOK
<1>3. ASSUME NEW c \in Conns, NEW t, Becomes(c, t), TlsOK(t)
      PROVE  LoginNeedsTls'
    BY <1>1, <1>2, <1>3, SessionsAfter
<1>4. ASSUME NEW c \in Conns, Moves(c)
      PROVE  LoginNeedsTls'
    <2>1. TlsOK(sess[c]) /\ sess[c] \in Session
        BY <1>1, SessionAt
    <2>2. CASE Idles(c)
        BY <1>3, <2>1, <2>2 DEF Idles, Like, TlsOK
    <2>3. CASE Drops(c) \/ Quits(c)
        BY <1>3, <2>3 DEF Drops, Quits, Leaves, Gone, TlsOK
    <2>4. CASE LoginFails(c)
        BY <1>3, <2>4 DEF LoginFails, TlsOK
    <2>5. CASE Accepts(c)
        BY <1>3, <2>5 DEF Accepts, NewSession, TlsOK
    <2>6. CASE Resets(c)
        BY <1>3, <2>1, <2>6 DEF Resets, TlsOK
    <2>7. CASE ResetFails(c)
        BY <1>1, <1>2, <2>7 DEF ResetFails
    <2>8. ASSUME NEW u \in Users, LogsIn(c, u) PROVE LoginNeedsTls'
        BY <1>3, <2>8 DEF LogsIn, Entered, LoginAllowed, TlsOK
    <2>9. ASSUME NEW m \in Mails, Deletes(c, m) PROVE LoginNeedsTls'
        BY <1>3, <2>1, <2>9 DEF Deletes, TlsOK
    <2> QED  BY <1>4, <2>2, <2>3, <2>4, <2>5, <2>6, <2>7, <2>8, <2>9 DEF Moves
<1>5. CASE UNCHANGED sess
    BY <1>1, <1>2, <1>5
<1>6. CASE sess' = Rebooted
    BY <1>2, <1>6, Freshness DEF NewSession, TlsOK
<1> QED  BY <1>4, <1>5, <1>6, OtherSteps

\* On a listener with tls_require no open session is logged in over a plain
\* connection, whatever fails and whatever clients send in whatever order, lines
\* behind their QUIT included.
THEOREM TlsBeforeLogin == Spec => []LoginNeedsTls
<1>1. Init => LoginNeedsTls
    BY DEF Init, NewSession, LoginNeedsTls
<1> QED  BY <1>1, TlsStep, Typed, PTL DEF Spec

-------------------------------------------------------------------------------
(* Listings *)

(* A session lists mail of its user only, flags nothing else, and has the   *)
(* user database open if there is one.  One that is not logged in lists     *)
(* nothing: OwnMailOnly needs this, since a login adds to what is listed.   *)
ListingOK(s) ==
    IF s.ok
    THEN /\ \A m \in s.mails : Owner[m] = s.user
         /\ s.flags \subseteq s.mails
         /\ s.user \in HasUserDb => s.udb = s.user
    ELSE /\ s.mails = {} /\ s.flags = {} /\ s.umarks = {}
         /\ s.state = "TRANSACTION" => s.user = None
ListingsOK == \A c \in Conns : ListingOK(sess[c])

LEMMA ListedOwn ==
    ASSUME NEW u, NEW db \in SUBSET Mails, NEW M \in Listings(StoredIn(u, db)), NEW m \in M
    PROVE  Owner[m] = u
BY DEF Listings, StoredIn

LEMMA ListingStep ==
    ASSUME "attach" \notin Faults
    PROVE  TInv /\ ListingsOK /\ [Next]_vars => ListingsOK'
<1> SUFFICES ASSUME TInv, ListingsOK, [Next]_vars PROVE ListingsOK'
    OBVIOUS
<1>1. ListingsOK' = \A d \in Conns : ListingOK(sess'[d])
    BY DEF ListingsOK, ListingOK
<1>2. ASSUME NEW c \in Conns, NEW t, Becomes(c, t), ListingOK(t)
      PROVE  ListingsOK'
    BY <1>1, <1>2, SessionsAfter DEF ListingsOK
<1>3. ASSUME NEW c \in Conns, Moves(c)
      PROVE  ListingsOK'
    <2>1. ListingOK(sess[c]) /\ sess[c] \in Session /\ SessionOK(sess[c])
        BY SessionAt DEF ListingsOK
    <2>2. CASE Idles(c)
        BY <1>2, <2>1, <2>2 DEF Idles, Like, ListingOK
    <2>3. CASE Drops(c) \/ Quits(c)
        BY <1>2, <2>1, <2>3 DEF Drops, Quits, Leaves, Gone, ListingOK
    <2>4. ~LoginFails(c)
        BY DEF LoginFails
    <2>5. CASE Accepts(c)
        BY <1>2, <2>5 DEF Accepts, NewSession, ListingOK
    <2>6. CASE Resets(c)
        BY <1>2, <2>1, <2>6 DEF Resets, Unmarked, ListingOK
    <2>7. CASE ResetFails(c)
        BY <1>1, <2>7 DEF ResetFails, ListingsOK
    <2>8. ASSUME NEW u \in Users, LogsIn(c, u) PROVE ListingsOK'
        <3>1. PICK t \in Session : Entered(sess[c], t, u) /\ Becomes(c, t)
            BY <2>8 DEF LogsIn
        <3>2. /\ ~sess[c].ok /\ sess[c].mails = {} /\ sess[c].flags = {}
            BY <2>1, <2>8 DEF LogsIn, ListingOK
        <3>3. PICK M \in Listings(StoredIn(u, MasterMails)), U \in Listings(StoredIn(u, UserDbMails)) :
                  t.mails = sess[c].mails \cup (M \cup U)
            BY <3>1 DEF Entered
        <3>4. \A m \in M \cup U : Owner[m] = u
            BY ListedOwn, MaildropAssumption DEF MasterMails
        <3>5. ListingOK(t)
            BY <3>1, <3>2, <3>3, <3>4 DEF Entered, ListingOK
        <3> QED  BY <1>2, <3>1, <3>5
    <2>9. ASSUME NEW m \in Mails, Deletes(c, m) PROVE ListingsOK'
        BY <1>2, <2>1, <2>9 DEF Deletes, ListingOK
    <2> QED  BY <1>3, <2>2, <2>3, <2>4, <2>5, <2>6, <2>7, <2>8, <2>9 DEF Moves
<1>4. CASE UNCHANGED sess
    BY <1>1, <1>4 DEF ListingsOK
<1>5. CASE sess' = Rebooted
    BY <1>1, <1>5, Freshness DEF NewSession, ListingOK
<1> QED  BY <1>3, <1>4, <1>5, OtherSteps

LEMMA ListingInit == Init => ListingsOK
BY DEF Init, NewSession, ListingsOK, ListingOK

\* A session lists, and so can fetch and delete, only its own user's mail, unless
\* a user database could not be attached or read: what the failed login had listed
\* by then stays for the next one.
THEOREM OwnMail ==
    ASSUME "attach" \notin Faults
    PROVE  Spec => []OwnMailOnly
<1>1. TInv /\ ListingsOK /\ [Next]_vars => ListingsOK'
    BY ListingStep
<1>2. ListingsOK => OwnMailOnly
    BY DEF ListingsOK, ListingOK, OwnMailOnly
<1> QED  BY <1>1, <1>2, ListingInit, Typed, PTL DEF Spec

-------------------------------------------------------------------------------
(* Deletion marks *)

LEMMA Locked ==
    ASSUME "lock" \notin Faults, Unlocks # "any"
    PROVE  Spec => []LockInv
<1>1. Spec => [](MutualExclusion /\ HolderHasLock)
    BY LockSafety
<1>2. LockInv <=> MutualExclusion /\ HolderHasLock
    BY DEF LockInv
<1> QED  BY <1>1, <1>2, PTL

\* What a session shows as deleted is marked in the database it is in.
FlagsMarked ==
    \A c \in Conns : sess[c].ok =>
        \A m \in sess[c].flags :
            <<sess[c].user, m>> \in IF m \in UserDbMails THEN sess[c].umarks ELSE marks

\* Marks of another user.
LEMMA OtherMarks ==
    ASSUME NEW table \in SUBSET (Users \X Mails), NEW u, NEW v, NEW m
    PROVE  /\ <<v, m>> \in Unmarked(u, table) <=> <<v, m>> \in table /\ v # u
           /\ u \notin Users => Unmarked(u, table) = table
           /\ Unmarked(u, table) \subseteq table
BY DEF Unmarked

LEMMA FlagsMarkedStep ==
    ASSUME Faults \subseteq {"read", "unlock"}
    PROVE  /\ TInv /\ ListingsOK /\ LockInv /\ FlagsMarked /\ [Next]_vars
           => FlagsMarked'
<1> SUFFICES ASSUME TInv, ListingsOK, LockInv, FlagsMarked, [Next]_vars
             PROVE  FlagsMarked'
    OBVIOUS
<1> DEFINE Has(s, table) == s.ok =>
               \A m \in s.flags :
                   <<s.user, m>> \in IF m \in UserDbMails THEN s.umarks ELSE table
<1>1. FlagsMarked' = \A d \in Conns : Has(sess'[d], marks')
    BY DEF FlagsMarked
<1>2. \A d \in Conns : Has(sess[d], marks)
    BY DEF FlagsMarked
<1>3. marks \in SUBSET (Users \X Mails) /\ None \notin Users
    BY Types, MaildropAssumption
<1>4. ASSUME NEW c \in Conns, NEW t, Becomes(c, t), Has(t, marks'), marks \subseteq marks'
      PROVE  FlagsMarked'
    <2> SUFFICES ASSUME NEW d \in Conns PROVE Has(sess'[d], marks')
        BY <1>1
    <2>1. CASE d = c
        BY <1>4, <2>1, SessionsAfter
    <2>2. CASE d # c
        <3>1. sess'[d] = sess[d] /\ Has(sess[d], marks)
            BY <1>2, <1>4, <2>2, SessionsAfter
        <3> QED  BY <1>4, <3>1
    <2> QED  BY <2>1, <2>2
<1>5. ASSUME NEW c \in Conns, NEW t, Becomes(c, t), Has(t, marks'),
             marks' = IF sess[c].ok THEN Unmarked(sess[c].user, marks) ELSE marks
      PROVE  FlagsMarked'
    <2> SUFFICES ASSUME NEW d \in Conns PROVE Has(sess'[d], marks')
        BY <1>1
    <2>1. CASE d = c
        BY <1>5, <2>1, SessionsAfter
    <2>2. CASE d # c
        <3>1. sess'[d] = sess[d] /\ Has(sess[d], marks)
            BY <1>2, <1>5, <2>2, SessionsAfter
        <3>2. SessionOK(sess[d]) /\ SessionOK(sess[c])
            BY SessionAt
        <3>3. sess[d].ok /\ sess[c].ok => sess[d].user # sess[c].user
            BY <2>2, <3>2 DEF LockInv, MutualExclusion, Holds, SessionOK
        <3> QED  BY <1>3, <1>5, <3>1, <3>3, OtherMarks
    <2> QED  BY <2>1, <2>2
<1>6. ASSUME NEW c \in Conns, Moves(c)
      PROVE  FlagsMarked'
    <2>1. Has(sess[c], marks) /\ ListingOK(sess[c]) /\ sess[c] \in Session
        BY <1>2, SessionAt DEF ListingsOK
    <2>2. CASE Idles(c)
        BY <1>4, <2>1, <2>2 DEF Idles, Like
    <2>3. CASE Drops(c) \/ Quits(c)
        <3>1. PICK t \in Session : Gone(sess[c], t) /\ Becomes(c, t)
            BY <2>3 DEF Drops, Quits, Leaves
        <3>2. marks' = IF sess[c].ok THEN Unmarked(sess[c].user, marks) ELSE marks
            BY <2>3 DEF Drops, Quits, Leaves, Release
        <3> QED  BY <1>5, <3>1, <3>2 DEF Gone
    <2>4. ~LoginFails(c) /\ ~ResetFails(c)
        BY DEF LoginFails, ResetFails
    <2>5. CASE Accepts(c)
        BY <1>4, <2>5 DEF Accepts, NewSession
    <2>6. CASE Resets(c)
        <3>1. PICK t \in Session : Becomes(c, t) /\ t.flags = {}
            BY <2>6 DEF Resets
        <3>2. marks' = IF sess[c].ok THEN Unmarked(sess[c].user, marks) ELSE marks
            <4>1. marks' = Unmarked(sess[c].user, marks)
                BY <2>6 DEF Resets
            <4>2. ~sess[c].ok => sess[c].user \notin Users
                BY <1>3, <2>1, <2>6 DEF Resets, ListingOK
            <4> QED  BY <1>3, <4>1, <4>2, OtherMarks
        <3> QED  BY <1>5, <3>1, <3>2
    <2>7. ASSUME NEW u \in Users, LogsIn(c, u) PROVE FlagsMarked'
        <3>1. PICK t \in Session : Entered(sess[c], t, u) /\ Becomes(c, t)
            BY <2>7 DEF LogsIn
        <3>2. t.flags = {} /\ marks' = marks
            BY <2>1, <2>7, <3>1 DEF LogsIn, Entered, ListingOK
        <3> QED  BY <1>4, <3>1, <3>2
    <2>8. ASSUME NEW m \in Mails, Deletes(c, m) PROVE FlagsMarked'
        <3>1. PICK t \in Session :
                 /\ Becomes(c, t)
                 /\ t.user = sess[c].user /\ t.flags = sess[c].flags \cup {m}
                 /\ \/ /\ m \in UserDbMails /\ UNCHANGED marks
                       /\ t.umarks = sess[c].umarks \cup {<<sess[c].user, m>>}
                    \/ /\ m \notin UserDbMails /\ marks' = marks \cup {<<sess[c].user, m>>}
                       /\ t.umarks = sess[c].umarks
            BY <2>8 DEF Deletes
        <3>2. sess[c].ok /\ marks \subseteq marks'
            BY <2>8, <3>1 DEF Deletes
        <3>3. Has(t, marks')
            BY <2>1, <3>1, <3>2
        <3> QED  BY <1>4, <3>1, <3>2, <3>3
    <2> QED  BY <1>6, <2>2, <2>3, <2>4, <2>5, <2>6, <2>7, <2>8 DEF Moves
<1>7. CASE UNCHANGED <<marks, sess>>
    BY <1>1, <1>2, <1>7
<1>8. CASE sess' = Rebooted
    BY <1>1, <1>8, Freshness DEF NewSession
<1> QED  BY <1>6, <1>7, <1>8, OtherSteps

\* QUIT finds what is flagged in one of the two databases.
LEMMA FlaggedIsDoomed ==
    ASSUME TInv, ListingsOK, FlagsMarked, NEW c \in Conns, sess[c].ok, NEW m \in sess[c].flags
    PROVE  /\ m \in Mails /\ Owner[m] = sess[c].user
           /\ m \in IF m \in UserDbMails THEN DoomedInUserDb(sess[c]) ELSE DoomedInMaster(sess[c])
<1>1. /\ m \in Mails /\ Owner[m] = sess[c].user
      /\ sess[c].user \in HasUserDb => sess[c].udb = sess[c].user
    BY SessionAt DEF ListingsOK, ListingOK, Session
<1>2. CASE m \in UserDbMails
    <2>1. <<sess[c].user, m>> \in sess[c].umarks
        BY <1>2 DEF FlagsMarked
    <2>2. sess[c].udb \in HasUserDb /\ sess[c].udb # None
        BY <1>1, <1>2, MaildropAssumption
    <2> QED  BY <1>1, <1>2, <2>1, <2>2 DEF DoomedInUserDb, MarksOf
<1>3. CASE m \notin UserDbMails
    <2>1. <<sess[c].user, m>> \in marks
        BY <1>3 DEF FlagsMarked
    <2> QED  BY <1>1, <1>3, <2>1 DEF DoomedInMaster, MarksOf, MasterMails
<1> QED  BY <1>2, <1>3

LEMMA QuitDeletesFlagged ==
    ASSUME "delete" \notin Faults, TInv, ListingsOK, FlagsMarked,
           NEW c \in Conns, sess[c].ok, Quit(c)
    PROVE  \A m \in sess[c].flags : box'[m] = "expunged"
<1> SUFFICES ASSUME NEW m \in sess[c].flags PROVE box'[m] = "expunged"
    OBVIOUS
<1>1. PICK D \in Doomed(sess[c]) : Expunge(D)
    BY DEF Quit
<1>2. D = DoomedInMaster(sess[c]) \cup DoomedInUserDb(sess[c])
    BY <1>1 DEF Doomed
<1> QED  BY <1>1, <1>2, FlaggedIsDoomed DEF Expunge

\* QUIT expunges everything the session shows as deleted, from whichever of the
\* two databases it is in and whatever the other sessions do to the marks they
\* share a table with, as long as the statements on marks and mails work.
THEOREM QuitDeletes ==
    ASSUME Faults \subseteq {"read", "unlock"}, Unlocks # "any"
    PROVE  Spec => QuitExpunges
<1>1. TInv /\ ListingsOK /\ [Next]_vars => ListingsOK'
    BY ListingStep
<1>2. TInv /\ ListingsOK /\ LockInv /\ FlagsMarked /\ [Next]_vars => FlagsMarked'
    BY FlagsMarkedStep
<1>3. Spec => []LockInv
    BY Locked
<1>4. Init => FlagsMarked
    BY DEF Init, NewSession, FlagsMarked
<1>5. TInv /\ ListingsOK /\ FlagsMarked
      => \A c \in Conns : sess[c].ok /\ Quit(c) => \A m \in sess[c].flags : box'[m] = "expunged"
    BY QuitDeletesFlagged
<1> QED  BY <1>1, <1>2, <1>3, <1>4, <1>5, ListingInit, Typed, PTL DEF Spec, QuitExpunges

(* Only a session that is logged in has flags and marks, whatever a login  *)
(* that failed has left in its listing.                                     *)
FlagsOK(s) ==
    ~s.ok => /\ s.flags = {} /\ s.umarks = {}
             /\ s.state = "TRANSACTION" => s.user = None
OnlyUsersFlag == \A c \in Conns : FlagsOK(sess[c])

LEMMA FlagsStep == TInv /\ OnlyUsersFlag /\ [Next]_vars => OnlyUsersFlag'
<1> SUFFICES ASSUME TInv, OnlyUsersFlag, [Next]_vars PROVE OnlyUsersFlag'
    OBVIOUS
<1>1. OnlyUsersFlag' = \A d \in Conns : FlagsOK(sess'[d])
    BY DEF OnlyUsersFlag, FlagsOK
<1>2. ASSUME NEW c \in Conns, NEW t, Becomes(c, t), FlagsOK(t)
      PROVE  OnlyUsersFlag'
    BY <1>1, <1>2, SessionsAfter DEF OnlyUsersFlag
<1>3. ASSUME NEW c \in Conns, Moves(c)
      PROVE  OnlyUsersFlag'
    <2>1. FlagsOK(sess[c]) /\ sess[c] \in Session /\ SessionOK(sess[c])
        BY SessionAt DEF OnlyUsersFlag
    <2>2. CASE Idles(c)
        BY <1>2, <2>1, <2>2 DEF Idles, Like, FlagsOK
    <2>3. CASE Drops(c) \/ Quits(c)
        BY <1>2, <2>1, <2>3 DEF Drops, Quits, Leaves, Gone, FlagsOK
    <2>4. CASE LoginFails(c)
        BY <1>2, <2>1, <2>4 DEF LoginFails, FlagsOK
    <2>5. CASE Accepts(c)
        BY <1>2, <2>5 DEF Accepts, NewSession, FlagsOK
    <2>6. CASE Resets(c)
        BY <1>2, <2>1, <2>6 DEF Resets, Unmarked, FlagsOK
    <2>7. CASE ResetFails(c)
        BY <1>1, <2>7 DEF ResetFails, OnlyUsersFlag
    <2>8. ASSUME NEW u \in Users, LogsIn(c, u) PROVE OnlyUsersFlag'
        BY <1>2, <2>8 DEF LogsIn, Entered, FlagsOK
    <2>9. ASSUME NEW m \in Mails, Deletes(c, m) PROVE OnlyUsersFlag'
        BY <1>2, <2>9 DEF Deletes, FlagsOK
    <2> QED  BY <1>3, <2>2, <2>3, <2>4, <2>5, <2>6, <2>7, <2>8, <2>9 DEF Moves
<1>4. CASE UNCHANGED sess
    BY <1>1, <1>4 DEF OnlyUsersFlag
<1>5. CASE sess' = Rebooted
    BY <1>1, <1>5, Freshness DEF NewSession, FlagsOK
<1> QED  BY <1>3, <1>4, <1>5, OtherSteps

LEMMA ListingsFlag == ListingsOK => OnlyUsersFlag
BY DEF ListingsOK, ListingOK, OnlyUsersFlag, FlagsOK

LEMMA FlagsInit == Init => OnlyUsersFlag
BY DEF Init, NewSession, OnlyUsersFlag, FlagsOK

(* Nothing is marked that its session does not show as deleted.  A session  *)
(* that is logged in is open: only then does client_close release it before *)
(* its slot is used again.                                                  *)
MarkOK(s) == s.ok => s.open /\ s.umarks \subseteq {s.user} \X s.flags
MarksFlagged ==
    /\ \A c \in Conns : MarkOK(sess[c])
    /\ \A u \in Users, m \in Mails : <<u, m>> \in marks =>
          \E c \in Conns : Holds(c, u) /\ m \in sess[c].flags

LEMMA MarksFlaggedStep ==
    ASSUME Faults \subseteq {"read", "attach", "mark", "delete", "unlock"}, ~LinesAfterClose
    PROVE  TInv /\ OnlyUsersFlag /\ MarksFlagged /\ [Next]_vars => MarksFlagged'
<1> SUFFICES ASSUME TInv, OnlyUsersFlag, MarksFlagged, [Next]_vars PROVE MarksFlagged'
    OBVIOUS
<1> DEFINE Shows(s, u, m) == s.ok /\ s.user = u /\ m \in s.flags
<1>1. /\ MarksFlagged' <=>
            /\ \A d \in Conns : MarkOK(sess'[d])
            /\ \A u \in Users, m \in Mails : <<u, m>> \in marks' =>
                  \E d \in Conns : Shows(sess'[d], u, m)
      /\ MarksFlagged <=>
            /\ \A d \in Conns : MarkOK(sess[d])
            /\ \A u \in Users, m \in Mails : <<u, m>> \in marks =>
                  \E d \in Conns : Shows(sess[d], u, m)
    BY DEF MarksFlagged, Holds, MarkOK
<1>2. marks \in SUBSET (Users \X Mails) /\ None \notin Users
    BY Types, MaildropAssumption
<1> HIDE DEF Shows
<1>3. ASSUME NEW c \in Conns, NEW t, Becomes(c, t), MarkOK(t),
             \A u \in Users, m \in Mails : <<u, m>> \in marks' =>
                Shows(t, u, m) \/ (<<u, m>> \in marks /\ ~Shows(sess[c], u, m))
      PROVE  MarksFlagged'
    <2>1. \A d \in Conns : MarkOK(sess'[d])
        BY <1>1, <1>3, SessionsAfter
    <2>2. ASSUME NEW u \in Users, NEW m \in Mails, <<u, m>> \in marks'
          PROVE  \E d \in Conns : Shows(sess'[d], u, m)
        <3>1. CASE Shows(t, u, m)
            BY <1>3, <3>1, SessionsAfter
        <3>2. CASE <<u, m>> \in marks /\ ~Shows(sess[c], u, m)
            <4>1. PICK d \in Conns : Shows(sess[d], u, m)
                BY <1>1, <3>2
            <4>2. sess'[d] = sess[d]
                BY <1>3, <3>2, <4>1, SessionsAfter
            <4> QED  BY <4>1, <4>2
        <3> QED  BY <1>3, <2>2, <3>1, <3>2
    <2> QED  BY <1>1, <2>1, <2>2
<1>4. ASSUME NEW c \in Conns, NEW t, Becomes(c, t), MarkOK(t),
             marks' = IF sess[c].ok THEN Unmarked(sess[c].user, marks) ELSE marks
      PROVE  MarksFlagged'
    <2>1. ASSUME NEW u \in Users, NEW m \in Mails, <<u, m>> \in marks'
          PROVE  <<u, m>> \in marks /\ ~Shows(sess[c], u, m)
        <3>1. CASE sess[c].ok
            BY <1>2, <1>4, <2>1, <3>1, OtherMarks DEF Shows
        <3>2. CASE ~sess[c].ok
            BY <1>4, <2>1, <3>2 DEF Shows
        <3> QED  BY <3>1, <3>2
    <2> QED  BY <1>3, <1>4, <2>1
<1>5. ASSUME NEW c \in Conns, Moves(c)
      PROVE  MarksFlagged'
    <2>1. MarkOK(sess[c]) /\ FlagsOK(sess[c]) /\ sess[c] \in Session
        BY <1>1, SessionAt DEF OnlyUsersFlag
    <2>2. CASE Idles(c)
        <3>1. PICK t \in Session : Like(sess[c], t) /\ Becomes(c, t)
            BY <2>2 DEF Idles
        <3>2. \A u \in Users, m \in Mails : Shows(sess[c], u, m) => Shows(t, u, m)
            BY <3>1 DEF Shows, Like
        <3>3. MarkOK(t) /\ marks' = marks
            BY <2>1, <2>2, <3>1 DEF Idles, Like, MarkOK
        <3> QED  BY <1>3, <3>1, <3>2, <3>3
    <2>3. CASE Drops(c) \/ Quits(c)
        <3>1. PICK t \in Session : Gone(sess[c], t) /\ Becomes(c, t)
            BY <2>3 DEF Drops, Quits, Leaves
        <3>2. marks' = IF sess[c].ok THEN Unmarked(sess[c].user, marks) ELSE marks
            BY <2>3 DEF Drops, Quits, Leaves, Release
        <3>3. MarkOK(t)
            BY <3>1 DEF Gone, MarkOK
        <3> QED  BY <1>4, <3>1, <3>2, <3>3
    <2>4. ~ResetFails(c)
        BY DEF ResetFails
    <2>9. CASE LoginFails(c)
        <3>1. PICK t \in Session : Becomes(c, t) /\ ~t.ok
            BY <2>9 DEF LoginFails
        <3>2. ~sess[c].ok /\ marks' = marks
            BY <2>9 DEF LoginFails
        <3>3. MarkOK(t)
            BY <3>1 DEF MarkOK
        <3> QED  BY <1>3, <3>1, <3>2, <3>3 DEF Shows
    <2>5. CASE Accepts(c)
        <3>1. PICK t : Becomes(c, t) /\ ~t.ok
            BY <2>5 DEF Accepts, NewSession
        <3>2. ~sess[c].ok /\ marks' = marks
            BY <2>1, <2>5 DEF Accepts, MarkOK
        <3>3. MarkOK(t)
            BY <3>1 DEF MarkOK
        <3> QED  BY <1>4, <3>1, <3>2, <3>3
    <2>6. CASE Resets(c)
        <3>1. PICK t \in Session :
                 /\ Becomes(c, t) /\ t.ok = sess[c].ok /\ t.user = sess[c].user
                 /\ t.open = sess[c].open /\ t.flags = {}
                 /\ t.umarks = Unmarked(sess[c].user, sess[c].umarks)
            BY <2>6 DEF Resets
        <3>2. marks' = IF sess[c].ok THEN Unmarked(sess[c].user, marks) ELSE marks
            <4>1. marks' = Unmarked(sess[c].user, marks)
                BY <2>6 DEF Resets
            <4>2. ~sess[c].ok => sess[c].user \notin Users
                BY <1>2, <2>1, <2>6 DEF Resets, FlagsOK
            <4> QED  BY <1>2, <4>1, <4>2, OtherMarks
        <3>3. MarkOK(t)
            <4>1. sess[c].ok => t.umarks = {}
                BY <2>1, <3>1 DEF MarkOK, Unmarked
            <4> QED  BY <2>1, <3>1, <4>1 DEF MarkOK
        <3> QED  BY <1>4, <3>1, <3>2, <3>3
    <2>7. ASSUME NEW u \in Users, LogsIn(c, u) PROVE MarksFlagged'
        <3>1. PICK t \in Session : Entered(sess[c], t, u) /\ Becomes(c, t)
            BY <2>7 DEF LogsIn
        <3>2. ~sess[c].ok /\ t.umarks = {} /\ t.open /\ marks' = marks
            BY <2>1, <2>7, <3>1 DEF LogsIn, Entered, FlagsOK, Answers
        <3>3. MarkOK(t)
            BY <3>2 DEF MarkOK
        <3> QED  BY <1>4, <3>1, <3>2, <3>3
    <2>8. ASSUME NEW m \in Mails, Deletes(c, m) PROVE MarksFlagged'
        <3>1. PICK t \in Session :
                 /\ Becomes(c, t) /\ t.ok /\ t.open = sess[c].open
                 /\ t.user = sess[c].user /\ t.flags = sess[c].flags \cup {m}
                 /\ t.umarks \subseteq sess[c].umarks \cup {<<sess[c].user, m>>}
                 /\ marks' \subseteq marks \cup {<<sess[c].user, m>>}
            BY <2>8 DEF Deletes
        <3>2. MarkOK(t)
            BY <2>1, <2>8, <3>1 DEF MarkOK, Deletes
        <3>3. ASSUME NEW u \in Users, NEW n \in Mails, <<u, n>> \in marks'
              PROVE  Shows(t, u, n) \/ (<<u, n>> \in marks /\ ~Shows(sess[c], u, n))
            BY <3>1, <3>3 DEF Shows
        <3> QED  BY <1>3, <3>1, <3>2, <3>3
    <2> QED  BY <1>5, <2>2, <2>3, <2>4, <2>5, <2>6, <2>7, <2>8, <2>9 DEF Moves
<1>6. CASE UNCHANGED <<marks, sess>>
    BY <1>1, <1>6
<1>7. CASE marks' = {} /\ sess' = Rebooted
    BY <1>1, <1>7, Freshness DEF NewSession, MarkOK
<1> QED  BY <1>5, <1>6, <1>7, OtherSteps

LEMMA MarksFlaggedInit == Init => MarksFlagged
BY DEF Init, NewSession, MarksFlagged, MarkOK

\* What an ending session deletes it has flagged.
LEMMA DoomedIsFlagged ==
    ASSUME TInv, OnlyUsersFlag, LockInv, MarksFlagged,
           NEW c \in Conns, sess[c].state = "TRANSACTION",
           NEW D \in Doomed(sess[c]) \cup {DoomedInMaster(sess[c])}, NEW m \in D
    PROVE  sess[c].ok /\ m \in sess[c].flags
<1> DEFINE s == sess[c]
<1>1. s \in Session /\ SessionOK(s) /\ FlagsOK(s) /\ MarkOK(s)
      /\ marks \in SUBSET (Users \X Mails)
    BY SessionAt, Types DEF OnlyUsersFlag, MarksFlagged
<1>2. m \in Mails /\ (<<s.user, m>> \in marks \/ <<s.user, m>> \in s.umarks)
    BY DEF Doomed, DoomedInMaster, DoomedInUserDb, MarksOf
<1>3. CASE <<s.user, m>> \in s.umarks
    BY <1>1, <1>3 DEF FlagsOK, MarkOK, Holds
<1>4. CASE <<s.user, m>> \in marks
    <2>1. s.user \in Users
        BY <1>1, <1>4
    <2>2. s.ok
        BY <1>1, <2>1, MaildropAssumption DEF FlagsOK
    <2>3. PICK d \in Conns : Holds(d, s.user) /\ m \in sess[d].flags
        BY <1>2, <1>4, <2>1 DEF MarksFlagged
    <2>4. d = c
        BY <2>1, <2>2, <2>3 DEF LockInv, MutualExclusion, Holds
    <2> QED  BY <1>1, <2>2, <2>3, <2>4 DEF FlagsOK, Holds
<1> QED  BY <1>2, <1>3, <1>4

LEMMA ExpungeStep ==
    ASSUME TInv, OnlyUsersFlag, LockInv, MarksFlagged, [Next]_vars,
           NEW m \in Mails, box[m] # "expunged", box'[m] = "expunged"
    PROVE  \E c \in Conns : sess[c].ok /\ m \in sess[c].flags /\ ~sess'[c].ok
<1>1. ASSUME NEW c \in Conns, NEW D, Expunge(D) PROVE m \in D
    BY <1>1 DEF Expunge
<1>2. ASSUME UNCHANGED box PROVE FALSE
    BY <1>2
<1>3. ASSUME NEW c \in Conns, Quit(c)
      PROVE  \E d \in Conns : sess[d].ok /\ m \in sess[d].flags /\ ~sess'[d].ok
    <2>1. PICK D \in Doomed(sess[c]) : Expunge(D)
        BY <1>3 DEF Quit
    <2>2. sess[c].ok /\ m \in sess[c].flags
        BY <1>1, <1>3, <2>1, DoomedIsFlagged DEF Quit, Line
    <2>3. ~sess'[c].ok
        <3>1. SessionOK(sess[c]) /\ sess[c] \in Session /\ sess \in [Conns -> Session]
            BY SessionAt DEF TInv, TypeOK
        <3>2. sess' = [sess EXCEPT ![c] = Closed(sess[c])] /\ ~Closed(sess[c]).ok
            BY <1>3, <3>1, ClosedOK DEF Quit, CloseConn
        <3> QED  BY <3>1, <3>2
    <2> QED  BY <2>2, <2>3
<1>4. ASSUME Crash
      PROVE  \E d \in Conns : sess[d].ok /\ m \in sess[d].flags /\ ~sess'[d].ok
    <2>1. PICK c \in Conns :
             /\ Line(c, "TRANSACTION")
             /\ \E D \in Doomed(sess[c]) \cup {DoomedInMaster(sess[c])} : Expunge(D)
        BY <1>2, <1>4 DEF Crash
    <2>2. sess[c].ok /\ m \in sess[c].flags
        BY <1>1, <2>1, DoomedIsFlagged DEF Line
    <2>3. ~sess'[c].ok
        BY <1>4 DEF Crash, Rebooted, NewSession
    <2> QED  BY <2>2, <2>3
<1>5. ASSUME NEW n \in Mails, Deliver(n) PROVE FALSE
    BY <1>5, Types DEF Deliver, BoxType
<1>6. ASSUME NEW c \in Conns, Connection(c) \/ AuthLine(c) \/ TransactionLine(c), ~Quit(c)
      PROVE  FALSE
    <2>1. UNCHANGED box
        BY <1>6 DEF Connection, Accept, Handshake, HangUp, Timeout, EndBatch,
                    AuthLine, UserCmd, PassCmd, AuthCmd, SaslLine, Stls, AuthOther, QuitInAuth,
                    Credentials, Acquire, Stay, Reject,
                    TransactionLine, Dele, Inspect, Rset, TransactionOther
    <2> QED  BY <1>2, <2>1
<1>7. CASE UNCHANGED vars \/ Shutdown \/ \E u \in Users : AdminUnlock(u)
    BY <1>2, <1>7 DEF vars, Shutdown, AdminUnlock
<1> QED  BY <1>3, <1>4, <1>5, <1>6, <1>7 DEF Next

\* Mail is expunged only as the session ends that was shown it and flagged it, be
\* it at its QUIT or in a crash inside of it: no mark of an earlier session, nor
\* one that RSET took back, is ever acted on.  That it is the user's own mail
\* follows with OwnMail as long as user databases can be attached.
THEOREM OnlyFlaggedExpunged ==
    ASSUME Faults \subseteq {"read", "attach", "mark", "delete", "unlock"}, ~LinesAfterClose,
           Unlocks # "any"
    PROVE  Spec => ExpungeOnlyFlagged
<1>1. TInv /\ OnlyUsersFlag /\ [Next]_vars => OnlyUsersFlag'
    BY FlagsStep
<1>2. TInv /\ OnlyUsersFlag /\ MarksFlagged /\ [Next]_vars => MarksFlagged'
    BY MarksFlaggedStep
<1>3. Spec => []LockInv
    BY Locked
<1>4. TInv /\ OnlyUsersFlag /\ LockInv /\ MarksFlagged /\ [Next]_vars =>
        [\A m \in Mails : box[m] # "expunged" /\ box'[m] = "expunged" =>
            \E c \in Conns : /\ sess[c].ok /\ m \in sess[c].flags
                              /\ ~sess'[c].ok]_vars
    BY ExpungeStep
<1> QED  BY <1>1, <1>2, <1>3, <1>4, FlagsInit, MarksFlaggedInit, Typed, PTL
         DEF Spec, ExpungeOnlyFlagged

-------------------------------------------------------------------------------
(* The service *)

(* The state of the service, as a function of the sessions. *)
HeldIn(S, c, u) == S[c].ok /\ S[c].user = u
HoldersIn(S) == [u \in Users |-> IF \E c \in Conns : HeldIn(S, c, u)
                                 THEN CHOOSE c \in Conns : HeldIn(S, c, u) ELSE None]
SeenIn(S) == [u \in Users |-> UNION {S[c].mails : c \in {d \in Conns : HeldIn(S, d, u)}}]
FlaggedIn(S) == [u \in Users |-> UNION {S[c].flags : c \in {d \in Conns : HeldIn(S, d, u)}}]

LEMMA Mapping ==
    /\ HoldersIn(sess) = [u \in Users |-> HolderOf(u)]
    /\ SeenIn(sess) = [u \in Users |-> UNION {sess[c].mails : c \in {d \in Conns : Holds(d, u)}}]
    /\ FlaggedIn(sess) = [u \in Users |-> UNION {sess[c].flags : c \in {d \in Conns : Holds(d, u)}}]
    /\ HoldersIn(sess') = [u \in Users |-> HolderOf(u)]'
    /\ SeenIn(sess') = [u \in Users |-> UNION {sess[c].mails : c \in {d \in Conns : Holds(d, u)}}]'
    /\ FlaggedIn(sess') = [u \in Users |-> UNION {sess[c].flags : c \in {d \in Conns : Holds(d, u)}}]'
BY DEF HoldersIn, SeenIn, FlaggedIn, HeldIn, HolderOf, Holds

LEMMA HeldBy ==
    ASSUME NEW S, NEW u \in Users, NEW c \in Conns, HeldIn(S, c, u),
           \A d \in Conns : HeldIn(S, d, u) => d = c
    PROVE  HoldersIn(S)[u] = c /\ SeenIn(S)[u] = S[c].mails /\ FlaggedIn(S)[u] = S[c].flags
<1>1. {d \in Conns : HeldIn(S, d, u)} = {c}
    OBVIOUS
<1>2. HoldersIn(S)[u] = c
    BY DEF HoldersIn
<1> QED  BY <1>1, <1>2 DEF SeenIn, FlaggedIn

LEMMA HeldByNone ==
    ASSUME NEW S, NEW u \in Users, \A d \in Conns : ~HeldIn(S, d, u)
    PROVE  HoldersIn(S)[u] = None /\ SeenIn(S)[u] = {} /\ FlaggedIn(S)[u] = {}
<1>1. {d \in Conns : HeldIn(S, d, u)} = {}
    OBVIOUS
<1> QED  BY <1>1 DEF HoldersIn, SeenIn, FlaggedIn

LEMMA OneHolder ==
    ASSUME LockInv, NEW u \in Users, NEW c \in Conns, NEW d \in Conns,
           HeldIn(sess, c, u), HeldIn(sess, d, u)
    PROVE  c = d
BY DEF LockInv, MutualExclusion, Holds, HeldIn

\* Nothing changes for u.
Same(u) ==
    /\ HoldersIn(sess')[u] = HoldersIn(sess)[u]
    /\ SeenIn(sess')[u] = SeenIn(sess)[u]
    /\ FlaggedIn(sess')[u] = FlaggedIn(sess)[u]

LEMMA SameWhen ==
    ASSUME LockInv, NEW u \in Users,
           \A d \in Conns : HeldIn(sess', d, u) <=> HeldIn(sess, d, u),
           \A d \in Conns : HeldIn(sess, d, u) =>
               sess'[d].mails = sess[d].mails /\ sess'[d].flags = sess[d].flags
    PROVE  Same(u)
<1>1. CASE \A d \in Conns : ~HeldIn(sess, d, u)
    BY <1>1, HeldByNone DEF Same
<1>2. ASSUME NEW c \in Conns, HeldIn(sess, c, u) PROVE Same(u)
    <2>1. HeldIn(sess', c, u) /\ \A d \in Conns : HeldIn(sess', d, u) => d = c
        BY <1>2, OneHolder
    <2>2. \A d \in Conns : HeldIn(sess, d, u) => d = c
        BY <1>2, OneHolder
    <2> QED  BY <1>2, <2>1, <2>2, HeldBy DEF Same
<1> QED  BY <1>1, <1>2

LEMMA Stutters ==
    ASSUME \A u \in Users : Same(u), UNCHANGED box
    PROVE  UNCHANGED Service!avars
<1>1. /\ HoldersIn(sess') = HoldersIn(sess) /\ SeenIn(sess') = SeenIn(sess)
      /\ FlaggedIn(sess') = FlaggedIn(sess)
    BY DEF Same, HoldersIn, SeenIn, FlaggedIn
<1> QED  BY <1>1, Mapping DEF Service!avars

\* A session that is as before for the service.
LEMMA SameSession ==
    ASSUME TInv, LockInv, NEW c \in Conns, NEW t, Becomes(c, t), t.ok = sess[c].ok,
           sess[c].ok => t.user = sess[c].user /\ t.mails = sess[c].mails /\ t.flags = sess[c].flags,
           NEW u \in Users
    PROVE  Same(u)
<1>1. \A d \in Conns : HeldIn(sess', d, u) <=> HeldIn(sess, d, u)
    BY SessionsAfter DEF HeldIn
<1>2. ASSUME NEW d \in Conns, HeldIn(sess, d, u)
      PROVE  sess'[d].mails = sess[d].mails /\ sess'[d].flags = sess[d].flags
    BY <1>2, SessionsAfter DEF HeldIn
<1> QED  BY <1>1, <1>2, SameWhen

\* A session of another user.
LEMMA OtherUser ==
    ASSUME TInv, LockInv, NEW c \in Conns, NEW t, Becomes(c, t),
           NEW u \in Users, ~HeldIn(sess, c, u), ~(t.ok /\ t.user = u)
    PROVE  Same(u)
<1>1. \A d \in Conns : HeldIn(sess', d, u) <=> HeldIn(sess, d, u)
    BY SessionsAfter DEF HeldIn
<1>2. ASSUME NEW d \in Conns, HeldIn(sess, d, u)
      PROVE  sess'[d].mails = sess[d].mails /\ sess'[d].flags = sess[d].flags
    BY <1>2, SessionsAfter
<1> QED  BY <1>1, <1>2, SameWhen

\* Sessions end: those of the users in S, of which those in C said QUIT.
LEMMA SessionsEnd ==
    ASSUME NEW S \in SUBSET Users, S # {}, NEW C \in SUBSET S,
           \A u \in S : HoldersIn(sess)[u] # None,
           \A u \in S : \A d \in Conns : ~HeldIn(sess', d, u),
           \A u \in Users \ S : Same(u),
           box' = [m \in Mails |->
                      IF \E u \in C : m \in FlaggedIn(sess)[u] THEN "expunged" ELSE box[m]]
    PROVE  Service!End(C, S)
<1>1. \A u \in S : /\ HoldersIn(sess')[u] = None /\ SeenIn(sess')[u] = {}
                   /\ FlaggedIn(sess')[u] = {}
    BY HeldByNone
<1>2. /\ HoldersIn(sess') = [u \in Users |-> IF u \in S THEN None ELSE HoldersIn(sess)[u]]
      /\ SeenIn(sess') = [u \in Users |-> IF u \in S THEN {} ELSE SeenIn(sess)[u]]
      /\ FlaggedIn(sess') = [u \in Users |-> IF u \in S THEN {} ELSE FlaggedIn(sess)[u]]
    <2>1. HoldersIn(sess') = [u \in Users |-> IF u \in S THEN None ELSE HoldersIn(sess)[u]]
        BY <1>1 DEF Same, HoldersIn
    <2>2. SeenIn(sess') = [u \in Users |-> IF u \in S THEN {} ELSE SeenIn(sess)[u]]
        BY <1>1 DEF Same, SeenIn
    <2>3. FlaggedIn(sess') = [u \in Users |-> IF u \in S THEN {} ELSE FlaggedIn(sess)[u]]
        BY <1>1 DEF Same, FlaggedIn
    <2> QED  BY <2>1, <2>2, <2>3
<1> QED  BY <1>2, Mapping DEF Service!End

ServiceInv == TInv /\ LockInv /\ ListingsOK /\ FlagsMarked /\ MarksFlagged

\* When a session ends that said QUIT, or did not.
LEMMA LeavingMaps ==
    ASSUME ServiceInv, NEW c \in Conns, Leaves(c), NEW quit \in BOOLEAN,
           box' = [m \in Mails |->
                     IF quit /\ sess[c].ok /\ m \in sess[c].flags THEN "expunged" ELSE box[m]]
    PROVE  Service!ANext \/ UNCHANGED Service!avars
<1>1. PICK t \in Session : Gone(sess[c], t) /\ Becomes(c, t)
    BY DEF Leaves
<1>2. TInv /\ LockInv /\ SessionOK(sess[c]) /\ box \in BoxType
    BY SessionAt, Types DEF ServiceInv
<1>3. CASE ~sess[c].ok
    <2>1. t.ok = sess[c].ok
        BY <1>1, <1>2, <1>3, SessionAt DEF Gone, Session
    <2>2. \A u \in Users : Same(u)
        BY <1>1, <1>2, <1>3, <2>1, SameSession
    <2>3. UNCHANGED box
        BY <1>2, <1>3 DEF BoxType
    <2> QED  BY <2>2, <2>3, Stutters
<1>4. CASE sess[c].ok
    <2>1. PICK u \in Users : u = sess[c].user /\ HeldIn(sess, c, u)
        BY <1>2, <1>4 DEF SessionOK, HeldIn
    <2>2. \A d \in Conns : HeldIn(sess, d, u) => d = c
        BY <1>2, <2>1, OneHolder
    <2>3. HoldersIn(sess)[u] = c /\ FlaggedIn(sess)[u] = sess[c].flags /\ c # None
        BY <2>1, <2>2, HeldBy, MaildropAssumption
    <2>4. \A d \in Conns : ~HeldIn(sess', d, u)
        BY <1>1, <1>2, <2>2, SessionsAfter DEF HeldIn, Gone
    <2>5. \A v \in Users \ {u} : Same(v)
        BY <1>1, <1>2, <2>1, OtherUser DEF Gone, HeldIn
    <2>6. PICK C \in SUBSET {u} : C = IF quit THEN {u} ELSE {}
        OBVIOUS
    <2>7. box' = [m \in Mails |->
                    IF \E v \in C : m \in FlaggedIn(sess)[v] THEN "expunged" ELSE box[m]]
        BY <1>4, <2>3, <2>6
    <2>8. Service!End(C, {u})
        BY <2>3, <2>4, <2>5, <2>6, <2>7, SessionsEnd
    <2> QED  BY <2>6, <2>8 DEF Service!ANext
<1> QED  BY <1>3, <1>4

\* When all of them end, one perhaps inside its QUIT.
LEMMA RebootMaps ==
    ASSUME ServiceInv, sess' = Rebooted, NEW Q \in SUBSET Conns,
           box' = [m \in Mails |->
                     IF \E c \in Q : sess[c].ok /\ m \in sess[c].flags THEN "expunged" ELSE box[m]]
    PROVE  Service!ANext \/ UNCHANGED Service!avars
<1>a. PICK S \in SUBSET Users : S = {u \in Users : \E c \in Conns : HeldIn(sess, c, u)}
    OBVIOUS
<1>b. PICK C \in SUBSET S : C = {u \in Users : \E c \in Q : HeldIn(sess, c, u)}
    BY <1>a
<1>1. TInv /\ LockInv /\ box \in BoxType /\ \A c \in Conns : SessionOK(sess[c])
    BY SessionAt, Types DEF ServiceInv
<1>2. \A u \in Users : \A d \in Conns : ~HeldIn(sess', d, u)
    BY Freshness DEF HeldIn, NewSession
<1>3. ASSUME NEW u \in Users \ S PROVE Same(u)
    <2>1. \A d \in Conns : ~HeldIn(sess, d, u)
        BY <1>3, <1>a
    <2> QED  BY <1>2, <2>1, HeldByNone DEF Same
<1>4. ASSUME NEW c \in Conns, NEW u \in Users, HeldIn(sess, c, u)
      PROVE  HoldersIn(sess)[u] = c /\ FlaggedIn(sess)[u] = sess[c].flags
    <2>1. \A d \in Conns : HeldIn(sess, d, u) => d = c
        BY <1>1, <1>4, OneHolder
    <2> QED  BY <1>4, <2>1, HeldBy
<1>5. \A u \in S : HoldersIn(sess)[u] # None
    BY <1>4, <1>a, MaildropAssumption
<1>6. box' = [m \in Mails |->
                 IF \E u \in C : m \in FlaggedIn(sess)[u] THEN "expunged" ELSE box[m]]
    <2>1. ASSUME NEW m \in Mails, NEW c \in Q, sess[c].ok, m \in sess[c].flags
          PROVE  \E u \in C : m \in FlaggedIn(sess)[u]
        <3>1. sess[c].user \in Users /\ HeldIn(sess, c, sess[c].user)
            BY <1>1, <2>1 DEF SessionOK, HeldIn
        <3> QED  BY <1>4, <1>b, <2>1, <3>1
    <2>2. ASSUME NEW m \in Mails, NEW u \in C, m \in FlaggedIn(sess)[u]
          PROVE  \E c \in Q : sess[c].ok /\ m \in sess[c].flags
        <3>1. PICK c \in Q : HeldIn(sess, c, u)
            BY <1>b
        <3> QED  BY <1>4, <2>2, <3>1 DEF HeldIn
    <2> QED  BY <2>1, <2>2
<1>7. CASE S = {}
    <2>1. UNCHANGED box
        BY <1>1, <1>6, <1>7 DEF BoxType
    <2> QED  BY <1>3, <1>7, <2>1, Stutters
<1>8. CASE S # {}
    <2>1. Service!End(C, S)
        BY <1>2, <1>3, <1>5, <1>6, <1>8, SessionsEnd
    <2> QED  BY <2>1 DEF Service!ANext
<1> QED  BY <1>7, <1>8

LEMMA LoginMaps ==
    ASSUME "lock" \notin Faults, "read" \notin Faults, ServiceInv,
           NEW c \in Conns, NEW u \in Users, LogsIn(c, u)
    PROVE  Service!Open(u, c)
<1>1. PICK t \in Session : Entered(sess[c], t, u) /\ Becomes(c, t)
    BY DEF LogsIn
<1>2. TInv /\ LockInv /\ ListingOK(sess[c]) /\ ~sess[c].ok /\ ~lock[u] /\ UNCHANGED box
    BY DEF ServiceInv, ListingsOK, LogsIn
<1>3. \A d \in Conns : ~HeldIn(sess, d, u)
    BY <1>2 DEF LockInv, HolderHasLock, Holds, HeldIn
<1>4. HoldersIn(sess)[u] = None /\ SeenIn(sess)[u] = {} /\ FlaggedIn(sess)[u] = {}
    BY <1>3, HeldByNone
<1>5. ASSUME NEW v \in Users PROVE HoldersIn(sess)[v] # c
    <2>1. CASE \A d \in Conns : ~HeldIn(sess, d, v)
        BY <2>1, HeldByNone, MaildropAssumption
    <2>2. ASSUME NEW d \in Conns, HeldIn(sess, d, v) PROVE HoldersIn(sess)[v] # c
        <3>1. \A e \in Conns : HeldIn(sess, e, v) => e = d
            BY <1>2, <2>2, OneHolder
        <3>2. HoldersIn(sess)[v] = d
            BY <2>2, <3>1, HeldBy
        <3> QED  BY <1>2, <2>2, <3>2 DEF HeldIn
    <2> QED  BY <2>1, <2>2
<1>6. /\ HoldersIn(sess')[u] = c /\ SeenIn(sess')[u] = t.mails /\ FlaggedIn(sess')[u] = t.flags
    <2>1. sess'[c] = t /\ HeldIn(sess', c, u)
        BY <1>1, <1>2, SessionsAfter DEF HeldIn, Entered
    <2>2. \A d \in Conns : HeldIn(sess', d, u) => d = c
        BY <1>1, <1>2, <1>3, SessionsAfter DEF HeldIn
    <2> QED  BY <2>1, <2>2, HeldBy
<1>7. t.flags = {} /\ t.mails = Service!MailsIn(u)
    <2>1. t.flags = {} /\ sess[c].mails = {}
        BY <1>1, <1>2 DEF Entered, ListingOK
    <2>2. t.mails = StoredIn(u, MasterMails) \cup StoredIn(u, UserDbMails)
        BY <1>1, <2>1 DEF Entered, Listings
    <2> QED  BY <2>1, <2>2, MaildropAssumption DEF StoredIn, MasterMails, Service!MailsIn
<1>8. \A v \in Users \ {u} : Same(v)
    BY <1>1, <1>2, OtherUser DEF Entered, HeldIn
<1>9. /\ HoldersIn(sess') = [HoldersIn(sess) EXCEPT ![u] = c]
      /\ SeenIn(sess') = [SeenIn(sess) EXCEPT ![u] = Service!MailsIn(u)]
      /\ FlaggedIn(sess') = FlaggedIn(sess)
    <2>1. HoldersIn(sess') = [HoldersIn(sess) EXCEPT ![u] = c]
        BY <1>6, <1>8 DEF Same, HoldersIn
    <2>2. SeenIn(sess') = [SeenIn(sess) EXCEPT ![u] = Service!MailsIn(u)]
        BY <1>6, <1>7, <1>8 DEF Same, SeenIn
    <2>3. FlaggedIn(sess') = FlaggedIn(sess)
        BY <1>4, <1>6, <1>7, <1>8 DEF Same, FlaggedIn
    <2> QED  BY <2>1, <2>2, <2>3
<1> QED  BY <1>2, <1>4, <1>5, <1>9, Mapping DEF Service!Open

LEMMA DeleteMaps ==
    ASSUME ServiceInv, NEW c \in Conns, NEW m \in Mails, Deletes(c, m)
    PROVE  Service!Flag(sess[c].user, m) /\ sess[c].user \in Users
<1>1. PICK t \in Session :
          /\ Becomes(c, t) /\ t.ok /\ t.user = sess[c].user /\ t.mails = sess[c].mails
          /\ t.flags = sess[c].flags \cup {m}
    BY DEF Deletes
<1>2. TInv /\ LockInv /\ SessionOK(sess[c]) /\ UNCHANGED box
      /\ sess[c].ok /\ m \in sess[c].mails \ sess[c].flags
    BY SessionAt DEF ServiceInv, Deletes
<1>3. PICK u \in Users : u = sess[c].user /\ HeldIn(sess, c, u)
    BY <1>2 DEF SessionOK, HeldIn
<1>4. \A d \in Conns : HeldIn(sess, d, u) => d = c
    BY <1>2, <1>3, OneHolder
<1>5. HoldersIn(sess)[u] = c /\ SeenIn(sess)[u] = sess[c].mails /\ FlaggedIn(sess)[u] = sess[c].flags
    BY <1>3, <1>4, HeldBy
<1>6. HoldersIn(sess')[u] = c /\ SeenIn(sess')[u] = t.mails /\ FlaggedIn(sess')[u] = t.flags
    <2>1. sess'[c] = t /\ HeldIn(sess', c, u)
        BY <1>1, <1>2, <1>3, SessionsAfter DEF HeldIn
    <2>2. \A d \in Conns : HeldIn(sess', d, u) => d = c
        BY <1>1, <1>2, <1>4, SessionsAfter DEF HeldIn
    <2> QED  BY <2>1, <2>2, HeldBy
<1>7. \A v \in Users \ {u} : Same(v)
    BY <1>1, <1>2, <1>3, OtherUser DEF HeldIn
<1>8. HoldersIn(sess') = HoldersIn(sess)
    BY <1>5, <1>6, <1>7 DEF Same, HoldersIn
<1>9. SeenIn(sess') = SeenIn(sess)
    BY <1>1, <1>5, <1>6, <1>7 DEF Same, SeenIn
<1>10. FlaggedIn(sess') = [FlaggedIn(sess) EXCEPT ![u] = @ \cup {m}]
    <2> DEFINE g == FlaggedIn(sess)
               h == FlaggedIn(sess')
    <2>1. g = [v \in Users |-> g[v]] /\ h = [v \in Users |-> h[v]]
        BY DEF FlaggedIn
    <2>2. h[u] = g[u] \cup {m}
        BY <1>1, <1>5, <1>6
    <2>3. \A v \in Users \ {u} : h[v] = g[v]
        BY <1>7 DEF Same
    <2> HIDE DEF g, h
    <2>4. h = [g EXCEPT ![u] = @ \cup {m}]
        BY <2>1, <2>2, <2>3
    <2> QED  BY <2>4 DEF g, h
<1>11. HoldersIn(sess)[u] # None /\ m \in SeenIn(sess)[u] \ FlaggedIn(sess)[u]
    BY <1>2, <1>5, MaildropAssumption
<1>12. Service!Flag(u, m)
    BY <1>2, <1>8, <1>9, <1>10, <1>11, Mapping, Zenon DEF Service!Flag
<1> QED  BY <1>3, <1>12

LEMMA ResetMaps ==
    ASSUME ServiceInv, NEW c \in Conns, Resets(c)
    PROVE  Service!ANext \/ UNCHANGED Service!avars
<1>1. PICK t \in Session :
          /\ Becomes(c, t) /\ t.ok = sess[c].ok /\ t.user = sess[c].user
          /\ t.mails = sess[c].mails /\ t.flags = {}
    BY DEF Resets
<1>2. TInv /\ LockInv /\ SessionOK(sess[c]) /\ UNCHANGED box
    BY SessionAt DEF ServiceInv, Resets
<1>3. CASE ~sess[c].ok
    BY <1>1, <1>2, <1>3, SameSession, Stutters
<1>4. CASE sess[c].ok
    <2>1. PICK u \in Users : u = sess[c].user /\ HeldIn(sess, c, u)
        BY <1>2, <1>4 DEF SessionOK, HeldIn
    <2>2. \A d \in Conns : HeldIn(sess, d, u) => d = c
        BY <1>2, <2>1, OneHolder
    <2>3. HoldersIn(sess)[u] = c /\ SeenIn(sess)[u] = sess[c].mails
        BY <2>1, <2>2, HeldBy
    <2>4. HoldersIn(sess')[u] = c /\ SeenIn(sess')[u] = t.mails /\ FlaggedIn(sess')[u] = t.flags
        <3>1. sess'[c] = t /\ HeldIn(sess', c, u)
            BY <1>1, <1>2, <1>4, <2>1, SessionsAfter DEF HeldIn
        <3>2. \A d \in Conns : HeldIn(sess', d, u) => d = c
            BY <1>1, <1>2, <2>2, SessionsAfter DEF HeldIn
        <3> QED  BY <3>1, <3>2, HeldBy
    <2>5. \A v \in Users \ {u} : Same(v)
        BY <1>1, <1>2, <2>1, OtherUser DEF HeldIn
    <2>6. HoldersIn(sess') = HoldersIn(sess)
        BY <2>3, <2>4, <2>5 DEF Same, HoldersIn
    <2>7. SeenIn(sess') = SeenIn(sess)
        BY <1>1, <2>3, <2>4, <2>5 DEF Same, SeenIn
    <2>8. FlaggedIn(sess') = [FlaggedIn(sess) EXCEPT ![u] = {}]
        BY <1>1, <2>4, <2>5 DEF Same, FlaggedIn
    <2>9. HoldersIn(sess)[u] # None
        BY <2>3, MaildropAssumption
    <2>10. Service!Unflag(u)
        BY <1>2, <2>6, <2>7, <2>8, <2>9, Mapping, Zenon DEF Service!Unflag
    <2> QED  BY <2>10 DEF Service!ANext
<1> QED  BY <1>3, <1>4

LEMMA MovesMap ==
    ASSUME Faults \subseteq {"unlock"}, ServiceInv, NEW c \in Conns, Moves(c)
    PROVE  Service!ANext \/ UNCHANGED Service!avars
<1>1. /\ TInv /\ LockInv /\ box \in BoxType /\ sess[c] \in Session
      /\ ListingOK(sess[c]) /\ MarkOK(sess[c])
    BY SessionAt, Types DEF ServiceInv, ListingsOK, MarksFlagged
<1>2. CASE Idles(c)
    <2>1. PICK t \in Session : Like(sess[c], t) /\ Becomes(c, t) /\ UNCHANGED box
        BY <1>2 DEF Idles
    <2>2. \A u \in Users : Same(u)
        BY <1>1, <2>1, SameSession DEF Like
    <2> QED  BY <2>1, <2>2, Stutters
<1>3. CASE Drops(c)
    <2>1. box' = [m \in Mails |->
                    IF FALSE /\ sess[c].ok /\ m \in sess[c].flags THEN "expunged" ELSE box[m]]
        BY <1>1, <1>3 DEF Drops, BoxType
    <2>2. Leaves(c)
        BY <1>3 DEF Drops
    <2> QED  BY <2>1, <2>2, LeavingMaps
<1>4. CASE Quits(c)
    <2>1. PICK D \in Doomed(sess[c]) : Expunge(D)
        BY <1>4 DEF Quits
    <2>2. D = DoomedInMaster(sess[c]) \cup DoomedInUserDb(sess[c])
        BY <2>1 DEF Doomed
    <2>3. ASSUME NEW m \in D PROVE sess[c].ok /\ m \in sess[c].flags
        BY <1>4, DoomedIsFlagged, ListingsFlag DEF ServiceInv, Quits, Holds
    <2>4. ASSUME sess[c].ok, NEW m \in sess[c].flags PROVE m \in D
        BY <2>2, <2>4, FlaggedIsDoomed DEF ServiceInv
    <2>5. box' = [m \in Mails |->
                    IF TRUE /\ sess[c].ok /\ m \in sess[c].flags THEN "expunged" ELSE box[m]]
        BY <2>1, <2>3, <2>4 DEF Expunge
    <2>6. Leaves(c)
        BY <1>4 DEF Quits
    <2> QED  BY <2>5, <2>6, LeavingMaps
<1>5. ~LoginFails(c) /\ ~ResetFails(c)
    BY DEF LoginFails, ResetFails
<1>6. CASE Accepts(c)
    <2>1. PICK t : Becomes(c, t) /\ t.ok = FALSE /\ UNCHANGED box
        BY <1>6 DEF Accepts, NewSession
    <2>2. sess[c].ok = FALSE
        BY <1>1, <1>6 DEF Accepts, MarkOK, Session
    <2>3. \A u \in Users : Same(u)
        BY <1>1, <2>1, <2>2, SameSession
    <2> QED  BY <2>1, <2>3, Stutters
<1>7. CASE Resets(c)
    BY <1>7, ResetMaps
<1>8. ASSUME NEW u \in Users, LogsIn(c, u) PROVE Service!ANext
    BY <1>8, LoginMaps DEF Service!ANext
<1>9. ASSUME NEW m \in Mails, Deletes(c, m) PROVE Service!ANext
    <2>1. PICK u \in Users : u = sess[c].user /\ Service!Flag(u, m)
        BY <1>9, DeleteMaps
    <2> QED  BY <2>1 DEF Service!ANext
<1> QED  BY <1>2, <1>3, <1>4, <1>5, <1>6, <1>7, <1>8, <1>9 DEF Moves

LEMMA CrashMaps ==
    ASSUME Faults \subseteq {"unlock"}, MayCrash => UserDbMails = {}, ServiceInv, Crash
    PROVE  Service!ANext \/ UNCHANGED Service!avars
<1>1. sess' = Rebooted /\ UserDbMails = {} /\ box \in BoxType
    BY Types DEF Crash, ServiceInv
<1>2. CASE UNCHANGED box
    <2>1. box' = [m \in Mails |->
                    IF \E c \in {} : sess[c].ok /\ m \in sess[c].flags
                    THEN "expunged" ELSE box[m]]
        BY <1>1, <1>2 DEF BoxType
    <2> QED  BY <1>1, <2>1, RebootMaps
<1>3. ASSUME NEW c \in Conns, Line(c, "TRANSACTION"),
             NEW D \in Doomed(sess[c]) \cup {DoomedInMaster(sess[c])}, Expunge(D)
      PROVE  Service!ANext \/ UNCHANGED Service!avars
    <2>1. \A m \in D : sess[c].ok /\ m \in sess[c].flags
        BY <1>3, DoomedIsFlagged, ListingsFlag DEF ServiceInv, Holds, Line
    <2>2. ASSUME sess[c].ok, NEW m \in sess[c].flags PROVE m \in D
        <3>1. m \in DoomedInMaster(sess[c])
            BY <1>1, <2>2, FlaggedIsDoomed DEF ServiceInv
        <3> QED  BY <3>1 DEF Doomed
    <2>3. PICK Q \in SUBSET Conns : Q = {c}
        OBVIOUS
    <2>4. box' = [m \in Mails |->
                    IF \E d \in Q : sess[d].ok /\ m \in sess[d].flags
                    THEN "expunged" ELSE box[m]]
        BY <1>3, <2>1, <2>2, <2>3 DEF Expunge
    <2> QED  BY <1>1, <2>4, RebootMaps
<1> QED  BY <1>2, <1>3 DEF Crash

LEMMA NextMaps ==
    ASSUME Faults \subseteq {"unlock"}, MayCrash => UserDbMails = {}, ServiceInv, [Next]_vars
    PROVE  [Service!ANext]_Service!avars
<1>1. ASSUME UNCHANGED sess PROVE \A u \in Users : Same(u)
    BY <1>1 DEF Same
<1>2. ASSUME NEW c \in Conns, Connection(c) \/ AuthLine(c) \/ TransactionLine(c)
      PROVE  Service!ANext \/ UNCHANGED Service!avars
    BY <1>2, StepMoves, MovesMap DEF ServiceInv
<1>3. ASSUME NEW m \in Mails, Deliver(m)
      PROVE  Service!ANext
    <2>1. /\ HoldersIn(sess') = HoldersIn(sess) /\ SeenIn(sess') = SeenIn(sess)
          /\ FlaggedIn(sess') = FlaggedIn(sess)
        BY <1>3 DEF Deliver
    <2>2. Service!Arrive(m)
        BY <1>3, <2>1, Mapping, Zenon DEF Deliver, Service!Arrive
    <2> QED  BY <2>2 DEF Service!ANext
<1>4. CASE (\E u \in Users : AdminUnlock(u)) \/ UNCHANGED vars
    BY <1>1, <1>4, Stutters DEF AdminUnlock, vars
<1>5. CASE Shutdown
    <2>1. box \in BoxType
        BY Types DEF ServiceInv
    <2>2. /\ sess' = Rebooted
          /\ box' = [m \in Mails |->
                       IF \E c \in {} : sess[c].ok /\ m \in sess[c].flags
                       THEN "expunged" ELSE box[m]]
        BY <1>5, <2>1 DEF Shutdown, BoxType
    <2> QED  BY <2>2, RebootMaps
<1>6. CASE Crash
    BY <1>6, CrashMaps
<1> QED  BY <1>2, <1>3, <1>4, <1>5, <1>6 DEF Next

LEMMA InitMaps == Init => Service!AInit
<1> SUFFICES ASSUME Init PROVE Service!AInit
    OBVIOUS
<1>1. \A u \in Users, c \in Conns : ~HeldIn(sess, c, u)
    BY DEF Init, NewSession, HeldIn
<1>2. /\ HoldersIn(sess) = [u \in Users |-> None] /\ SeenIn(sess) = [u \in Users |-> {}]
      /\ FlaggedIn(sess) = [u \in Users |-> {}]
    <2>1. \A u \in Users : /\ HoldersIn(sess)[u] = None /\ SeenIn(sess)[u] = {}
                           /\ FlaggedIn(sess)[u] = {}
        BY <1>1, HeldByNone
    <2> QED  BY <2>1 DEF HoldersIn, SeenIn, FlaggedIn
<1>3. box = [m \in Mails |-> "unsent"]
    BY DEF Init
<1> QED  BY <1>2, <1>3, Mapping DEF Service!AInit

(* The sessions of cmail-popd implement the service: a maildrop is open in  *)
(* one connection at most, which is shown all of it, and what it flags is   *)
(* expunged at its QUIT, all at once, or not at all.  This holds as long as *)
(* the statements on locks, listings and marks work, clients send nothing   *)
(* behind their QUIT, and maildrops are not unlocked while they are open;   *)
(* crashes keep it when there is one database to delete from.               *)
THEOREM Implements ==
    ASSUME Faults \subseteq {"unlock"}, ~LinesAfterClose, Unlocks # "any",
           MayCrash => UserDbMails = {}
    PROVE  Spec => ImplementsService
<1>1. TInv /\ ListingsOK /\ [Next]_vars => ListingsOK'
    BY ListingStep
<1>2. TInv /\ ListingsOK /\ LockInv /\ FlagsMarked /\ [Next]_vars => FlagsMarked'
    BY FlagsMarkedStep
<1>3. TInv /\ ListingsOK /\ MarksFlagged /\ [Next]_vars => MarksFlagged'
    BY MarksFlaggedStep, ListingsFlag
<1>4. Spec => []LockInv
    BY Locked
<1>5. Init => FlagsMarked
    BY DEF Init, NewSession, FlagsMarked
<1>6. ServiceInv <=> TInv /\ LockInv /\ ListingsOK /\ FlagsMarked /\ MarksFlagged
    BY DEF ServiceInv
<1>7. ServiceInv /\ [Next]_vars => [Service!ANext]_Service!avars
    BY NextMaps
<1> QED  BY <1>1, <1>2, <1>3, <1>4, <1>5, <1>6, <1>7, ListingInit, MarksFlaggedInit, Typed,
            InitMaps, PTL DEF Spec, ImplementsService, Service!ASpec
===============================================================================
