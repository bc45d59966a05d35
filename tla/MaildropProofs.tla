---------------------------- MODULE MaildropProofs ----------------------------
(***************************************************************************)
(* Proofs about Maildrop for any number of connections, users and mails.   *)
(***************************************************************************)
EXTENDS Maildrop, TLAPS

(* A session that is logged in is in TRANSACTION and knows its user; one    *)
(* that has been closed in TRANSACTION, and whose client goes on sending,   *)
(* has no mails left for DELE to mark.                                      *)
SessionOK(s) ==
    /\ s.ok => s.state = "TRANSACTION" /\ s.named /\ s.user \in Users
    /\ s.state = "TRANSACTION" /\ ~s.ok => s.mails = {}
SessionsOK == \A c \in Conns : SessionOK(sess[c])

TInv == TypeOK /\ SessionsOK

-------------------------------------------------------------------------------
(* What the helpers make of a session *)

LEMMA NewSessionOK ==
    ASSUME NEW o \in BOOLEAN, NEW mode \in TlsModes
    PROVE  NewSession(o, mode) \in Session /\ SessionOK(NewSession(o, mode))
BY DEF NewSession, Session, SessionOK

LEMMA AuthResetType ==
    ASSUME NEW s \in Session
    PROVE  AuthReset(s) \in Session /\ ~AuthReset(s).ok
           /\ AuthReset(s).state = s.state /\ AuthReset(s).mails = s.mails
BY DEF AuthReset, Session

LEMMA ClosedOK ==
    ASSUME NEW s \in Session, SessionOK(s)
    PROVE  Closed(s) \in Session /\ SessionOK(Closed(s)) /\ ~Closed(s).ok
<1> DEFINE a == AuthReset(s)
           r == [a EXCEPT !.open = FALSE, !.tls = "NONE"]
           e == [r EXCEPT !.mails = {}, !.flags = {}, !.udb = None, !.umarks = {}]
<1>1. r \in Session /\ ~r.ok /\ r.state = s.state /\ r.mails = s.mails
    <2>1. a \in Session /\ ~a.ok /\ a.state = s.state /\ a.mails = s.mails
        BY AuthResetType
    <2> HIDE DEF a
    <2>2. r \in Session
        BY <2>1 DEF Session, TlsModes
    <2>3. r.ok = a.ok /\ r.state = a.state /\ r.mails = a.mails
        BY <2>1 DEF Session
    <2> QED  BY <2>1, <2>2, <2>3
<1>2. e \in Session /\ ~e.ok /\ e.mails = {}
    BY <1>1 DEF Session
<1>3. Closed(s) = IF Holding(s) THEN e ELSE r
    BY DEF Closed
<1> HIDE DEF r, e
<1>4. CASE Holding(s)
    BY <1>2, <1>3, <1>4 DEF SessionOK
<1>5. CASE ~Holding(s)
    BY <1>1, <1>3, <1>5 DEF SessionOK, Holding
<1> QED  BY <1>4, <1>5

LEMMA ScoredOK ==
    ASSUME NEW s \in Session, SessionOK(s)
    PROVE  [s EXCEPT !.score = @ - 1] \in Session /\ SessionOK([s EXCEPT !.score = @ - 1])
BY DEF Session, SessionOK

LEMMA ListingsType ==
    ASSUME NEW S \in SUBSET Mails, NEW M \in Listings(S)
    PROVE  M \in SUBSET Mails
BY DEF Listings

\* A login in the making.
LoggedIn(s, u) == [s EXCEPT !.sasl = FALSE, !.named = TRUE, !.ok = TRUE, !.user = u]

LEMMA LoggedInType ==
    ASSUME NEW s \in Session, NEW u \in Users
    PROVE  LET in == LoggedIn(s, u)
           IN  in \in Session /\ in.ok /\ in.named /\ in.user = u /\ in.state = s.state
BY DEF Session, LoggedIn

LEMMA ListedType ==
    ASSUME NEW s \in Session, NEW M \in SUBSET Mails, NEW db \in Users \cup {None}
    PROVE  LET t == Listed(s, M, db)
           IN  t \in Session /\ t.ok = s.ok /\ t.named = s.named /\ t.user = s.user
               /\ t.state = s.state
BY DEF Listed, Session

LEMMA AttachedType ==
    ASSUME NEW s \in Session, NEW u \in Users, NEW t \in Attached(s, u)
    PROVE  t \in Session /\ t.ok = s.ok /\ t.named = s.named /\ t.user = s.user
<1>1. PICK M \in Listings(StoredIn(u, MasterMails)), U \in Listings(StoredIn(u, UserDbMails)) :
          t = Listed(s, M \cup U, IF u \in HasUserDb THEN u ELSE s.udb)
    BY DEF Attached
<1>2. M \cup U \in SUBSET Mails
    BY ListingsType, MaildropAssumption DEF StoredIn, MasterMails
<1>3. (IF u \in HasUserDb THEN u ELSE s.udb) \in Users \cup {None}
    BY DEF Session
<1> QED  BY <1>1, <1>2, <1>3, ListedType

LEMMA AttachFailedType ==
    ASSUME NEW s \in Session, NEW u \in Users, NEW t \in AttachFailed(s, u)
    PROVE  t \in Session /\ t.state = s.state
<1>1. CASE \E M \in {{}} \cup Listings(StoredIn(u, MasterMails)),
              db \in {s.udb, None} \cup ({u} \cap HasUserDb) : t = Listed(s, M, db)
    <2>1. PICK M \in {{}} \cup Listings(StoredIn(u, MasterMails)),
               db \in {s.udb, None} \cup ({u} \cap HasUserDb) : t = Listed(s, M, db)
        BY <1>1
    <2>2. M \in SUBSET Mails
        BY ListingsType DEF StoredIn, MasterMails
    <2>3. db \in Users \cup {None}
        BY DEF Session
    <2> QED  BY <2>1, <2>2, <2>3, ListedType
<1>2. CASE \E U \in Listings(StoredIn(u, UserDbMails)), db \in {u} \cap HasUserDb :
              t = Listed(s, U, db)
    <2>1. PICK U \in Listings(StoredIn(u, UserDbMails)), db \in {u} \cap HasUserDb :
              t = Listed(s, U, db)
        BY <1>2
    <2>2. U \in SUBSET Mails
        BY ListingsType, MaildropAssumption DEF StoredIn
    <2> QED  BY <2>1, <2>2, ListedType
<1> QED  BY <1>1, <1>2 DEF AttachFailed

-------------------------------------------------------------------------------
(* Steps keep the types *)

BoxType == [Mails -> {"unsent", "stored", "expunged"}]
ActiveType == Conns \cup {None}

\* One session changes, and no more than types of the rest.
LEMMA OneSession ==
    ASSUME TInv, NEW c \in Conns, NEW s \in Session, SessionOK(s),
           sess' = [sess EXCEPT ![c] = s],
           lock' \in [Users -> BOOLEAN], marks' \in SUBSET (Users \X Mails),
           box' \in BoxType, active' \in ActiveType
    PROVE  TInv'
<1>1. sess' \in [Conns -> Session]
    BY DEF TInv, TypeOK
<1>2. \A d \in Conns : SessionOK(sess'[d])
    BY DEF TInv, TypeOK, SessionsOK
<1> QED  BY <1>1, <1>2 DEF TInv, TypeOK, SessionsOK, SessionOK, BoxType, ActiveType

LEMMA ReleaseType ==
    ASSUME TInv, NEW u \in Users, Release(u)
    PROVE  lock' \in [Users -> BOOLEAN] /\ marks' \in SUBSET (Users \X Mails)
BY DEF TInv, TypeOK, Release, Unmarked

LEMMA CloseConnTyped ==
    ASSUME TInv, NEW c \in Conns, NEW s \in Session, SessionOK(s), CloseConn(c, s),
           box' \in BoxType, active' \in ActiveType
    PROVE  TInv'
<1>1. lock' \in [Users -> BOOLEAN] /\ marks' \in SUBSET (Users \X Mails)
    BY ReleaseType DEF CloseConn, Holding, SessionOK, TInv, TypeOK
<1>2. sess' = [sess EXCEPT ![c] = Closed(s)]
    BY DEF CloseConn
<1> QED  BY <1>1, <1>2, ClosedOK, OneSession

LEMMA StayTyped ==
    ASSUME TInv, NEW c \in Conns, NEW s \in Session, SessionOK(s), Stay(c, s)
    PROVE  TInv'
BY OneSession DEF Stay, TInv, TypeOK, BoxType, ActiveType

LEMMA RejectTyped ==
    ASSUME TInv, NEW c \in Conns, NEW s \in Session, SessionOK(s), Reject(c, s)
    PROVE  TInv'
<1>1. box' \in BoxType
    BY DEF Reject, TInv, TypeOK, BoxType
<1>2. CASE s.score - 1 < FailLimit
    BY <1>1, <1>2, CloseConnTyped DEF Reject, ActiveType
<1>3. CASE ~(s.score - 1 < FailLimit)
    BY <1>1, <1>3, ScoredOK, OneSession DEF Reject, ActiveType, TInv, TypeOK
<1> QED  BY <1>2, <1>3

LEMMA AcquireTyped ==
    ASSUME TInv, NEW c \in Conns, NEW s \in Session, s.state = "AUTH",
           NEW u \in Users, Acquire(c, s, u)
    PROVE  TInv'
<1> DEFINE in == LoggedIn(s, u)
<1>1. in \in Session /\ in.ok /\ in.named /\ in.user = u /\ in.state = "AUTH"
    BY LoggedInType
<1>2. /\ lock' \in [Users -> BOOLEAN] /\ marks' \in SUBSET (Users \X Mails)
      /\ box' \in BoxType /\ active' \in ActiveType
    BY DEF Acquire, TInv, TypeOK, BoxType, ActiveType
<1>3. PICK n : /\ sess' = [sess EXCEPT ![c] = n]
               /\ \/ n = AuthReset(in)
                  \/ \E t \in Attached(in, u) :
                        n = [t EXCEPT !.state = "TRANSACTION", !.score = @ + 1]
                  \/ \E t \in AttachFailed(in, u) : n = AuthReset(t)
    BY DEF Acquire, LoggedIn
<1> HIDE DEF in
<1>4. ASSUME n = AuthReset(in)
      PROVE  n \in Session /\ SessionOK(n)
    <2>1. n \in Session /\ ~n.ok /\ n.state = "AUTH"
        BY <1>1, <1>4, AuthResetType
    <2> QED  BY <2>1 DEF SessionOK
<1>5. ASSUME NEW t \in Attached(in, u), n = [t EXCEPT !.state = "TRANSACTION", !.score = @ + 1]
      PROVE  n \in Session /\ SessionOK(n)
    <2>1. t \in Session /\ t.ok /\ t.named /\ t.user = u
        BY <1>1, AttachedType
    <2>. DEFINE sc == t.score + 1
    <2>. sc \in Int
        BY <2>1 DEF Session
    <2>. n = [t EXCEPT !.state = "TRANSACTION", !.score = sc]
        BY <1>5
    <2>. HIDE DEF sc
    <2>2. n \in Session /\ n.ok = t.ok /\ n.named = t.named /\ n.user = t.user
          /\ n.state = "TRANSACTION"
        BY <2>1 DEF Session
    <2> QED  BY <2>1, <2>2 DEF SessionOK
<1>6. ASSUME NEW t \in AttachFailed(in, u), n = AuthReset(t)
      PROVE  n \in Session /\ SessionOK(n)
    BY <1>1, <1>6, AttachFailedType, AuthResetType DEF SessionOK
<1>7. n \in Session /\ SessionOK(n)
    BY <1>3, <1>4, <1>5, <1>6
<1> QED  BY <1>2, <1>3, <1>7, OneSession

LEMMA CredentialsTyped ==
    ASSUME TInv, NEW c \in Conns, NEW s \in Session, s.state = "AUTH", Credentials(c, s)
    PROVE  TInv'
BY AuthResetType, RejectTyped, AcquireTyped DEF Credentials, SessionOK

-------------------------------------------------------------------------------
(* Type correctness *)

LEMMA SessionAt ==
    ASSUME TInv, NEW c \in Conns
    PROVE  sess[c] \in Session /\ SessionOK(sess[c])
BY DEF TInv, TypeOK, SessionsOK

LEMMA Types == TInv => lock \in [Users -> BOOLEAN] /\ marks \in SUBSET (Users \X Mails)
                       /\ box \in BoxType /\ active \in ActiveType
BY DEF TInv, TypeOK, BoxType, ActiveType

LEMMA RebootTyped ==
    ASSUME TInv, lock' \in [Users -> BOOLEAN], box' \in BoxType, active' \in ActiveType,
           marks' = {}, sess' = Rebooted
    PROVE  TInv'
<1>1. \A c \in Conns : sess'[c] \in Session /\ SessionOK(sess'[c])
    BY NewSessionOK DEF Rebooted, TlsModes
<1>2. sess' \in [Conns -> Session]
    BY <1>1 DEF Rebooted
<1> QED  BY <1>1, <1>2 DEF TInv, TypeOK, SessionsOK, SessionOK, BoxType, ActiveType

LEMMA ConnectionTyped ==
    ASSUME TInv, NEW c \in Conns, Connection(c)
    PROVE  TInv'
<1>1. CASE Accept(c)
    BY <1>1, Types, NewSessionOK, OneSession DEF Accept, TlsModes
<1>2. CASE Handshake(c)
    <2> DEFINE s == [sess[c] EXCEPT !.tls = "ONLY"]
    <2>1. s \in Session /\ SessionOK(s)
        BY SessionAt DEF Session, SessionOK, TlsModes
    <2>2. sess' = [sess EXCEPT ![c] = s]
        BY <1>2 DEF Handshake
    <2> QED  BY <1>2, <2>1, <2>2, Types, OneSession DEF Handshake
<1>3. CASE HangUp(c)
    BY <1>3, Types, SessionAt, CloseConnTyped DEF HangUp
<1>4. CASE Timeout(c)
    BY <1>4, Types, SessionAt, CloseConnTyped DEF Timeout
<1>5. CASE EndBatch(c)
    BY <1>5 DEF EndBatch, TInv, TypeOK, SessionsOK, SessionOK
<1> QED  BY <1>1, <1>2, <1>3, <1>4, <1>5 DEF Connection

LEMMA AuthLineTyped ==
    ASSUME TInv, NEW c \in Conns, AuthLine(c)
    PROVE  TInv'
<1> DEFINE s == sess[c]
<1>1. s \in Session /\ SessionOK(s)
    BY SessionAt
<1>2. s.state = "AUTH" /\ ~s.ok
    BY <1>1 DEF AuthLine, UserCmd, PassCmd, AuthCmd, SaslLine, Stls, AuthOther,
                QuitInAuth, Line, SessionOK
<1>3. CASE UserCmd(c)
    <2> DEFINE t == [s EXCEPT !.method = "USER", !.named = TRUE]
    <2>1. t \in Session /\ SessionOK(t)
        BY <1>1, <1>2 DEF Session, SessionOK
    <2> QED  BY <1>1, <1>3, <2>1, StayTyped, RejectTyped DEF UserCmd
<1>4. CASE PassCmd(c)
    BY <1>1, <1>2, <1>4, RejectTyped, CredentialsTyped DEF PassCmd
<1>5. CASE AuthCmd(c)
    <2> DEFINE t == [s EXCEPT !.method = "SASL", !.named = FALSE, !.user = None]
               i == [t EXCEPT !.sasl = TRUE]
    <2>1. t \in Session /\ ~t.ok /\ t.state = "AUTH"
        BY <1>1, <1>2 DEF Session
    <2>2. i \in Session /\ ~i.ok /\ i.state = "AUTH"
        BY <2>1 DEF Session
    <2>3. Reject(c, AuthReset(t)) \/ Stay(c, i) \/ Credentials(c, i)
        BY <1>5 DEF AuthCmd
    <2> HIDE DEF t, i
    <2>4. SessionOK(i) /\ SessionOK(AuthReset(t)) /\ AuthReset(t) \in Session
        BY <2>1, <2>2, AuthResetType DEF SessionOK
    <2> QED  BY <2>2, <2>3, <2>4, RejectTyped, StayTyped, CredentialsTyped
<1>6. CASE SaslLine(c)
    <2>1. SessionOK(AuthReset(s)) /\ AuthReset(s) \in Session
        BY <1>1, <1>2, AuthResetType DEF SessionOK
    <2> QED  BY <1>1, <1>2, <1>6, <2>1, RejectTyped, StayTyped, CredentialsTyped DEF SaslLine
<1>7. CASE Stls(c)
    <2> DEFINE t == [s EXCEPT !.tls = "NEGOTIATE"]
    <2>1. t \in Session /\ SessionOK(t)
        BY <1>1, <1>2 DEF Session, SessionOK, TlsModes
    <2> QED  BY <1>1, <1>7, <2>1, StayTyped, RejectTyped DEF Stls
<1>8. CASE AuthOther(c)
    BY <1>1, <1>8, StayTyped, RejectTyped DEF AuthOther
<1>9. CASE QuitInAuth(c)
    BY <1>1, <1>9, Types, CloseConnTyped DEF QuitInAuth, ActiveType
<1> QED  BY <1>3, <1>4, <1>5, <1>6, <1>7, <1>8, <1>9 DEF AuthLine

LEMMA ExpungeType ==
    ASSUME TInv, NEW D, Expunge(D)
    PROVE  box' \in BoxType
BY DEF Expunge, TInv, TypeOK, BoxType

LEMMA TransactionLineTyped ==
    ASSUME TInv, NEW c \in Conns, TransactionLine(c)
    PROVE  TInv'
<1> DEFINE s == sess[c]
<1>1. s \in Session /\ SessionOK(s)
    BY SessionAt
<1>2. s.state = "TRANSACTION"
    BY DEF TransactionLine, Dele, Inspect, Rset, TransactionOther, Quit, Line
<1>3. ASSUME NEW m \in Mails, Dele(c, m)
      PROVE  TInv'
    <2> DEFINE t == [s EXCEPT !.flags = @ \cup {m}]
               mark == <<s.user, m>>
               v == [t EXCEPT !.umarks = @ \cup {mark}]
    <2>1. CASE m \notin s.mails \/ m \in s.flags
        BY <1>1, <1>3, <2>1, RejectTyped DEF Dele
    <2>2. CASE m \in s.mails /\ m \notin s.flags
        <3>1. s.ok /\ mark \in Users \X Mails
            BY <1>1, <1>2, <2>2 DEF SessionOK
        <3>2. s.flags \cup {m} \in SUBSET Mails
            BY <1>1 DEF Session
        <3>3. t \in Session /\ SessionOK(t) /\ t.umarks = s.umarks
            BY <1>1, <3>1, <3>2 DEF Session, SessionOK
        <3>4. s.umarks \cup {mark} \in SUBSET (Users \X Mails)
            BY <1>1, <3>1 DEF Session
        <3>5. v = [t EXCEPT !.umarks = s.umarks \cup {mark}]
            BY <3>3
        <3>6. /\ box' = box /\ lock' = lock /\ active' = c
              /\ \/ sess' = [sess EXCEPT ![c] = v] /\ marks' = marks
                 \/ sess' = [sess EXCEPT ![c] = t] /\ marks' = marks \cup {mark}
                 \/ sess' = [sess EXCEPT ![c] = t] /\ marks' = marks
            BY <1>3, <2>2 DEF Dele
        <3> HIDE DEF t, mark
        <3>7. v \in Session /\ SessionOK(v)
            BY <3>3, <3>4, <3>5 DEF Session, SessionOK
        <3>8. marks' \in SUBSET (Users \X Mails) /\ active' \in ActiveType
            BY <3>1, <3>6, Types DEF ActiveType
        <3> QED  BY <3>3, <3>6, <3>7, <3>8, Types, OneSession
    <2> QED  BY <2>1, <2>2
<1>4. ASSUME NEW m \in Mails, Inspect(c, m)
      PROVE  TInv'
    BY <1>1, <1>4, StayTyped, RejectTyped DEF Inspect
<1>5. CASE Rset(c)
    <2> DEFINE kept == [s EXCEPT !.umarks = Unmarked(s.user, @)]
               t == [kept EXCEPT !.flags = {}]
    <2>1. Unmarked(s.user, s.umarks) \in SUBSET (Users \X Mails)
        BY <1>1 DEF Session, Unmarked
    <2>2. kept \in Session /\ SessionOK(kept)
        BY <1>1, <2>1 DEF Session, SessionOK
    <2>3. t \in Session /\ SessionOK(t)
        BY <2>2 DEF Session, SessionOK
    <2>4. /\ box' = box /\ lock' = lock /\ active' = c
          /\ marks' \in {marks, Unmarked(s.user, marks)}
          /\ sess' = [sess EXCEPT ![c] = t] \/ sess' = sess
        BY <1>5 DEF Rset
    <2>5. marks' \in SUBSET (Users \X Mails) /\ active' \in ActiveType
        BY <2>4, Types DEF Unmarked, ActiveType
    <2>6. CASE sess' = sess
        BY <2>4, <2>5, <2>6 DEF TInv, TypeOK, SessionsOK, SessionOK, ActiveType
    <2> QED  BY <2>3, <2>4, <2>5, <2>6, Types, OneSession
<1>6. CASE TransactionOther(c)
    BY <1>1, <1>6, StayTyped, RejectTyped DEF TransactionOther
<1>7. CASE Quit(c)
    BY <1>1, <1>7, ExpungeType, CloseConnTyped DEF Quit, ActiveType
<1> QED  BY <1>3, <1>4, <1>5, <1>6, <1>7 DEF TransactionLine

LEMMA TypedInit == Init => TInv
<1> SUFFICES ASSUME Init PROVE TInv
    OBVIOUS
<1>1. \A c \in Conns : sess[c] \in Session /\ SessionOK(sess[c])
    BY NewSessionOK DEF Init, TlsModes
<1>2. sess \in [Conns -> Session]
    BY <1>1 DEF Init
<1> QED  BY <1>1, <1>2 DEF Init, TInv, TypeOK, SessionsOK

LEMMA TypedStep == TInv /\ [Next]_vars => TInv'
<1> SUFFICES ASSUME TInv, [Next]_vars PROVE TInv'
    OBVIOUS
<1>1. ASSUME NEW c \in Conns, Connection(c) \/ AuthLine(c) \/ TransactionLine(c)
      PROVE  TInv'
    BY <1>1, ConnectionTyped, AuthLineTyped, TransactionLineTyped
<1>2. ASSUME NEW m \in Mails, Deliver(m)
      PROVE  TInv'
    BY <1>2 DEF Deliver, TInv, TypeOK, SessionsOK, SessionOK
<1>3. ASSUME NEW u \in Users, AdminUnlock(u)
      PROVE  TInv'
    BY <1>3 DEF AdminUnlock, TInv, TypeOK, SessionsOK, SessionOK
<1>4. CASE Shutdown
    <2>1. lock' \in [Users -> BOOLEAN]
        BY <1>4, Types DEF Shutdown
    <2> QED  BY <1>4, <2>1, Types, RebootTyped DEF Shutdown
<1>5. CASE Crash
    <2>1. box' \in BoxType
        BY <1>5, Types, ExpungeType DEF Crash
    <2> QED  BY <1>5, <2>1, Types, RebootTyped DEF Crash, ActiveType
<1>6. CASE UNCHANGED vars
    BY <1>6 DEF vars, TInv, TypeOK, SessionsOK, SessionOK
<1> QED  BY <1>1, <1>2, <1>3, <1>4, <1>5, <1>6 DEF Next

(* Every reachable state of the daemon and its tables is well typed: in     *)
(* particular no deletion mark is ever made for "no user", however many     *)
(* lines a client sends behind its QUIT.                                    *)
THEOREM TypeCorrect == Spec => []TypeOK
<1>1. TInv => TypeOK
    BY DEF TInv
<1> QED  BY <1>1, TypedInit, TypedStep, PTL DEF Spec

-------------------------------------------------------------------------------
(* The maildrop lock *)

\* MutualExclusion is not inductive: a login is kept out by the lock, not by
\* the session that has it, so HolderHasLock has to come along.
LockInv == MutualExclusion /\ HolderHasLock

\* A session changes and neither logs in nor changes its user.
LEMMA SameHolder ==
    ASSUME TInv, LockInv, NEW c \in Conns, NEW s,
           s.ok => sess[c].ok /\ s.user = sess[c].user,
           sess' = [sess EXCEPT ![c] = s], UNCHANGED lock
    PROVE  LockInv'
BY DEF TInv, TypeOK, LockInv, MutualExclusion, HolderHasLock, Holds

\* A session ends.  The lock it gives back is its own.
LEMMA HolderLeaves ==
    ASSUME TInv, LockInv, NEW c \in Conns, NEW s \in Session, SessionOK(s),
           s.ok => sess[c].ok /\ s.user = sess[c].user,
           CloseConn(c, s)
    PROVE  LockInv'
<1>1. ~Closed(s).ok /\ sess' = [sess EXCEPT ![c] = Closed(s)]
    BY ClosedOK DEF CloseConn
<1>2. \A d \in Conns, u \in Users : Holds(d, u)' => d # c /\ Holds(d, u)
    BY <1>1 DEF TInv, TypeOK, Holds
<1>3. MutualExclusion'
    BY <1>2 DEF LockInv, MutualExclusion
<1>4. CASE UNCHANGED lock
    BY <1>2, <1>3, <1>4 DEF LockInv, HolderHasLock
<1>5. CASE Holding(s) /\ lock' = [lock EXCEPT ![s.user] = FALSE]
    <2>1. s.user \in Users /\ Holds(c, s.user)
        BY <1>5 DEF Holding, Holds, SessionOK
    <2>2. \A d \in Conns, u \in Users : Holds(d, u)' => u # s.user
        BY <1>2, <2>1 DEF LockInv, MutualExclusion
    <2> QED  BY <1>2, <1>3, <1>5, <2>1, <2>2 DEF LockInv, HolderHasLock, TInv, TypeOK
<1> QED  BY <1>4, <1>5 DEF CloseConn, Release

LEMMA RejectKeepsLocks ==
    ASSUME TInv, LockInv, NEW c \in Conns, NEW s \in Session, SessionOK(s),
           s.ok => sess[c].ok /\ s.user = sess[c].user,
           Reject(c, s)
    PROVE  LockInv'
<1>1. CASE s.score - 1 < FailLimit
    BY <1>1, HolderLeaves DEF Reject
<1>2. CASE ~(s.score - 1 < FailLimit)
    <2> DEFINE t == [s EXCEPT !.score = @ - 1]
    <2>1. t.ok = s.ok /\ t.user = s.user
        BY DEF Session
    <2> QED  BY <1>2, <2>1, SameHolder DEF Reject
<1> QED  BY <1>1, <1>2

LEMMA StayKeepsLocks ==
    ASSUME TInv, LockInv, NEW c \in Conns, NEW s,
           s.ok => sess[c].ok /\ s.user = sess[c].user,
           Stay(c, s)
    PROVE  LockInv'
BY SameHolder DEF Stay

\* A login gets by only when nobody holds the maildrop.
LEMMA AcquireKeepsLocks ==
    ASSUME "lock" \notin Faults, TInv, LockInv, NEW c \in Conns, NEW s \in Session,
           s.state = "AUTH", NEW u \in Users, Acquire(c, s, u)
    PROVE  LockInv'
<1> DEFINE in == LoggedIn(s, u)
<1>1. in \in Session /\ in.user = u
    BY LoggedInType
<1>2. \/ /\ sess' = [sess EXCEPT ![c] = AuthReset(in)] /\ UNCHANGED lock
      \/ /\ ~lock[u] /\ lock' = [lock EXCEPT ![u] = TRUE]
         /\ \/ \E t \in Attached(in, u) : sess' = [sess EXCEPT ![c] =
                   [t EXCEPT !.state = "TRANSACTION", !.score = @ + 1]]
            \/ \E t \in AttachFailed(in, u) : sess' = [sess EXCEPT ![c] = AuthReset(t)]
    BY DEF Acquire, LoggedIn
<1> HIDE DEF in
<1>3. CASE sess' = [sess EXCEPT ![c] = AuthReset(in)] /\ UNCHANGED lock
    BY <1>1, <1>3, AuthResetType, SameHolder
<1>4. ASSUME ~lock[u], lock' = [lock EXCEPT ![u] = TRUE], NEW n,
             n.ok => n.user = u, sess' = [sess EXCEPT ![c] = n]
      PROVE  LockInv'
    <2>1. \A d \in Conns : ~Holds(d, u)
        BY <1>4 DEF LockInv, HolderHasLock
    <2>2. \A d \in Conns, v \in Users :
             Holds(d, v)' => (d = c /\ v = u) \/ (d # c /\ v # u /\ Holds(d, v))
        BY <1>4, <2>1 DEF TInv, TypeOK, Holds
    <2>3. MutualExclusion'
        BY <2>2 DEF LockInv, MutualExclusion
    <2>4. HolderHasLock'
        BY <1>4, <2>2 DEF LockInv, HolderHasLock, TInv, TypeOK
    <2> QED  BY <2>3, <2>4 DEF LockInv
<1>5. ASSUME NEW t \in Attached(in, u)
      PROVE  [t EXCEPT !.state = "TRANSACTION", !.score = @ + 1].user = u
    <2>1. t \in Session /\ t.user = u
        BY <1>1, AttachedType
    <2> QED  BY <2>1 DEF Session
<1>6. ASSUME NEW t \in AttachFailed(in, u)
      PROVE  ~AuthReset(t).ok
    BY <1>1, AttachFailedType, AuthResetType
<1> QED  BY <1>2, <1>3, <1>4, <1>5, <1>6

LEMMA CredentialsKeepLocks ==
    ASSUME "lock" \notin Faults, TInv, LockInv, NEW c \in Conns, NEW s \in Session,
           s.state = "AUTH", Credentials(c, s)
    PROVE  LockInv'
<1>1. AuthReset(s) \in Session /\ SessionOK(AuthReset(s)) /\ ~AuthReset(s).ok
    BY AuthResetType DEF SessionOK
<1> QED  BY <1>1, RejectKeepsLocks, AcquireKeepsLocks DEF Credentials

LEMMA ConnectionKeepsLocks ==
    ASSUME TInv, LockInv, NEW c \in Conns, Connection(c)
    PROVE  LockInv'
<1>1. CASE Accept(c)
    <2> DEFINE s == NewSession(TRUE, IF ListenerTls = "ONLY" THEN "NEGOTIATE" ELSE "NONE")
    <2>1. ~s.ok
        BY DEF NewSession
    <2> QED  BY <1>1, <2>1, SameHolder DEF Accept
<1>2. CASE Handshake(c)
    <2> DEFINE s == [sess[c] EXCEPT !.tls = "ONLY"]
    <2>1. s.ok = sess[c].ok /\ s.user = sess[c].user
        BY SessionAt DEF Session
    <2>2. sess' = [sess EXCEPT ![c] = s]
        BY <1>2 DEF Handshake
    <2> QED  BY <1>2, <2>1, <2>2, SameHolder DEF Handshake
<1>3. CASE HangUp(c)
    BY <1>3, SessionAt, HolderLeaves DEF HangUp
<1>4. CASE Timeout(c)
    BY <1>4, SessionAt, HolderLeaves DEF Timeout
<1>5. CASE EndBatch(c)
    BY <1>5 DEF EndBatch, LockInv, MutualExclusion, HolderHasLock, Holds
<1> QED  BY <1>1, <1>2, <1>3, <1>4, <1>5 DEF Connection

LEMMA AuthLineKeepsLocks ==
    ASSUME "lock" \notin Faults, TInv, LockInv, NEW c \in Conns, AuthLine(c)
    PROVE  LockInv'
<1> DEFINE s == sess[c]
<1>1. s \in Session /\ SessionOK(s)
    BY SessionAt
<1>2. s.state = "AUTH" /\ ~s.ok
    BY <1>1 DEF AuthLine, UserCmd, PassCmd, AuthCmd, SaslLine, Stls, AuthOther,
                QuitInAuth, Line, SessionOK
<1>3. AuthReset(s) \in Session /\ SessionOK(AuthReset(s)) /\ ~AuthReset(s).ok
    BY <1>1, <1>2, AuthResetType DEF SessionOK
<1>4. CASE UserCmd(c)
    <2> DEFINE t == [s EXCEPT !.method = "USER", !.named = TRUE]
    <2>1. t \in Session /\ ~t.ok
        BY <1>1, <1>2 DEF Session
    <2> QED  BY <1>1, <1>4, <2>1, StayKeepsLocks, RejectKeepsLocks DEF UserCmd
<1>5. CASE PassCmd(c)
    BY <1>1, <1>2, <1>5, RejectKeepsLocks, CredentialsKeepLocks DEF PassCmd
<1>6. CASE AuthCmd(c)
    <2> DEFINE t == [s EXCEPT !.method = "SASL", !.named = FALSE, !.user = None]
               i == [t EXCEPT !.sasl = TRUE]
    <2>1. t \in Session /\ ~t.ok /\ t.state = "AUTH"
        BY <1>1, <1>2 DEF Session
    <2>2. i \in Session /\ ~i.ok /\ i.state = "AUTH"
        BY <2>1 DEF Session
    <2>3. Reject(c, AuthReset(t)) \/ Stay(c, i) \/ Credentials(c, i)
        BY <1>6 DEF AuthCmd
    <2> HIDE DEF t, i
    <2>4. SessionOK(AuthReset(t)) /\ AuthReset(t) \in Session /\ ~AuthReset(t).ok
        BY <2>1, AuthResetType DEF SessionOK
    <2> QED  BY <2>2, <2>3, <2>4, RejectKeepsLocks, StayKeepsLocks, CredentialsKeepLocks
<1>7. CASE SaslLine(c)
    BY <1>1, <1>2, <1>3, <1>7, RejectKeepsLocks, StayKeepsLocks, CredentialsKeepLocks
       DEF SaslLine
<1>8. CASE Stls(c)
    <2> DEFINE t == [s EXCEPT !.tls = "NEGOTIATE"]
    <2>1. t \in Session /\ SessionOK(t) /\ ~t.ok
        BY <1>1, <1>2 DEF Session, SessionOK, TlsModes
    <2> QED  BY <1>1, <1>8, <2>1, StayKeepsLocks, RejectKeepsLocks DEF Stls
<1>9. CASE AuthOther(c)
    BY <1>1, <1>9, StayKeepsLocks, RejectKeepsLocks DEF AuthOther
<1>10. CASE QuitInAuth(c)
    BY <1>1, <1>10, HolderLeaves DEF QuitInAuth
<1> QED  BY <1>4, <1>5, <1>6, <1>7, <1>8, <1>9, <1>10 DEF AuthLine

LEMMA TransactionLineKeepsLocks ==
    ASSUME TInv, LockInv, NEW c \in Conns, TransactionLine(c)
    PROVE  LockInv'
<1> DEFINE s == sess[c]
<1>1. s \in Session /\ SessionOK(s)
    BY SessionAt
<1>2. ASSUME NEW m \in Mails, Dele(c, m)
      PROVE  LockInv'
    <2> DEFINE t == [s EXCEPT !.flags = @ \cup {m}]
               v == [t EXCEPT !.umarks = @ \cup {<<s.user, m>>}]
    <2>1. t.ok = s.ok /\ t.user = s.user /\ v.ok = s.ok /\ v.user = s.user
        BY <1>1 DEF Session
    <2>2. CASE m \notin s.mails \/ m \in s.flags
        BY <1>1, <1>2, <2>2, RejectKeepsLocks DEF Dele
    <2>3. CASE m \in s.mails /\ m \notin s.flags
        <3>1. UNCHANGED lock /\ (sess' = [sess EXCEPT ![c] = t] \/ sess' = [sess EXCEPT ![c] = v])
            BY <1>2, <2>3 DEF Dele
        <3> QED  BY <2>1, <3>1, SameHolder
    <2> QED  BY <2>2, <2>3
<1>3. ASSUME NEW m \in Mails, Inspect(c, m)
      PROVE  LockInv'
    BY <1>1, <1>3, StayKeepsLocks, RejectKeepsLocks DEF Inspect
<1>4. CASE Rset(c)
    <2> DEFINE kept == [s EXCEPT !.umarks = Unmarked(s.user, @)]
               t == [kept EXCEPT !.flags = {}]
    <2>1. t.ok = s.ok /\ t.user = s.user
        BY <1>1 DEF Session
    <2>2. UNCHANGED lock /\ (sess' = [sess EXCEPT ![c] = t] \/ UNCHANGED sess)
        BY <1>4 DEF Rset
    <2>3. CASE UNCHANGED sess
        BY <2>2, <2>3 DEF LockInv, MutualExclusion, HolderHasLock, Holds
    <2> QED  BY <2>1, <2>2, <2>3, SameHolder
<1>5. CASE TransactionOther(c)
    BY <1>1, <1>5, StayKeepsLocks, RejectKeepsLocks DEF TransactionOther
<1>6. CASE Quit(c)
    BY <1>1, <1>6, HolderLeaves DEF Quit
<1> QED  BY <1>2, <1>3, <1>4, <1>5, <1>6 DEF TransactionLine

LEMMA NobodyAfterReboot == ASSUME sess' = Rebooted PROVE LockInv'
<1>1. \A c \in Conns : ~sess'[c].ok
    BY DEF Rebooted, NewSession
<1> QED  BY <1>1 DEF LockInv, MutualExclusion, HolderHasLock, Holds

LEMMA LockStep ==
    ASSUME "lock" \notin Faults, Unlocks # "any"
    PROVE  TInv /\ LockInv /\ [Next]_vars => LockInv'
<1> SUFFICES ASSUME TInv, LockInv, [Next]_vars PROVE LockInv'
    OBVIOUS
<1>1. ASSUME NEW c \in Conns, Connection(c) \/ AuthLine(c) \/ TransactionLine(c)
      PROVE  LockInv'
    BY <1>1, ConnectionKeepsLocks, AuthLineKeepsLocks, TransactionLineKeepsLocks
<1>2. ASSUME NEW m \in Mails, Deliver(m)
      PROVE  LockInv'
    BY <1>2 DEF Deliver, LockInv, MutualExclusion, HolderHasLock, Holds
<1>3. ASSUME NEW u \in Users, AdminUnlock(u)
      PROVE  LockInv'
    <2>1. \A c \in Conns : sess[c].user # u
        BY <1>3, MaildropAssumption DEF AdminUnlock
    <2> QED  BY <1>3, <2>1 DEF AdminUnlock, LockInv, MutualExclusion, HolderHasLock, Holds,
                               TInv, TypeOK
<1>4. CASE Shutdown \/ Crash
    BY <1>4, NobodyAfterReboot DEF Shutdown, Crash
<1>5. CASE UNCHANGED vars
    BY <1>5 DEF vars, LockInv, MutualExclusion, HolderHasLock, Holds
<1> QED  BY <1>1, <1>2, <1>3, <1>4, <1>5 DEF Next

(* As long as the statement that takes the lock does not fail, and the      *)
(* operator unlocks only maildrops that are not open, no two sessions have  *)
(* the same maildrop open and whoever has one open holds its lock: whatever *)
(* the clients send, whatever else fails, and however often the daemon dies *)
(* or is restarted.                                                         *)
THEOREM LockSafety ==
    ASSUME "lock" \notin Faults, Unlocks # "any"
    PROVE  Spec => [](MutualExclusion /\ HolderHasLock)
<1>1. Init => LockInv
    BY DEF Init, NewSession, LockInv, MutualExclusion, HolderHasLock, Holds
<1>2. TInv /\ LockInv /\ [Next]_vars => LockInv'
    BY LockStep
<1>3. LockInv => MutualExclusion /\ HolderHasLock
    BY DEF LockInv
<1> QED  BY <1>1, <1>2, <1>3, TypedInit, TypedStep, PTL DEF Spec
===============================================================================
