------------------------------ MODULE SmtpProofs ------------------------------
(***************************************************************************)
(* Proofs about SmtpSession for any number of connections, pooled paths,   *)
(* recipients, addresses and users.                                        *)
(*                                                                         *)
(* Every step but a restart changes one session, and does one of four      *)
(* things to the pool: it leaves the paths to whoever has them, gives the  *)
(* session's paths back, begins a session that has none, or takes a path.  *)
(* The first part shows that (lemma StepShape), the second that none of    *)
(* the four disturbs what the theorems say of paths and recipients.  The   *)
(* third goes back to the handlers for what a session has looked up before *)
(* its mail is complete, and the last maps the sessions to SmtpService.    *)
(***************************************************************************)
EXTENDS SmtpSession, TLAPS, WellFoundedInduction

(* What no line of any client, and no end of a connection at any point,     *)
(* leaves undone in a session.                                              *)
SessionOK(s) ==
    /\ Len(s.fwd) <= MaxRcpt
    /\ s.named <=> s.user # None
    /\ s.user # None => s.route \in {OutRouter[s.user], "none"}
    /\ s.state = "AUTH" => s.sasl
    /\ s.state \in {"NEW", "IDLE", "AUTH"} => s.rev.router = "none" /\ s.fwd = <<>>
    /\ ~LinesAfterClose /\ ~s.open => s.fwd = <<>>
SessionsOK == \A c \in Conns : SessionOK(sess[c])

(* A path that is free is as good as new.                                   *)
PoolReset == \A p \in Paths : ~pool[p].busy => pool[p] = FreePath

SInv == TypeOK /\ SessionsOK /\ PoolReset

PathType == [busy : BOOLEAN, addr : Addrs \cup {None}, router : InRouters \cup {"none"}]
ActiveType == Conns \cup {None}

-------------------------------------------------------------------------------
(* The kinds of step *)

\* Session c becomes s, in order.
Becomes(c, s) == s \in Session /\ SessionOK(s) /\ sess' = [sess EXCEPT ![c] = s]

\* The session keeps its recipients, and its user as long as there are some.
Keeps(s, t) == t.fwd = s.fwd /\ (t.user = s.user \/ t.fwd = <<>>)
LeftAlone(c) == pool' = pool /\ \E s : Becomes(c, s) /\ Keeps(sess[c], s)

GaveBack(c) == pool' = Returned(pool, sess[c]) /\ \E s : Becomes(c, s) /\ s.fwd = <<>>

Began(c) == pool' = pool /\ ~sess[c].open /\ \E s : Becomes(c, s) /\ s.fwd = <<>>

Took(c) ==
    /\ Free # {}
    /\ \E s, path :
          /\ Becomes(c, s)
          /\ s.fwd = Append(sess[c].fwd, FirstFree) /\ s.user = sess[c].user
          /\ path \in PathType /\ path.busy /\ path.addr \in Addrs
          /\ path.router = "none" => s.user # None
          /\ pool' = [pool EXCEPT ![FirstFree] = path]

PathStep(c) == LeftAlone(c) \/ GaveBack(c) \/ Began(c) \/ Took(c)

\* The daemon is started again, after a signal or because it has died.
Restarted == sess' = NewSlots /\ pool' = [p \in Paths |-> FreePath] /\ active' = None

\* The mail of session c is complete and leaves a receipt.
Dot(c) ==
    /\ Line(c, "DATA") /\ ~Unwanted(sess[c])
    /\ \E r \in Outcomes(sess[c]) : receipt' = Receipt(sess[c], r)

-------------------------------------------------------------------------------
(* The helpers of SmtpSession *)

LEMMA SessionAt ==
    ASSUME SInv, NEW c \in Conns
    PROVE  sess[c] \in Session /\ SessionOK(sess[c])
BY DEF SInv, TypeOK, SessionsOK

LEMMA PoolTyped ==
    ASSUME SInv
    PROVE  pool \in [Paths -> PathType] /\ active \in ActiveType
BY DEF SInv, TypeOK, PathType, ActiveType

LEMMA FirstFreeIsFree ==
    ASSUME Free # {}
    PROVE  FirstFree \in Free /\ FirstFree \in Paths
<1> DEFINE less == OpToRel(<, Nat)
<1>1. IsWellFoundedOn(less, Nat)
    BY NatLessThanWellFounded
<1>2. \A x, y \in Nat : x < y => <<x, y>> \in less
    BY DEF OpToRel
<1> HIDE DEF less
<1>3. Free \subseteq Nat
    BY SmtpAssumption DEF Free, Paths
<1>4. PICK p \in Free : \A q \in Free : <<q, p>> \notin less
    BY <1>1, <1>3, WFMin
<1>5. \A q \in Free : p <= q
    <2> SUFFICES ASSUME NEW q \in Free PROVE p <= q
        OBVIOUS
    <2>1. p \in Nat /\ q \in Nat
        BY <1>3
    <2>2. ~(q < p)
        BY <1>2, <1>4, <2>1
    <2> QED  BY <2>1, <2>2
<1> QED  BY <1>5 DEF FirstFree, Free

LEMMA RoutesTyped ==
    ASSUME NEW u \in Users, NEW r \in OutboundRoutes(u)
    PROVE  r \in OutRouters \cup {"none"} /\ r \in {OutRouter[u], "none"}
BY RoutingAssumption DEF OutboundRoutes

LEMMA ResolvedTyped ==
    ASSUME NEW a \in Addrs, NEW u \in Users \cup {None}
    PROVE  Resolved(a, u) \in InRouters \cup {"none"}
BY RoutingAssumption DEF Resolved, InRouters

LEMMA NoRevTyped ==
    NoRev \in [addr : Addrs \cup {None}, router : InRouters \cup {"none"}, delim : BOOLEAN]
BY DEF NoRev

LEMMA EmptyFwd == <<>> \in Seq(Paths) /\ Len(<<>>) = 0
OBVIOUS

LEMMA NewSessionOK ==
    ASSUME NEW o \in BOOLEAN, NEW mode \in TlsModes, NEW u \in Users \cup {None},
           NEW r \in OutRouters \cup {"none"}, NEW b \in BOOLEAN,
           u # None => r \in {OutRouter[u], "none"}
    PROVE  LET s == NewSession(o, mode, u, r, b)
           IN  s \in Session /\ SessionOK(s) /\ s.fwd = <<>>
<1>1. <<>> \in Seq(Paths) /\ Len(<<>>) = 0 /\ MaxSize \in Nat /\ MaxRcpt \in Nat
    BY EmptyFwd, RoutingAssumption, SmtpAssumption
<1> DEFINE s == NewSession(o, mode, u, r, b)
<1>2. s \in Session
    BY <1>1, NoRevTyped DEF NewSession, Session
<1>3. /\ s.fwd = <<>> /\ s.rev.router = "none" /\ s.state = "NEW"
      /\ s.named <=> s.user # None
      /\ s.user # None => s.route \in {OutRouter[s.user], "none"}
    BY DEF NewSession, NoRev
<1> HIDE DEF s
<1>4. SessionOK(s)
    BY <1>1, <1>3 DEF SessionOK
<1> QED  BY <1>2, <1>3, <1>4 DEF s

LEMMA MailResetTyped ==
    ASSUME NEW s \in Session
    PROVE  LET t == MailReset(s)
           IN  /\ t \in Session /\ t.fwd = <<>> /\ t.rev = NoRev
               /\ t.user = s.user /\ t.named = s.named /\ t.route = s.route
               /\ t.open = s.open /\ t.state = s.state /\ t.sasl = s.sasl /\ t.tls = s.tls
<1>1. <<>> \in Seq(Paths)
    BY EmptyFwd
<1> QED  BY <1>1, NoRevTyped DEF MailReset, Session

LEMMA HungUpTyped ==
    ASSUME NEW s \in Session
    PROVE  [s EXCEPT !.open = FALSE, !.tls = "NONE"] \in Session
BY DEF Session, TlsModes

LEMMA ClosedOK ==
    ASSUME NEW s \in Session, SessionOK(s)
    PROVE  Closed(s) \in Session /\ SessionOK(Closed(s)) /\ Closed(s).fwd = <<>>
<1> DEFINE m == MailReset(s)
<1>1. /\ m \in Session /\ m.fwd = <<>> /\ m.rev = NoRev
      /\ m.state = s.state /\ m.sasl = s.sasl
    BY MailResetTyped
<1> HIDE DEF m
<1> DEFINE l == LogOut(m)
           t == [l EXCEPT !.open = FALSE, !.tls = "NONE"]
<1>2. /\ l \in Session /\ l.fwd = <<>> /\ l.rev = NoRev /\ ~l.named /\ l.user = None
      /\ l.state = s.state /\ l.sasl = s.sasl
    BY <1>1 DEF LogOut, Session
<1> HIDE DEF l
<1>3. /\ t \in Session /\ t.fwd = <<>> /\ t.rev = NoRev /\ ~t.named /\ t.user = None
      /\ t.state = s.state /\ t.sasl = s.sasl
    <2>1. t \in Session
        BY <1>2, HungUpTyped
    <2>2. /\ t.fwd = l.fwd /\ t.rev = l.rev /\ t.named = l.named /\ t.user = l.user
          /\ t.state = l.state /\ t.sasl = l.sasl
        BY <1>2 DEF Session
    <2> QED  BY <1>2, <2>1, <2>2
<1>4. Closed(s) = t
    BY DEF Closed, l, m
<1> HIDE DEF t
<1>5. SessionOK(t)
    BY <1>3, EmptyFwd, RoutingAssumption, SmtpAssumption DEF SessionOK, NoRev
<1> QED  BY <1>3, <1>4, <1>5

\* The score is no part of anything below.
LEMMA ScoredOK ==
    ASSUME NEW s \in Session, SessionOK(s), NEW n \in Int
    PROVE  LET t == [s EXCEPT !.score = n]
           IN  t \in Session /\ SessionOK(t) /\ t.fwd = s.fwd /\ t.user = s.user
BY DEF Session, SessionOK

-------------------------------------------------------------------------------
(* Handlers: what Stay, Reward, Reject and CloseConn do to the pool *)

Shape(c) == PathStep(c) /\ active' \in ActiveType

\* A handler whose session keeps what it has.
Goes(c, s) == s \in Session /\ SessionOK(s) /\ Keeps(sess[c], s)

LEMMA ReturnedSame ==
    ASSUME NEW q, NEW s, NEW t, s.fwd = t.fwd
    PROVE  Returned(q, s) = Returned(q, t)
BY DEF Returned

LEMMA ReturnedNothing ==
    ASSUME NEW q \in [Paths -> PathType], NEW s, s.fwd = <<>>
    PROVE  Returned(q, s) = q
BY DEF Returned

LEMMA CloseShape ==
    ASSUME SInv, NEW c \in Conns, NEW s, Goes(c, s), CloseConn(c, s, pool),
           active' \in ActiveType
    PROVE  Shape(c)
<1>1. pool' = Returned(pool, sess[c])
    BY ReturnedSame DEF CloseConn, Goes, Keeps
<1>2. Becomes(c, Closed(s)) /\ Closed(s).fwd = <<>>
    BY ClosedOK DEF Becomes, CloseConn, Goes
<1> QED  BY <1>1, <1>2 DEF Shape, PathStep, GaveBack

LEMMA StayShape ==
    ASSUME SInv, NEW c \in Conns, NEW s, Goes(c, s), Stay(c, s, pool)
    PROVE  Shape(c)
BY DEF Stay, Goes, Shape, PathStep, LeftAlone, Becomes, ActiveType

LEMMA RewardShape ==
    ASSUME SInv, NEW c \in Conns, NEW s, Goes(c, s), Reward(c, s, pool)
    PROVE  Shape(c)
<1> DEFINE n == IF s.score < MaxScore THEN s.score + 1 ELSE s.score
           t == [s EXCEPT !.score = n]
<1>1. n \in Int
    BY DEF Goes, Session
<1> HIDE DEF n
<1>2. Goes(c, t)
    BY <1>1, ScoredOK DEF Goes, Keeps
<1>3. Stay(c, t, pool)
    BY DEF Reward, n
<1> QED  BY <1>2, <1>3, StayShape

LEMMA RejectShape ==
    ASSUME SInv, NEW c \in Conns, NEW s, Goes(c, s), Reject(c, s, pool)
    PROVE  Shape(c)
<1>1. CASE s.score - 1 < FailLimit
    BY <1>1, CloseShape DEF Reject, ActiveType
<1>2. CASE ~(s.score - 1 < FailLimit)
    <2> DEFINE n == s.score - 1
               t == [s EXCEPT !.score = n]
    <2>1. n \in Int
        BY DEF Goes, Session
    <2>2. sess' = [sess EXCEPT ![c] = t] /\ pool' = pool /\ active' = c
        BY <1>2 DEF Reject
    <2> HIDE DEF n
    <2>3. Goes(c, t)
        BY <2>1, ScoredOK DEF Goes, Keeps
    <2> QED  BY <2>2, <2>3 DEF Goes, Shape, PathStep, LeftAlone, Becomes, ActiveType
<1> QED  BY <1>1, <1>2

\* A handler that has given the mail up.
LEMMA GivenUpShape ==
    ASSUME SInv, NEW c \in Conns, NEW s \in Session, SessionOK(s), s.fwd = <<>>,
           NEW q, q = Returned(pool, sess[c]), Stay(c, s, q) \/ Reject(c, s, q)
    PROVE  Shape(c)
<1>1. q \in [Paths -> PathType]
    BY PoolTyped DEF Returned, PathReset, FreePath, PathType
<1>2. Returned(q, s) = q
    BY <1>1, ReturnedNothing
<1>3. CASE Stay(c, s, q)
    BY <1>3 DEF Stay, Shape, PathStep, GaveBack, Becomes, ActiveType
<1>4. CASE Reject(c, s, q) /\ s.score - 1 < FailLimit
    <2>1. Becomes(c, Closed(s)) /\ Closed(s).fwd = <<>>
        BY <1>4, ClosedOK DEF Becomes, Reject, CloseConn
    <2>2. pool' = q /\ active' = None
        BY <1>2, <1>4 DEF Reject, CloseConn
    <2> QED  BY <2>1, <2>2 DEF Shape, PathStep, GaveBack, ActiveType
<1>5. CASE Reject(c, s, q) /\ ~(s.score - 1 < FailLimit)
    <2> DEFINE n == s.score - 1
               t == [s EXCEPT !.score = n]
    <2>1. n \in Int
        BY DEF Session
    <2>2. sess' = [sess EXCEPT ![c] = t] /\ pool' = q /\ active' = c
        BY <1>5 DEF Reject
    <2> HIDE DEF n
    <2>3. t \in Session /\ SessionOK(t) /\ t.fwd = <<>>
        BY <2>1, ScoredOK
    <2> QED  BY <2>2, <2>3 DEF Shape, PathStep, GaveBack, Becomes, ActiveType
<1> QED  BY <1>3, <1>4, <1>5

-------------------------------------------------------------------------------
(* Every action has the shape *)

\* Session c as it is goes on as it is.
LEMMA SameGoes ==
    ASSUME SInv, NEW c \in Conns
    PROVE  Goes(c, sess[c])
BY SessionAt DEF Goes, Keeps

\* The mail of session s was reset, and its state is IDLE or NEW.
LEMMA ResetOK ==
    ASSUME NEW s \in Session, SessionOK(s), NEW state \in {"NEW", "IDLE"}
    PROVE  LET t == [MailReset(s) EXCEPT !.state = state]
           IN  t \in Session /\ SessionOK(t) /\ t.fwd = <<>>
<1> DEFINE m == MailReset(s)
<1>1. /\ m \in Session /\ m.fwd = <<>> /\ m.rev = NoRev
      /\ m.named = s.named /\ m.user = s.user /\ m.route = s.route
    BY MailResetTyped
<1> HIDE DEF m
<1> DEFINE t == [m EXCEPT !.state = state]
<1>2. /\ t \in Session /\ t.fwd = <<>> /\ t.rev = NoRev
      /\ t.named = s.named /\ t.user = s.user /\ t.route = s.route /\ t.state = state
    BY <1>1 DEF Session
<1> HIDE DEF t
<1>3. SessionOK(t)
    BY <1>2, EmptyFwd, RoutingAssumption, SmtpAssumption DEF SessionOK, NoRev
<1> QED  BY <1>2, <1>3 DEF t, m

LEMMA ConnectionShape ==
    ASSUME SInv, NEW c \in Conns, Connection(c)
    PROVE  Shape(c) /\ receipt' = receipt
<1> DEFINE s == sess[c]
<1>1. s \in Session /\ SessionOK(s) /\ Goes(c, s)
    BY SessionAt, SameGoes
<1>2. CASE Accept(c)
    <2>1. PICK r \in IF FixedUser = None THEN {"none"} ELSE OutboundRoutes(FixedUser) :
              sess' = [sess EXCEPT ![c] =
                  NewSession(TRUE, IF ListenerTls = "ONLY" THEN "NEGOTIATE" ELSE "NONE",
                             FixedUser, r, s.buf)]
        BY <1>2 DEF Accept
    <2> DEFINE t == NewSession(TRUE, IF ListenerTls = "ONLY" THEN "NEGOTIATE" ELSE "NONE",
                               FixedUser, r, s.buf)
    <2>2. /\ r \in OutRouters \cup {"none"} /\ FixedUser \in Users \cup {None}
          /\ FixedUser # None => r \in {OutRouter[FixedUser], "none"}
        BY RoutesTyped, SmtpAssumption
    <2>3. s.buf \in BOOLEAN
        BY <1>1 DEF Session
    <2>4. t \in Session /\ SessionOK(t) /\ t.fwd = <<>>
        BY <2>2, <2>3, NewSessionOK DEF TlsModes
    <2> HIDE DEF t
    <2>5. Becomes(c, t)
        BY <2>1, <2>4 DEF Becomes, t
    <2> QED  BY <1>2, <2>4, <2>5, PoolTyped DEF Accept, Shape, PathStep, Began
<1>3. CASE Handshake(c)
    <2> DEFINE t == [s EXCEPT !.tls = "ONLY"]
    <2>1. t \in Session /\ SessionOK(t) /\ Keeps(s, t)
        BY <1>1 DEF Session, SessionOK, Keeps, TlsModes
    <2>2. Becomes(c, t)
        BY <1>3, <2>1 DEF Becomes, Handshake
    <2> QED  BY <1>3, <2>1, <2>2, PoolTyped DEF Handshake, Shape, PathStep, LeftAlone
<1>4. CASE HangUp(c)
    BY <1>1, <1>4, CloseShape, PoolTyped DEF HangUp
<1>5. CASE MemTimeout(c)
    <2> DEFINE m == MailReset(s)
    <2>1. /\ m \in Session /\ m.fwd = <<>> /\ m.rev = NoRev /\ m.state = s.state
          /\ m.named = s.named /\ m.user = s.user /\ m.route = s.route /\ m.sasl = s.sasl
        BY <1>1, MailResetTyped
    <2> HIDE DEF m
    <2> DEFINE t == [m EXCEPT !.buf = FALSE]
    <2>2. /\ t \in Session /\ t.fwd = <<>> /\ t.rev = NoRev /\ t.state = s.state
          /\ t.named = s.named /\ t.user = s.user /\ t.route = s.route /\ t.sasl = s.sasl
        BY <2>1 DEF Session
    <2>3. sess' = [sess EXCEPT ![c] = t]
        BY <1>5 DEF MemTimeout, m
    <2> HIDE DEF t
    <2>4. SessionOK(t)
        BY <1>1, <2>2, EmptyFwd, RoutingAssumption, SmtpAssumption DEF SessionOK, NoRev
    <2>5. Becomes(c, t)
        BY <2>2, <2>3, <2>4 DEF Becomes
    <2> QED  BY <1>5, <2>2, <2>5, PoolTyped DEF MemTimeout, Shape, PathStep, GaveBack
<1>6. CASE EndBatch(c)
    <2>1. sess' = [sess EXCEPT ![c] = s]
        BY <1>6 DEF EndBatch, SInv, TypeOK
    <2>2. Becomes(c, s) /\ Keeps(s, s)
        BY <1>1, <2>1 DEF Becomes, Keeps
    <2> QED  BY <1>6, <2>2 DEF EndBatch, Shape, PathStep, LeftAlone, ActiveType
<1>7. receipt' = receipt
    BY DEF Connection, Accept, Handshake, HangUp, MemTimeout, EndBatch
<1> QED  BY <1>2, <1>3, <1>4, <1>5, <1>6, <1>7 DEF Connection

\* The end of a SASL negotiation, whatever becomes of the user.
LEMMA SaslDoneTyped ==
    ASSUME NEW s \in Session, s.fwd = <<>>, s.rev.router = "none", s.named <=> s.user # None,
           s.user # None => s.route \in {OutRouter[s.user], "none"}
    PROVE  LET t == SaslDone(s)
           IN  /\ t \in Session /\ SessionOK(t) /\ t.fwd = <<>> /\ t.rev = s.rev
               /\ t.user = s.user /\ t.state = "IDLE"
<1> DEFINE t == SaslDone(s)
<1>1. /\ t \in Session /\ t.fwd = <<>> /\ t.rev = s.rev /\ t.named = s.named
      /\ t.user = s.user /\ t.route = s.route /\ t.state = "IDLE"
    BY DEF SaslDone, Session
<1> HIDE DEF t
<1>2. SessionOK(t)
    BY <1>1, EmptyFwd, RoutingAssumption, SmtpAssumption DEF SessionOK
<1> QED  BY <1>1, <1>2 DEF t

LEMMA CredentialsShape ==
    ASSUME SInv, NEW c \in Conns, NEW s \in Session, s.fwd = <<>>, s.rev.router = "none",
           s.named <=> s.user # None, s.user # None => s.route \in {OutRouter[s.user], "none"},
           sess[c].fwd = <<>>, Credentials(c, s)
    PROVE  Shape(c)
<1> DEFINE d == SaslDone(s)
<1>1. /\ d \in Session /\ SessionOK(d) /\ d.fwd = <<>> /\ d.rev.router = "none"
      /\ d.state = "IDLE" /\ d.route \in OutRouters \cup {"none"}
    BY SaslDoneTyped DEF Session
<1>2. \/ Reject(c, d, pool)
      \/ Reject(c, [d EXCEPT !.named = FALSE, !.user = None], pool)
      \/ \E u \in Users : \E r \in OutboundRoutes(u) :
            Reward(c, [d EXCEPT !.named = TRUE, !.user = u, !.route = r], pool)
    BY DEF Credentials
<1> HIDE DEF d
<1>3. CASE Reject(c, d, pool)
    BY <1>1, <1>3, RejectShape DEF Goes, Keeps
<1>4. CASE Reject(c, [d EXCEPT !.named = FALSE, !.user = None], pool)
    <2> DEFINE t == [d EXCEPT !.named = FALSE, !.user = None]
    <2>1. /\ t \in Session /\ t.fwd = <<>> /\ t.rev = d.rev /\ ~t.named
          /\ t.user = None /\ t.state = "IDLE"
        BY <1>1 DEF Session
    <2> HIDE DEF t
    <2>2. SessionOK(t)
        BY <1>1, <2>1, EmptyFwd, SmtpAssumption DEF SessionOK
    <2>3. Goes(c, t)
        BY <1>1, <2>1, <2>2 DEF Goes, Keeps
    <2> QED  BY <1>4, <2>3, RejectShape DEF t
<1>5. ASSUME NEW u \in Users, NEW r \in OutboundRoutes(u),
             Reward(c, [d EXCEPT !.named = TRUE, !.user = u, !.route = r], pool)
      PROVE  Shape(c)
    <2> DEFINE t == [d EXCEPT !.named = TRUE, !.user = u, !.route = r]
    <2>1. u # None /\ r \in OutRouters \cup {"none"} /\ r \in {OutRouter[u], "none"}
        BY RoutesTyped, RoutingAssumption
    <2>2. /\ t \in Session /\ t.fwd = <<>> /\ t.rev = d.rev /\ t.named
          /\ t.user = u /\ t.route = r /\ t.state = "IDLE"
        BY <1>1, <2>1 DEF Session
    <2> HIDE DEF t
    <2>3. SessionOK(t)
        BY <1>1, <2>1, <2>2, EmptyFwd, SmtpAssumption DEF SessionOK
    <2>4. Goes(c, t)
        BY <1>1, <2>2, <2>3 DEF Goes, Keeps
    <2> QED  BY <1>5, <2>4, RewardShape DEF t
<1> QED  BY <1>2, <1>3, <1>4, <1>5

\* The lines of a session that is not in a mail transaction.
LEMMA GreetingShape ==
    ASSUME SInv, NEW c \in Conns,
           Other(c) \/ QuitCmd(c) \/ Hello(c) \/ Rset(c) \/ StartTls(c)
    PROVE  Shape(c) /\ receipt' = receipt
<1> SUFFICES Shape(c)
    BY DEF Other, QuitCmd, Hello, Rset, StartTls, Stay, Reject
<1> DEFINE s == sess[c]
<1>1. s \in Session /\ SessionOK(s) /\ Goes(c, s)
    BY SessionAt, SameGoes
<1>2. CASE Other(c)
    BY <1>1, <1>2, StayShape, RejectShape DEF Other
<1>3. CASE QuitCmd(c)
    BY <1>1, <1>3, CloseShape DEF QuitCmd, ActiveType
<1>4. CASE Hello(c)
    <2> DEFINE t == [s EXCEPT !.state = "IDLE"]
    <2>1. t \in Session /\ SessionOK(t) /\ Keeps(s, t)
        BY <1>1, <1>4 DEF Hello, Line, Session, SessionOK, Keeps
    <2>2. Stay(c, t, pool)
        BY <1>4 DEF Hello
    <2> QED  BY <2>1, <2>2, StayShape DEF Goes
<1>5. CASE Rset(c)
    BY <1>1, <1>5, ResetOK, GivenUpShape DEF Rset
<1>6. CASE StartTls(c)
    <2> DEFINE n == [MailReset(s) EXCEPT !.state = "NEW"]
               t == [MailReset(s) EXCEPT !.state = "NEW", !.tls = "NEGOTIATE"]
    <2>1. n \in Session /\ SessionOK(n) /\ n.fwd = <<>>
        BY <1>1, ResetOK
    <2>2. t = [n EXCEPT !.tls = "NEGOTIATE"]
        OBVIOUS
    <2>3. \/ Stay(c, s, pool) \/ Reject(c, s, pool)
          \/ Stay(c, t, Returned(pool, s)) \/ Reject(c, t, Returned(pool, s))
        BY <1>6 DEF StartTls
    <2> HIDE DEF n, t
    <2>4. t \in Session /\ SessionOK(t) /\ t.fwd = <<>>
        BY <2>1, <2>2 DEF Session, SessionOK, TlsModes
    <2> QED  BY <1>1, <2>3, <2>4, StayShape, RejectShape, GivenUpShape
<1> QED  BY <1>2, <1>3, <1>4, <1>5, <1>6

LEMMA LoginShape ==
    ASSUME SInv, NEW c \in Conns, AuthCmd(c) \/ SaslLine(c)
    PROVE  Shape(c) /\ receipt' = receipt
<1> SUFFICES Shape(c)
    BY DEF AuthCmd, SaslLine, Credentials, Stay, Reward, Reject
<1> DEFINE s == sess[c]
<1>1. s \in Session /\ SessionOK(s) /\ Goes(c, s)
    BY SessionAt, SameGoes
<1>2. /\ s.fwd = <<>> /\ s.rev.router = "none" /\ (s.named <=> s.user # None)
      /\ s.user # None => s.route \in {OutRouter[s.user], "none"}
    BY <1>1 DEF AuthCmd, SaslLine, Line, SessionOK
<1>3. CASE AuthCmd(c)
    <2> DEFINE t == [s EXCEPT !.state = "AUTH"]
               w == [t EXCEPT !.sasl = TRUE]
    <2>1. /\ t \in Session /\ t.fwd = <<>> /\ t.rev.router = "none"
          /\ t.named = s.named /\ t.user = s.user /\ t.route = s.route /\ t.state = "AUTH"
        BY <1>1, <1>2 DEF Session
    <2>2. \/ Reject(c, s, pool) \/ Reject(c, SaslDone(t), pool)
          \/ Stay(c, w, pool) \/ Credentials(c, t)
        BY <1>3 DEF AuthCmd
    <2> HIDE DEF t
    <2>3. /\ w \in Session /\ w.fwd = <<>> /\ w.rev.router = "none" /\ w.sasl
          /\ w.named = s.named /\ w.user = s.user /\ w.route = s.route /\ w.state = "AUTH"
        BY <2>1 DEF Session
    <2> HIDE DEF w
    <2>4. Goes(c, w)
        BY <1>2, <2>3, EmptyFwd, RoutingAssumption, SmtpAssumption DEF Goes, Keeps, SessionOK
    <2>5. Goes(c, SaslDone(t))
        BY <1>2, <2>1, SaslDoneTyped DEF Goes, Keeps
    <2> QED  BY <1>1, <1>2, <2>1, <2>2, <2>4, <2>5, StayShape, RejectShape, CredentialsShape
<1>4. CASE SaslLine(c)
    <2>1. Goes(c, SaslDone(s))
        BY <1>1, <1>2, SaslDoneTyped DEF Goes, Keeps
    <2> QED  BY <1>1, <1>2, <1>4, <2>1, StayShape, RejectShape, CredentialsShape DEF SaslLine
<1> QED  BY <1>3, <1>4

LEMMA MailFromShape ==
    ASSUME SInv, NEW c \in Conns, MailFromBad(c) \/ \E a \in Addrs : MailFrom(c, a)
    PROVE  Shape(c) /\ receipt' = receipt
<1> SUFFICES Shape(c)
    BY DEF MailFromBad, MailFrom, Stay, Reject
<1> DEFINE s == sess[c]
<1>1. s \in Session /\ SessionOK(s) /\ Goes(c, s)
    BY SessionAt, SameGoes
<1>2. /\ s.fwd = <<>> /\ s.rev.router = "none" /\ s.state = "IDLE"
      /\ s.user \in Users \cup {None}
    BY <1>1 DEF MailFromBad, MailFrom, Line, SessionOK, Session
<1>3. CASE MailFromBad(c)
    <2>1. PICK d \in {s.rev.delim, TRUE} : Reject(c, [s EXCEPT !.rev.delim = d], pool)
        BY <1>3 DEF MailFromBad
    <2> DEFINE r == [s.rev EXCEPT !.delim = d]
               t == [s EXCEPT !.rev = r]
    <2>2. /\ r \in [addr : Addrs \cup {None}, router : InRouters \cup {"none"}, delim : BOOLEAN]
          /\ r.router = "none"
        BY <1>1, <1>2 DEF Session
    <2>3. t = [s EXCEPT !.rev.delim = d]
        OBVIOUS
    <2> HIDE DEF r
    <2>4. t \in Session /\ SessionOK(t) /\ Keeps(s, t)
        BY <1>1, <1>2, <2>2 DEF Session, SessionOK, Keeps
    <2> QED  BY <2>1, <2>3, <2>4, RejectShape DEF Goes
<1>4. ASSUME NEW a \in Addrs, MailFrom(c, a)
      PROVE  Shape(c)
    <2> DEFINE router == IF s.rev.router # "none" THEN s.rev.router ELSE Resolved(a, s.user)
               rev == [addr |-> a, router |-> router, delim |-> TRUE]
               t == [s EXCEPT !.state = "RECIPIENTS", !.rev = rev]
               reset == [s EXCEPT !.rev = NoRev]
    <2>1. \/ Reject(c, s, pool) \/ Stay(c, reset, pool)
          \/ Stay(c, t, pool) \/ Reject(c, reset, pool)
        BY <1>4 DEF MailFrom
    <2>2. rev \in [addr : Addrs \cup {None}, router : InRouters \cup {"none"}, delim : BOOLEAN]
        BY <1>2, ResolvedTyped
    <2> HIDE DEF rev
    <2>3. t \in Session /\ SessionOK(t) /\ Keeps(s, t)
        BY <1>1, <1>2, <2>2 DEF Session, SessionOK, Keeps
    <2>4. NoRev.router = "none"
        BY DEF NoRev
    <2>5. reset \in Session /\ SessionOK(reset) /\ Keeps(s, reset)
        BY <1>1, <1>2, <2>4, NoRevTyped DEF Session, SessionOK, Keeps
    <2> HIDE DEF t, reset
    <2> QED  BY <1>1, <2>1, <2>3, <2>5, StayShape, RejectShape DEF Goes
<1> QED  BY <1>3, <1>4

LEMMA RcptToShape ==
    ASSUME SInv, NEW c \in Conns, RcptToBad(c) \/ \E a \in Addrs : RcptTo(c, a)
    PROVE  Shape(c) /\ receipt' = receipt
<1> SUFFICES Shape(c)
    BY DEF RcptToBad, RcptTo, Stay, Reward, Reject
<1> DEFINE s == sess[c]
<1>1. s \in Session /\ SessionOK(s) /\ Goes(c, s)
    BY SessionAt, SameGoes
<1>2. CASE RcptToBad(c)
    BY <1>1, <1>2, RejectShape DEF RcptToBad
<1>3. ASSUME NEW a \in Addrs, RcptTo(c, a)
      PROVE  Shape(c)
    <2> DEFINE p == FirstFree
               router == IF pool[p].router # "none" THEN pool[p].router ELSE InRouter[a]
               path == [busy |-> TRUE, addr |-> a, router |-> router]
               back == [pool EXCEPT ![p] = PathReset(path)]
               f == Append(s.fwd, p)
               n == IF s.score < MaxScore THEN s.score + 1 ELSE s.score
               t == [s EXCEPT !.fwd = f, !.score = n]
    <2>1. /\ s.state = "RECIPIENTS" /\ HasRoom(s) /\ Free # {}
          /\ s.open \/ LinesAfterClose
        BY <1>3 DEF RcptTo, Line
    <2>2. p \in Free /\ p \in Paths
        BY <2>1, FirstFreeIsFree
    <2>3. pool[p] = FreePath
        BY <2>2 DEF SInv, PoolReset, Free
    <2>4. back = pool
        BY <2>2, <2>3, PoolTyped DEF PathReset
    <2>5. \/ Stay(c, s, pool) \/ Reject(c, s, pool)
          \/ /\ MayReceive(s, a, router)
             /\ Reward(c, [s EXCEPT !.fwd = f], [pool EXCEPT ![p] = path])
        BY <1>3, <2>4 DEF RcptTo
    <2>6. CASE Stay(c, s, pool) \/ Reject(c, s, pool)
        BY <1>1, <2>6, StayShape, RejectShape
    <2>7. CASE /\ MayReceive(s, a, router)
               /\ Reward(c, [s EXCEPT !.fwd = f], [pool EXCEPT ![p] = path])
        <3>1. f \in Seq(Paths) /\ Len(f) = Len(s.fwd) + 1 /\ n \in Int
            BY <1>1, <2>2 DEF Session
        <3>2. [s EXCEPT !.fwd = f].score = s.score
            BY <1>1 DEF Session
        <3>3. /\ sess' = [sess EXCEPT ![c] = t] /\ pool' = [pool EXCEPT ![p] = path]
              /\ active' = c
            BY <2>7, <3>2 DEF Reward, Stay
        <3>4. path \in PathType /\ path.busy /\ path.addr \in Addrs
            BY RoutingAssumption, <2>2, <2>3 DEF PathType, FreePath
        <3>5. path.router = "none" => s.user # None
            BY <1>1, <2>7 DEF MayReceive, SessionOK
        <3>6. Len(f) <= MaxRcpt
            BY <1>1, <2>1, <3>1, RoutingAssumption, SmtpAssumption DEF HasRoom, Session
        <3> HIDE DEF f, n, path
        <3>7. /\ t \in Session /\ t.fwd = f /\ t.user = s.user /\ t.named = s.named
              /\ t.route = s.route
              /\ t.open = s.open /\ t.state = s.state
            BY <1>1, <3>1 DEF Session
        <3>8. SessionOK(t)
            BY <1>1, <2>1, <3>6, <3>7 DEF SessionOK
        <3>9. Becomes(c, t)
            BY <3>3, <3>7, <3>8 DEF Becomes
        <3>10. t.fwd = Append(sess[c].fwd, FirstFree)
            BY <3>7 DEF f
        <3> QED  BY <2>1, <3>3, <3>4, <3>5, <3>7, <3>9, <3>10
            DEF Shape, PathStep, Took, ActiveType
    <2> QED  BY <2>5, <2>6, <2>7
<1> QED  BY <1>2, <1>3

LEMMA MailLineTyped ==
    ASSUME NEW s \in Session, NEW len \in Nat
    PROVE  LET t == MailLine(s, len)
           IN  /\ t \in Session /\ t.fwd = s.fwd /\ t.user = s.user /\ t.named = s.named
               /\ t.route = s.route /\ t.open = s.open /\ t.state = s.state
<1> DEFINE n == s.size + len + (IF s.size = 0 THEN 0 ELSE 2)
           t == [s EXCEPT !.size = n, !.buf = TRUE]
           d == [s EXCEPT !.cut = TRUE]
<1>1. n \in Nat
    BY DEF Session
<1>2. MailLine(s, len) = IF s.max > 0 /\ s.size >= s.max THEN d ELSE t
    BY DEF MailLine
<1> HIDE DEF n
<1>3. /\ t \in Session /\ t.fwd = s.fwd /\ t.user = s.user /\ t.named = s.named
      /\ t.route = s.route /\ t.open = s.open /\ t.state = s.state
    BY <1>1 DEF Session
<1>4. /\ d \in Session /\ d.fwd = s.fwd /\ d.user = s.user /\ d.named = s.named
      /\ d.route = s.route /\ d.open = s.open /\ d.state = s.state
    BY DEF Session
<1> HIDE DEF t, d
<1> QED  BY <1>2, <1>3, <1>4

LEMMA DataShape ==
    ASSUME SInv, NEW c \in Conns, Data(c) \/ \E len \in LineLens : DataLine(c, len)
    PROVE  Shape(c) /\ receipt' = receipt
<1> SUFFICES Shape(c)
    BY DEF Data, DataLine, Stay, Reject
<1> DEFINE s == sess[c]
<1>1. s \in Session /\ SessionOK(s) /\ Goes(c, s)
    BY SessionAt, SameGoes
<1>2. ASSUME NEW t \in Session, t.fwd = s.fwd, t.user = s.user, t.named = s.named,
             t.route = s.route /\ t.open = s.open, t.state = "DATA"
      PROVE  Goes(c, t)
    BY <1>1, <1>2 DEF Goes, Keeps, SessionOK
<1>3. CASE Data(c)
    <2> DEFINE m == MailLine(s, HeaderLen)
               t == [m EXCEPT !.state = "DATA"]
    <2>1. m \in Session /\ m.fwd = s.fwd /\ m.user = s.user /\ m.named = s.named
          /\ m.route = s.route /\ m.open = s.open
        BY <1>1, MailLineTyped, SmtpAssumption
    <2>2. Reject(c, s, pool) \/ Stay(c, t, pool)
        BY <1>3 DEF Data
    <2> HIDE DEF m
    <2>3. t \in Session /\ t.fwd = s.fwd /\ t.user = s.user /\ t.named = s.named
          /\ t.route = s.route /\ t.open = s.open /\ t.state = "DATA"
        BY <2>1 DEF Session
    <2> QED  BY <1>1, <1>2, <2>2, <2>3, StayShape, RejectShape
<1>4. ASSUME NEW len \in LineLens, DataLine(c, len)
      PROVE  Shape(c)
    <2> DEFINE hop == s.hops + 1
               r == [s EXCEPT !.hops = hop]
               e == [s EXCEPT !.head = FALSE]
    <2>1. s.state = "DATA" /\ len \in Nat /\ 0 \in Nat
        BY <1>4, SmtpAssumption DEF DataLine, Line
    <2>2. hop \in Nat
        BY <1>1 DEF Session
    <2>3. PICK m \in {MailLine(s, len), MailLine(r, len), MailLine(e, 0)} : Stay(c, m, pool)
        BY <1>4 DEF DataLine
    <2> HIDE DEF hop
    <2>4. /\ r \in Session /\ r.fwd = s.fwd /\ r.user = s.user /\ r.named = s.named
          /\ r.route = s.route /\ r.open = s.open /\ r.state = s.state
        BY <1>1, <2>2 DEF Session
    <2>5. /\ e \in Session /\ e.fwd = s.fwd /\ e.user = s.user /\ e.named = s.named
          /\ e.route = s.route /\ e.open = s.open /\ e.state = s.state
        BY <1>1 DEF Session
    <2> HIDE DEF r, e
    <2>6. /\ m \in Session /\ m.fwd = s.fwd /\ m.user = s.user /\ m.named = s.named
          /\ m.route = s.route /\ m.open = s.open /\ m.state = "DATA"
        BY <1>1, <2>1, <2>3, <2>4, <2>5, MailLineTyped
    <2> QED  BY <1>2, <2>3, <2>6, StayShape
<1> QED  BY <1>3, <1>4

LEMMA DataEndShape ==
    ASSUME SInv, NEW c \in Conns, DataEnd(c)
    PROVE  Shape(c)
<1> DEFINE t == [MailReset(sess[c]) EXCEPT !.state = "IDLE"]
<1>1. t \in Session /\ SessionOK(t) /\ t.fwd = <<>>
    BY SessionAt, ResetOK
<1>2. sess' = [sess EXCEPT ![c] = t] /\ pool' = Returned(pool, sess[c]) /\ active' = c
    BY DEF DataEnd
<1> QED  BY <1>1, <1>2 DEF Shape, PathStep, GaveBack, Becomes, ActiveType

\* Every step of a connection has the shape, but for the one that makes the
\* daemon die.
LEMMA StepShape ==
    ASSUME SInv, NEW c \in Conns, Connection(c) \/ Command(c)
    PROVE  Overrun(c) \/ (Shape(c) /\ (receipt' = receipt \/ DataEnd(c)))
<1>1. CASE Connection(c)
    BY <1>1, ConnectionShape
<1>2. CASE Command(c)
    BY <1>2, GreetingShape, LoginShape, MailFromShape, RcptToShape, DataShape, DataEndShape
        DEF Command
<1> QED  BY <1>1, <1>2

LEMMA Restarts == Shutdown \/ (\E c \in Conns : Overrun(c)) => Restarted
BY DEF Shutdown, Overrun, Restarted

\* Only the lone dot leaves a receipt.
LEMMA DotShape ==
    ASSUME NEW c \in Conns, DataEnd(c) \/ Overrun(c)
    PROVE  receipt' = receipt \/ Dot(c)
BY DEF DataEnd, Overrun, Dot

LEMMA StepDot ==
    ASSUME SInv, [Next]_vars
    PROVE  receipt' = receipt \/ \E c \in Conns : Dot(c)
<1>1. receipt' = receipt \/ \E c \in Conns : DataEnd(c) \/ Overrun(c)
    BY StepShape DEF Next, Shutdown, vars
<1> QED  BY <1>1, DotShape

-------------------------------------------------------------------------------
(* Types, and sessions that leave nothing undone *)

LEMMA ReturnedTyped ==
    ASSUME NEW q \in [Paths -> PathType], NEW s
    PROVE  Returned(q, s) \in [Paths -> PathType]
BY DEF Returned, PathReset, FreePath, PathType

LEMMA FreePathTyped == FreePath \in PathType /\ ~FreePath.busy
BY DEF FreePath, PathType

LEMMA ShapeTyped ==
    ASSUME SInv, NEW c \in Conns, Shape(c)
    PROVE  SInv'
<1>1. PICK s : Becomes(c, s)
    BY DEF Shape, PathStep, LeftAlone, GaveBack, Began, Took
<1>2. sess' \in [Conns -> Session]
    BY <1>1 DEF Becomes, SInv, TypeOK
<1>3. \A d \in Conns : SessionOK(sess'[d])
    BY <1>1 DEF Becomes, SInv, TypeOK, SessionsOK
<1>4. pool' \in [Paths -> PathType] /\ \A p \in Paths : ~pool'[p].busy => pool'[p] = FreePath
    <2>1. CASE pool' = pool
        BY <2>1, PoolTyped DEF SInv, PoolReset
    <2>2. CASE pool' = Returned(pool, sess[c])
        <3>1. pool' \in [Paths -> PathType]
            BY <2>2, PoolTyped, ReturnedTyped
        <3>2. \A p \in Paths : pool'[p] = FreePath \/ pool'[p] = pool[p]
            BY <2>2 DEF Returned, PathReset
        <3> QED  BY <3>1, <3>2 DEF SInv, PoolReset
    <2>3. CASE Took(c)
        BY <2>3, PoolTyped, FirstFreeIsFree DEF Took, SInv, PoolReset
    <2> QED  BY <2>1, <2>2, <2>3 DEF Shape, PathStep, LeftAlone, GaveBack, Began
<1>5. active' \in ActiveType
    BY DEF Shape
<1> QED  BY <1>2, <1>3, <1>4, <1>5
        DEF SInv, TypeOK, SessionsOK, SessionOK, PoolReset, PathType, ActiveType

LEMMA NewSlotsOK ==
    ASSUME NEW c \in Conns
    PROVE  NewSlots[c] \in Session /\ SessionOK(NewSlots[c]) /\ NewSlots[c].fwd = <<>>
BY NewSessionOK DEF NewSlots, TlsModes

LEMMA InitTyped == Init => SInv
<1> SUFFICES ASSUME Init PROVE SInv
    OBVIOUS
<1>1. sess \in [Conns -> Session] /\ \A c \in Conns : SessionOK(sess[c])
    BY NewSlotsOK DEF Init, NewSlots
<1> QED  BY <1>1, FreePathTyped
        DEF Init, SInv, TypeOK, SessionsOK, SessionOK, PoolReset, PathType

LEMMA RestartedTyped == ASSUME Restarted PROVE SInv'
<1>1. sess' \in [Conns -> Session] /\ \A c \in Conns : SessionOK(sess'[c])
    BY NewSlotsOK DEF Restarted, NewSlots
<1> QED  BY <1>1, FreePathTyped
        DEF Restarted, SInv, TypeOK, SessionsOK, SessionOK, PoolReset, PathType, ActiveType

LEMMA StepTyped == SInv /\ [Next]_vars => SInv'
<1> SUFFICES ASSUME SInv, [Next]_vars PROVE SInv'
    OBVIOUS
<1>1. CASE UNCHANGED vars
    BY <1>1 DEF vars, SInv, TypeOK, SessionsOK, SessionOK, PoolReset
<1> QED  BY <1>1, StepShape, ShapeTyped, Restarts, RestartedTyped DEF Next

(* Every reachable state is well typed, and no mail has more recipients     *)
(* than SMTP_MAX_RECIPIENTS, whatever the clients send and whatever fails.  *)
THEOREM TypeCorrect == Spec => []TypeOK
<1>1. SInv => TypeOK
    BY DEF SInv
<1> QED  BY <1>1, InitTyped, StepTyped, PTL DEF Spec

(* No command and no end of a connection leaves a session with a user name  *)
(* but no user, or in the middle of a SASL negotiation that is over.        *)
THEOREM NothingLeftBehind == Spec => [](NoNameWithoutUser /\ NegotiationInAuth)
<1>1. SInv => NoNameWithoutUser /\ NegotiationInAuth
    BY DEF SInv, SessionsOK, SessionOK, NoNameWithoutUser, NegotiationInAuth
<1> QED  BY <1>1, InitTyped, StepTyped, PTL DEF Spec

(* No path keeps the route of an earlier use: the early exit of path.c:116  *)
(* is never taken, neither for a path of the pool nor for a reverse path.   *)
THEOREM RoutesForgotten == Spec => []NoEarlyExit
<1>1. SInv => NoEarlyExit
    BY DEF SInv, SessionsOK, SessionOK, PoolReset, FreePath, NoEarlyExit
<1> QED  BY <1>1, InitTyped, StepTyped, PTL DEF Spec

-------------------------------------------------------------------------------
(* Who refers to which path *)

Refers(c, p) == \E i \in DOMAIN sess[c].fwd : sess[c].fwd[i] = p

Exclusive ==
    \A c, d \in Conns : \A i \in DOMAIN sess[c].fwd, j \in DOMAIN sess[d].fwd :
        sess[c].fwd[i] = sess[d].fwd[j] => c = d /\ i = j

NoLeak == \A p \in Paths : pool[p].busy => \E c \in Conns : Refers(c, p)

(* A recipient that is not local belongs to a session that has a user.      *)
UserForRemote ==
    \A c \in Conns : sess[c].user = None =>
        \A i \in DOMAIN sess[c].fwd : pool[sess[c].fwd[i]].router # "none"

(* NoSharedPath is not inductive by itself: RCPT takes a path nobody else   *)
(* has because a path that somebody has is busy, and stays busy because     *)
(* nobody else gives it back.                                               *)
PathInv ==
    /\ Exclusive
    /\ RefsAreBusy
    /\ ~LinesAfterClose => NoLeak
    /\ UserForRemote

LEMMA FwdInPaths ==
    ASSUME SInv, NEW c \in Conns, NEW i \in DOMAIN sess[c].fwd
    PROVE  sess[c].fwd[i] \in Paths
BY DEF SInv, TypeOK, Session

LEMMA KeptPaths ==
    ASSUME SInv, PathInv, NEW c \in Conns, LeftAlone(c)
    PROVE  PathInv'
<1>1. PICK s : Becomes(c, s) /\ Keeps(sess[c], s)
    BY DEF LeftAlone
<1>2. \A d \in Conns : /\ sess'[d].fwd = sess[d].fwd
                       /\ sess'[d].user = sess[d].user \/ sess'[d].fwd = <<>>
    BY <1>1 DEF Becomes, Keeps, SInv, TypeOK
<1>3. pool' = pool
    BY DEF LeftAlone
<1>4. Exclusive' /\ RefsAreBusy'
    BY <1>2, <1>3 DEF PathInv, Exclusive, RefsAreBusy
<1>5. ~LinesAfterClose => NoLeak'
    BY <1>2, <1>3 DEF PathInv, NoLeak, Refers
<1>6. UserForRemote'
    BY <1>2, <1>3 DEF PathInv, UserForRemote
<1> QED  BY <1>4, <1>5, <1>6 DEF PathInv

\* What a session that has no recipients any more leaves to the others.
LEMMA GaveBackPaths ==
    ASSUME SInv, PathInv, NEW c \in Conns, GaveBack(c)
    PROVE  PathInv'
<1>1. PICK s : Becomes(c, s) /\ s.fwd = <<>>
    BY DEF GaveBack
<1>2. sess'[c].fwd = <<>> /\ \A d \in Conns \ {c} : sess'[d] = sess[d]
    BY <1>1 DEF Becomes, SInv, TypeOK
<1>3. \A p \in Paths : pool'[p] = IF Refers(c, p) THEN FreePath ELSE pool[p]
    BY DEF GaveBack, Returned, PathReset, Refers
<1>4. \A d \in Conns \ {c} : \A i \in DOMAIN sess[d].fwd :
          pool'[sess[d].fwd[i]] = pool[sess[d].fwd[i]]
    BY <1>3, FwdInPaths DEF PathInv, Exclusive, Refers
<1>5. Exclusive'
    BY <1>2 DEF PathInv, Exclusive
<1>6. RefsAreBusy'
    BY <1>2, <1>4 DEF PathInv, RefsAreBusy
<1>7. ASSUME ~LinesAfterClose, NEW p \in Paths, pool'[p].busy
      PROVE  \E d \in Conns : Refers(d, p)'
    <2>1. pool[p].busy /\ ~Refers(c, p)
        BY <1>3, <1>7, FreePathTyped
    <2>2. PICK d \in Conns : Refers(d, p)
        BY <1>7, <2>1 DEF PathInv, NoLeak
    <2> QED  BY <1>2, <2>1, <2>2 DEF Refers
<1>8. UserForRemote'
    BY <1>2, <1>4 DEF PathInv, UserForRemote
<1> QED  BY <1>5, <1>6, <1>7, <1>8 DEF PathInv, NoLeak

LEMMA BeganPaths ==
    ASSUME SInv, PathInv, NEW c \in Conns, Began(c)
    PROVE  PathInv'
<1>1. PICK s : Becomes(c, s) /\ s.fwd = <<>>
    BY DEF Began
<1>2. /\ sess'[c].fwd = <<>> /\ \A d \in Conns \ {c} : sess'[d] = sess[d]
      /\ pool' = pool
    BY <1>1 DEF Becomes, Began, SInv, TypeOK
<1>3. Exclusive' /\ RefsAreBusy' /\ UserForRemote'
    BY <1>2 DEF PathInv, Exclusive, RefsAreBusy, UserForRemote
<1>4. ASSUME ~LinesAfterClose
      PROVE  NoLeak'
    <2>1. sess[c].fwd = <<>>
        BY <1>4, SessionAt DEF Began, SessionOK
    <2>2. \A d \in Conns : sess'[d].fwd = sess[d].fwd
        BY <1>2, <2>1
    <2> QED  BY <1>2, <1>4, <2>2 DEF PathInv, NoLeak, Refers
<1> QED  BY <1>3, <1>4 DEF PathInv

LEMMA TookPaths ==
    ASSUME SInv, PathInv, NEW c \in Conns, Took(c)
    PROVE  PathInv'
<1> DEFINE p == FirstFree
           f == sess[c].fwd
<1>1. PICK s, path :
          /\ Becomes(c, s)
          /\ s.fwd = Append(f, p) /\ s.user = sess[c].user
          /\ path \in PathType /\ path.busy /\ path.addr \in Addrs
          /\ path.router = "none" => s.user # None
          /\ pool' = [pool EXCEPT ![p] = path]
    BY DEF Took
<1>2. p \in Paths /\ ~pool[p].busy
    BY FirstFreeIsFree DEF Took, Free
<1> HIDE DEF p
<1>3. /\ sess'[c] = s /\ \A d \in Conns \ {c} : sess'[d] = sess[d]
      /\ pool'[p] = path /\ \A q \in Paths \ {p} : pool'[q] = pool[q]
    BY <1>1, <1>2, PoolTyped DEF Becomes, SInv, TypeOK
<1>4. f \in Seq(Paths)
    BY DEF SInv, TypeOK, Session
<1>5. /\ Len(f) \in Nat /\ DOMAIN f = 1..Len(f) /\ DOMAIN s.fwd = 1..(Len(f) + 1)
      /\ s.fwd[Len(f) + 1] = p /\ \A i \in DOMAIN f : s.fwd[i] = f[i]
    BY <1>1, <1>2, <1>4
<1>6. \A i \in DOMAIN s.fwd : i \in DOMAIN f \/ i = Len(f) + 1
    BY <1>5
<1>7. \A d \in Conns : \A i \in DOMAIN sess[d].fwd :
          sess[d].fwd[i] \in Paths \ {p}
    BY <1>2, FwdInPaths DEF PathInv, RefsAreBusy
<1>8. \A d \in Conns \ {c} : \A i \in DOMAIN sess[d].fwd :
          pool'[sess[d].fwd[i]] = pool[sess[d].fwd[i]]
    BY <1>3, <1>7
<1>9. \A i \in DOMAIN f : f[i] \in Paths \ {p} /\ pool'[f[i]] = pool[f[i]]
    BY <1>3, <1>7
<1> HIDE DEF f
<1>10. \A i, j \in DOMAIN f : f[i] = f[j] => i = j
    BY DEF PathInv, Exclusive, f
<1>11. \A d \in Conns \ {c} : \A i \in DOMAIN f, j \in DOMAIN sess[d].fwd :
           f[i] # sess[d].fwd[j]
    BY DEF PathInv, Exclusive, f
<1>12. \A i, j \in DOMAIN s.fwd : s.fwd[i] = s.fwd[j] => i = j
    BY <1>5, <1>6, <1>9, <1>10
<1>13. \A d \in Conns \ {c} : \A i \in DOMAIN s.fwd, j \in DOMAIN sess[d].fwd :
           s.fwd[i] # sess[d].fwd[j]
    BY <1>5, <1>6, <1>7, <1>11
<1>14. Exclusive'
    <2> SUFFICES ASSUME NEW d \in Conns, NEW e \in Conns,
                        NEW i \in DOMAIN sess'[d].fwd, NEW j \in DOMAIN sess'[e].fwd,
                        sess'[d].fwd[i] = sess'[e].fwd[j]
                 PROVE  d = e /\ i = j
        BY DEF Exclusive
    <2>1. CASE d = c /\ e = c
        BY <1>3, <1>12, <2>1
    <2>2. CASE d = c /\ e # c
        BY <1>3, <1>13, <2>2
    <2>3. CASE d # c /\ e = c
        BY <1>3, <1>13, <2>3
    <2>4. CASE d # c /\ e # c
        BY <1>3, <2>4 DEF PathInv, Exclusive
    <2> QED  BY <2>1, <2>2, <2>3, <2>4
<1>15. \A i \in DOMAIN s.fwd : pool'[s.fwd[i]].busy
    BY <1>1, <1>3, <1>5, <1>6, <1>9 DEF PathInv, RefsAreBusy, f
<1>16. RefsAreBusy'
    <2> SUFFICES ASSUME NEW d \in Conns, NEW i \in DOMAIN sess'[d].fwd
                 PROVE  pool'[sess'[d].fwd[i]].busy
        BY DEF RefsAreBusy
    <2>1. CASE d = c
        BY <1>3, <1>15, <2>1
    <2>2. CASE d # c
        BY <1>3, <1>8, <2>2 DEF PathInv, RefsAreBusy
    <2> QED  BY <2>1, <2>2
<1>17. ASSUME ~LinesAfterClose, NEW q \in Paths, pool'[q].busy
       PROVE  \E d \in Conns : Refers(d, q)'
    <2>1. CASE q = p
        <3>1. Len(f) + 1 \in DOMAIN sess'[c].fwd /\ sess'[c].fwd[Len(f) + 1] = q
            BY <1>3, <1>5, <2>1
        <3> QED  BY <3>1 DEF Refers
    <2>2. CASE q # p
        <3>1. PICK d \in Conns : Refers(d, q)
            BY <1>3, <1>17, <2>2 DEF PathInv, NoLeak
        <3>2. CASE d = c
            <4>1. PICK i \in DOMAIN f : f[i] = q
                BY <3>1, <3>2 DEF Refers, f
            <4>2. i \in DOMAIN s.fwd /\ s.fwd[i] = q
                BY <1>5, <4>1
            <4>3. Refers(c, q)'
                BY <1>3, <4>2 DEF Refers
            <4> QED  BY <4>3
        <3>3. CASE d # c
            BY <1>3, <3>1, <3>3 DEF Refers
        <3> QED  BY <3>2, <3>3
    <2> QED  BY <2>1, <2>2
<1>18. UserForRemote'
    <2> SUFFICES ASSUME NEW d \in Conns, sess'[d].user = None,
                        NEW i \in DOMAIN sess'[d].fwd
                 PROVE  pool'[sess'[d].fwd[i]].router # "none"
        BY DEF UserForRemote
    <2>1. CASE d = c
        <3>1. CASE i \in DOMAIN f
            <4>1. sess'[d].fwd[i] = f[i] /\ pool'[f[i]] = pool[f[i]]
                BY <1>3, <1>5, <1>9, <2>1, <3>1
            <4>2. sess[c].user = None
                BY <1>1, <1>3, <2>1
            <4>3. pool[f[i]].router # "none"
                BY <3>1, <4>2 DEF PathInv, UserForRemote, f
            <4> QED  BY <4>1, <4>3
        <3>2. CASE i = Len(f) + 1
            BY <1>1, <1>3, <1>5, <2>1, <3>2
        <3> QED  BY <1>3, <1>6, <2>1, <3>1, <3>2
    <2>2. CASE d # c
        BY <1>3, <1>8, <2>2 DEF PathInv, UserForRemote
    <2> QED  BY <2>1, <2>2
<1> QED  BY <1>14, <1>16, <1>17, <1>18 DEF PathInv, NoLeak

-------------------------------------------------------------------------------
(* The theorems about paths *)

LEMMA NewSlotsPaths ==
    ASSUME NEW f, f = NewSlots
    PROVE  \A c \in Conns : f[c].fwd = <<>>
BY NewSlotsOK DEF NewSlots

LEMMA InitPaths == Init => PathInv
<1> SUFFICES ASSUME Init PROVE PathInv
    OBVIOUS
<1>1. \A c \in Conns : sess[c].fwd = <<>>
    BY NewSlotsPaths DEF Init
<1> QED  BY <1>1, FreePathTyped
        DEF Init, PathInv, Exclusive, RefsAreBusy, NoLeak, UserForRemote

LEMMA StepPaths == SInv /\ PathInv /\ [Next]_vars => PathInv'
<1> SUFFICES ASSUME SInv, PathInv, [Next]_vars PROVE PathInv'
    OBVIOUS
<1>1. ASSUME NEW c \in Conns, Shape(c)
      PROVE  PathInv'
    BY <1>1, KeptPaths, GaveBackPaths, BeganPaths, TookPaths DEF Shape, PathStep
<1>2. CASE Restarted
    <2>1. \A c \in Conns : sess'[c].fwd = <<>>
        BY <1>2, NewSlotsPaths DEF Restarted
    <2> QED  BY <1>2, <2>1, FreePathTyped
            DEF Restarted, PathInv, Exclusive, RefsAreBusy, NoLeak, UserForRemote
<1>3. CASE UNCHANGED vars
    BY <1>3 DEF vars, PathInv, Exclusive, RefsAreBusy, NoLeak, Refers, UserForRemote
<1> QED  BY <1>1, <1>2, <1>3, StepShape, Restarts DEF Next

(* However many clients share the pool, whatever they send, also behind the *)
(* line that closes their connection, and wherever their connections end:   *)
(* no path is a recipient of two mails or of one mail twice, and a path     *)
(* that a mail refers to is not given to another.                           *)
THEOREM PoolSafety == Spec => [](NoSharedPath /\ RefsAreBusy)
<1>1. SInv /\ PathInv => NoSharedPath /\ RefsAreBusy
    BY DEF PathInv, Exclusive, NoSharedPath, Refs
<1> QED  BY <1>1, InitTyped, StepTyped, InitPaths, StepPaths, PTL DEF Spec

(* The pool leaks nothing if clients send nothing behind the line that      *)
(* closes their connection: every path in use is a recipient of some mail.  *)
THEOREM PoolComplete ==
    ASSUME ~LinesAfterClose
    PROVE  Spec => []BusyIsReferred
<1>1. SInv /\ PathInv => BusyIsReferred
    <2> SUFFICES ASSUME PathInv, NEW p \in Paths, pool[p].busy
                 PROVE  \E c \in Conns : Refs(c, p) # {}
        BY DEF BusyIsReferred
    <2>1. PICK c \in Conns : Refers(c, p)
        BY DEF PathInv, NoLeak
    <2> QED  BY <2>1 DEF Refers, Refs
<1> QED  BY <1>1, InitTyped, StepTyped, InitPaths, StepPaths, PTL DEF Spec

-------------------------------------------------------------------------------
(* The theorem about mail that leaves *)

\* Tables are recorded for recipients only.
LEMMA InOrderTables ==
    ASSUME NEW t, Len(t) \in Nat, NEW r \in InOrder(t)
    PROVE  DOMAIN r.tables \subseteq 1..Len(t)
<1>1. r.tables = Tables(t, Len(t)) \/ \E k \in 1..Len(t) : r.tables = Tables(t, k - 1)
    BY DEF InOrder
<1>2. \A k \in Nat : DOMAIN Tables(t, k) = 1..k
    BY DEF Tables
<1>3. CASE r.tables = Tables(t, Len(t))
    BY <1>2, <1>3
<1>4. ASSUME NEW k \in 1..Len(t), r.tables = Tables(t, k - 1)
      PROVE  DOMAIN r.tables \subseteq 1..Len(t)
    <2>1. k - 1 \in Nat /\ k - 1 <= Len(t)
        BY <1>4
    <2>2. DOMAIN r.tables = 1..(k - 1)
        BY <1>2, <1>4, <2>1
    <2> QED  BY <2>1, <2>2
<1> QED  BY <1>1, <1>3, <1>4

LEMMA MailRouteTables ==
    ASSUME NEW rcpts, Len(rcpts) \in Nat, NEW r \in MailRoute(rcpts)
    PROVE  DOMAIN r.tables \subseteq 1..Len(rcpts)
<1> DEFINE t == [i \in 1..Len(rcpts) |->
                    IF rcpts[i].router = "none" THEN Insert("outbox")
                    ELSE RouteLocal(rcpts[i].addr, rcpts[i].router)]
<1>1. Len(t) = Len(rcpts)
    OBVIOUS
<1>2. r \in InOrder(t)
    BY DEF MailRoute
<1> HIDE DEF t
<1> QED  BY <1>1, <1>2, InOrderTables

LEMMA RcptsLength ==
    ASSUME NEW s \in Session
    PROVE  /\ Len(Rcpts(s)) = Len(s.fwd) /\ Len(s.fwd) \in Nat
           /\ DOMAIN s.fwd = 1..Len(s.fwd)
           /\ \A i \in DOMAIN s.fwd : Rcpts(s)[i].router = pool[s.fwd[i]].router
<1>1. s.fwd \in Seq(Paths)
    BY DEF Session
<1> QED  BY <1>1 DEF Rcpts

LEMMA DotForUsers ==
    ASSUME SInv, PathInv, RelayForUsersOnly, NEW c \in Conns, Dot(c)
    PROVE  RelayForUsersOnly'
<1> DEFINE s == sess[c]
<1>1. s \in Session /\ SessionOK(s)
    BY SessionAt
<1>3. CASE s.user # None /\ receipt'.user = s.user
    BY <1>3 DEF RelayForUsersOnly
<1>4. ASSUME s.user = None, NEW r \in MailRoute(Rcpts(s)),
             receipt'.rcpts = Rcpts(s), receipt'.tables = r.tables
      PROVE  RelayForUsersOnly'
    <2>1. DOMAIN r.tables \subseteq DOMAIN s.fwd
        BY <1>1, RcptsLength, MailRouteTables
    <2>2. \A i \in DOMAIN s.fwd : Rcpts(s)[i].router # "none"
        BY <1>1, <1>4, RcptsLength DEF PathInv, UserForRemote
    <2> QED  BY <1>4, <2>1, <2>2 DEF RelayForUsersOnly
<1>5. PICK r : /\ receipt' = Receipt(s, r)
               /\ ~s.named => r \in MailRoute(Rcpts(s))
    BY DEF Dot, Outcomes
<1>6. s.user = None => ~s.named
    BY <1>1 DEF SessionOK
<1>7. receipt'.user = s.user /\ receipt'.rcpts = Rcpts(s) /\ receipt'.tables = r.tables
    BY <1>5 DEF Receipt
<1> QED  BY <1>3, <1>4, <1>5, <1>6, <1>7

LEMMA StepForUsers ==
    SInv /\ PathInv /\ RelayForUsersOnly /\ [Next]_vars => RelayForUsersOnly'
<1> SUFFICES ASSUME SInv, PathInv, RelayForUsersOnly, [Next]_vars
             PROVE  RelayForUsersOnly'
    OBVIOUS
<1>1. CASE receipt' = receipt
    BY <1>1 DEF RelayForUsersOnly
<1>2. receipt' = receipt \/ \E c \in Conns : Dot(c)
    BY StepDot
<1> QED  BY <1>1, <1>2, DotForUsers

(* Whatever the clients send and whatever fails, a mail goes into the       *)
(* outbox for a recipient that is not local only on behalf of a user: a     *)
(* recipient accepted for a user cannot outlive the login, and nobody       *)
(* else's recipient can take its place in the pool.                         *)
THEOREM RelaySafety == Spec => []RelayForUsersOnly
<1>1. Init => RelayForUsersOnly
    BY DEF Init, NoMail, RelayForUsersOnly
<1> QED  BY <1>1, InitTyped, StepTyped, InitPaths, StepPaths, StepForUsers, PTL DEF Spec

-------------------------------------------------------------------------------
(* The theorem about mail that is accepted *)

\* Where a recipient's own router sends a mail.
RouterDue(router) ==
    CASE router \in {"none", "redirect", "handoff"} -> "outbox"
      [] router = "store" -> "mailbox"
      [] OTHER -> "none"

LEMMA InsertKeeps ==
    ASSUME NEW table, NEW r \in Insert(table), r.rv = 0
    PROVE  r.table = table
BY DEF Insert, Kept, Failed, Deferred

LEMMA RouteLocalKeeps ==
    ASSUME NEW a, NEW router, router # "none", NEW r \in RouteLocal(a, router), r.rv = 0
    PROVE  r.table = RouterDue(router)
<1>1. CASE router = "store"
    <2>1. r \in {Failed} \/ r \in Insert("mailbox")
        BY <1>1 DEF RouteLocal
    <2>2. r.table = "mailbox"
        BY <2>1, InsertKeeps DEF Failed
    <2> QED  BY <1>1, <2>2 DEF RouterDue
<1>2. CASE router \in {"redirect", "handoff"}
    <2>1. r \in {Failed} \/ r \in Insert("outbox")
        BY <1>2 DEF RouteLocal
    <2>2. r.table = "outbox"
        BY <2>1, InsertKeeps DEF Failed
    <2> QED  BY <1>2, <2>2 DEF RouterDue
<1>3. CASE router = "reject"
    BY <1>3 DEF RouteLocal, Failed
<1>4. CASE router \notin {"store", "redirect", "handoff", "reject"}
    BY <1>4 DEF RouteLocal, Kept, RouterDue
<1> QED  BY <1>1, <1>2, <1>3, <1>4

\* A mail is accepted when every recipient was kept.
LEMMA InOrderAccepted ==
    ASSUME NEW t, Len(t) \in Nat, NEW r \in InOrder(t), r.answer = "250"
    PROVE  /\ DOMAIN r.tables = 1..Len(t)
           /\ \A i \in 1..Len(t) : \E q \in t[i] : q.rv = 0 /\ r.tables[i] = q.table
           /\ r.tables = [i \in 1..Len(t) |-> r.tables[i]]
<1>1. r.tables = Tables(t, Len(t)) /\ Passes(t, Len(t))
    BY DEF InOrder
<1>2. r.tables = [i \in 1..Len(t) |-> (CHOOSE q \in t[i] : q.rv = 0).table]
    BY <1>1 DEF Tables
<1>3. \A i \in 1..Len(t) : \E q \in t[i] : q.rv = 0
    BY <1>1 DEF Passes
<1> QED  BY <1>2, <1>3

LEMMA MailRouteAccepted ==
    ASSUME NEW rcpts, Len(rcpts) \in Nat, NEW r \in MailRoute(rcpts), r.answer = "250"
    PROVE  r.tables = [i \in 1..Len(rcpts) |-> RouterDue(rcpts[i].router)]
<1> DEFINE out(i) == IF rcpts[i].router = "none" THEN Insert("outbox")
                     ELSE RouteLocal(rcpts[i].addr, rcpts[i].router)
           t == [i \in 1..Len(rcpts) |-> out(i)]
<1>1. Len(t) = Len(rcpts) /\ \A i \in 1..Len(rcpts) : t[i] = out(i)
    OBVIOUS
<1>2. r \in InOrder(t)
    BY DEF MailRoute
<1> HIDE DEF t
<1>3. /\ \A i \in 1..Len(t) : \E q \in t[i] : q.rv = 0 /\ r.tables[i] = q.table
      /\ r.tables = [i \in 1..Len(t) |-> r.tables[i]]
    <2>1. Len(t) \in Nat
        BY <1>1
    <2> QED  BY <1>2, <2>1, InOrderAccepted
<1>4. \A i \in 1..Len(rcpts) : \E q \in out(i) : q.rv = 0 /\ r.tables[i] = q.table
    BY <1>1, <1>3
<1>5. ASSUME NEW i \in 1..Len(rcpts)
      PROVE  r.tables[i] = RouterDue(rcpts[i].router)
    <2>1. PICK q \in out(i) : q.rv = 0 /\ r.tables[i] = q.table
        BY <1>1, <1>4
    <2>2. CASE rcpts[i].router = "none"
        BY <2>1, <2>2, InsertKeeps DEF RouterDue
    <2>3. CASE rcpts[i].router # "none"
        BY <2>1, <2>3, RouteLocalKeeps
    <2> QED  BY <2>2, <2>3
<1> QED  BY <1>1, <1>3, <1>5

LEMMA HandoffAccepted ==
    ASSUME NEW n \in Nat, NEW r \in InOrder([i \in 1..n |-> Insert("outbox")]), r.answer = "250"
    PROVE  r.tables = [i \in 1..n |-> "outbox"]
<1> DEFINE t == [i \in 1..n |-> Insert("outbox")]
<1>1. Len(t) = n /\ \A i \in 1..n : t[i] = Insert("outbox")
    OBVIOUS
<1> HIDE DEF t
<1>2. r \in InOrder(t)
    BY DEF t
<1>3. /\ \A i \in 1..Len(t) : \E q \in t[i] : q.rv = 0 /\ r.tables[i] = q.table
      /\ r.tables = [i \in 1..Len(t) |-> r.tables[i]]
    <2>1. Len(t) \in Nat
        BY <1>1
    <2> QED  BY <1>2, <2>1, InOrderAccepted
<1>4. \A i \in 1..n : r.tables[i] = "outbox"
    BY <1>1, <1>3, InsertKeeps
<1> QED  BY <1>1, <1>3, <1>4

\* Where the mail of a user goes, by the outbound route and the recipient's
\* router.
UserDue(user, router) ==
    CASE OutRouter[user] = "drop" -> "none"
      [] OutRouter[user] = "handoff" -> IF user \in BareOut THEN "none" ELSE "outbox"
      [] OTHER -> RouterDue(router)

LEMMA MailOriginateAccepted ==
    ASSUME NEW user \in Users, NEW route \in {OutRouter[user], "none"},
           NEW rcpts, Len(rcpts) \in Nat,
           NEW r \in MailOriginate(user, route, rcpts), r.answer = "250"
    PROVE  r.tables = [i \in 1..Len(rcpts) |-> UserDue(user, rcpts[i].router)]
<1>1. route # "none" /\ route = OutRouter[user]
    BY DEF MailOriginate
<1>2. CASE route = "drop" \/ (route = "handoff" /\ user \in BareOut)
    <2>1. r.tables = [i \in 1..Len(rcpts) |-> "none"]
        BY <1>1, <1>2 DEF MailOriginate
    <2> QED  BY <1>1, <1>2, <2>1 DEF UserDue
<1>3. CASE route = "handoff" /\ user \notin BareOut
    <2>1. r \in InOrder([i \in 1..Len(rcpts) |-> Insert("outbox")])
        BY <1>1, <1>3 DEF MailOriginate
    <2>2. r.tables = [i \in 1..Len(rcpts) |-> "outbox"]
        BY <2>1, HandoffAccepted
    <2> QED  BY <1>1, <1>3, <2>2 DEF UserDue
<1>4. CASE route \notin {"drop", "handoff"}
    <2>1. r \in MailRoute(rcpts)
        BY <1>1, <1>4 DEF MailOriginate
    <2>2. r.tables = [i \in 1..Len(rcpts) |-> RouterDue(rcpts[i].router)]
        BY <2>1, MailRouteAccepted
    <2> QED  BY <1>1, <1>4, <2>2 DEF UserDue
<1> QED  BY <1>2, <1>3, <1>4

\* AcceptedIsKept, with the tables as a function of user and router only.
WhereDue(user, router) == IF user = None THEN RouterDue(router) ELSE UserDue(user, router)
ReceiptOK ==
    Accepted => receipt.tables = [i \in DOMAIN receipt.rcpts |->
                                     WhereDue(receipt.user, receipt.rcpts[i].router)]

LEMMA ReceiptKept == ReceiptOK => AcceptedIsKept
<1>1. \A r : Due(r) = WhereDue(receipt.user, r.router)
    BY DEF Due, WhereDue, UserDue, RouterDue
<1> QED  BY <1>1 DEF ReceiptOK, AcceptedIsKept

LEMMA DotKeeps ==
    ASSUME SInv, ReceiptOK, NEW c \in Conns, Dot(c)
    PROVE  ReceiptOK'
<1> DEFINE s == sess[c]
           rcpts == Rcpts(s)
<1>1. /\ s \in Session /\ SessionOK(s) /\ s.user \in Users \cup {None}
    BY SessionAt DEF Session
<1>2. Len(rcpts) \in Nat /\ DOMAIN rcpts = 1..Len(rcpts)
    BY <1>1, RcptsLength DEF Rcpts
<1>3. PICK r : /\ receipt' = Receipt(s, r)
               /\ r \in IF ~s.named THEN MailRoute(rcpts)
                        ELSE MailOriginate(s.user, s.route, rcpts)
    BY DEF Dot, Outcomes
<1>4. /\ receipt'.answer = r.answer /\ receipt'.user = s.user /\ receipt'.rcpts = rcpts
      /\ receipt'.tables = r.tables
    BY <1>3 DEF Receipt
<1> HIDE DEF rcpts
<1>5. SUFFICES ASSUME r.answer = "250"
               PROVE  r.tables = [i \in 1..Len(rcpts) |-> WhereDue(s.user, rcpts[i].router)]
    BY <1>2, <1>4 DEF ReceiptOK, Accepted
<1>6. CASE s.user = None
    <2>1. r.tables = [i \in 1..Len(rcpts) |-> RouterDue(rcpts[i].router)]
        BY <1>1, <1>2, <1>3, <1>5, <1>6, MailRouteAccepted DEF SessionOK
    <2> QED  BY <1>6, <2>1 DEF WhereDue
<1>7. CASE s.user # None
    <2>1. s.user \in Users /\ s.route \in {OutRouter[s.user], "none"} /\ s.named
        BY <1>1, <1>7 DEF SessionOK
    <2>2. r.tables = [i \in 1..Len(rcpts) |-> UserDue(s.user, rcpts[i].router)]
        BY <1>2, <1>3, <1>5, <2>1, MailOriginateAccepted
    <2> QED  BY <1>7, <2>2 DEF WhereDue
<1> QED  BY <1>6, <1>7

LEMMA StepKeeps == SInv /\ ReceiptOK /\ [Next]_vars => ReceiptOK'
<1> SUFFICES ASSUME SInv, ReceiptOK, [Next]_vars
             PROVE  ReceiptOK'
    OBVIOUS
<1>1. CASE receipt' = receipt
    BY <1>1 DEF ReceiptOK, Accepted
<1>2. receipt' = receipt \/ \E c \in Conns : Dot(c)
    BY StepDot
<1> QED  BY <1>1, <1>2, DotKeeps

(* A mail that smtpd has answered with 250 was kept for every one of its    *)
(* recipients, in the table the sender's outbound route or the recipient's  *)
(* router asks for, whichever lookups and inserts have failed before and    *)
(* however many recipients there are, those of a full array included: then  *)
(* all are stored before what lies behind the array decides the answer.     *)
THEOREM AcceptedSafety == Spec => []AcceptedIsKept
<1>1. Init => ReceiptOK
    BY DEF Init, NoMail, ReceiptOK, Accepted
<1> QED  BY <1>1, ReceiptKept, InitTyped, StepTyped, StepKeeps, PTL DEF Spec

-------------------------------------------------------------------------------
(* What a session is prepared for *)

(* Where a name is taken in TLS only, it came in TLS, or is about to.       *)
TlsOK(s) ==
    AuthOffer = "TLSONLY" /\ FixedUser = None /\ s.open /\ (s.user # None \/ s.state = "AUTH") =>
        s.tls = "ONLY"

(* The first mail of a connection has the listener's limit, and a line is   *)
(* dropped once the mail has grown to it.                                   *)
CutOK(s) == s.max \in {0, MaxSize} /\ (s.cut => s.max > 0 /\ s.size >= s.max)

(* The sender of a mail that is being submitted was looked up for the user  *)
(* who submits it.                                                          *)
OwnPathOK(s) ==
    s.state \in {"RECIPIENTS", "DATA"} /\ s.user # None /\ OutRouter[s.user] = "defined" =>
        s.user \in StoreUsers[s.rev.addr]

(* A mail has recipients when its data begins.                              *)
ToSomebody(s) == s.state = "DATA" => s.fwd # <<>>

Prepared(s) == TlsOK(s) /\ CutOK(s) /\ OwnPathOK(s) /\ ToSomebody(s)

(* A client that hangs up in the middle of a mail leaves a slot in state    *)
(* DATA without recipients: only slots a line can still reach are prepared. *)
PreparedInv == \A c \in Conns : sess[c].open \/ active = c => Prepared(sess[c])
ReceiptInv == CutOnlyAtLimit /\ SendsFromOwnPaths

LEMMA BecomesPrepared ==
    ASSUME SInv, PreparedInv, NEW c \in Conns, NEW s, sess' = [sess EXCEPT ![c] = s],
           Prepared(s), active' \in {c, None} \/ active' = active
    PROVE  PreparedInv'
<1>1. sess'[c] = s /\ \A d \in Conns : d # c => sess'[d] = sess[d]
    BY DEF SInv, TypeOK
<1>2. None \notin Conns
    BY SmtpAssumption
<1> QED  BY <1>1, <1>2 DEF PreparedInv

LEMMA ClosedPrepared ==
    ASSUME NEW s \in Session, s.state # "DATA"
    PROVE  Prepared(Closed(s))
<1> DEFINE m == [s EXCEPT !.rev = NoRev, !.fwd = <<>>, !.size = 0, !.max = 0,
                          !.head = TRUE, !.hops = 0, !.cut = FALSE]
           t == [[m EXCEPT !.named = FALSE, !.user = None, !.route = "none"]
                    EXCEPT !.open = FALSE, !.tls = "NONE"]
<1>1. ~t.open /\ t.user = None /\ t.max = 0 /\ ~t.cut /\ t.state = s.state
    BY DEF Session
<1>2. Closed(s) = t
    BY DEF Closed, LogOut, MailReset
<1> HIDE DEF t
<1>3. Prepared(t)
    BY <1>1 DEF Prepared, TlsOK, CutOK, OwnPathOK, ToSomebody
<1> QED  BY <1>2, <1>3

LEMMA ScoredPrepared ==
    ASSUME NEW s \in Session, Prepared(s), NEW n
    PROVE  Prepared([s EXCEPT !.score = n])
<1> DEFINE t == [s EXCEPT !.score = n]
<1>1. /\ t.open = s.open /\ t.user = s.user /\ t.max = s.max /\ t.cut = s.cut /\ t.tls = s.tls
      /\ t.state = s.state /\ t.size = s.size /\ t.rev = s.rev /\ t.fwd = s.fwd
    BY DEF Session
<1> HIDE DEF t
<1>2. Prepared(t)
    BY <1>1 DEF Prepared, TlsOK, CutOK, OwnPathOK, ToSomebody
<1> QED  BY <1>2 DEF t

\* Whatever a handler returns, when the session it leaves is prepared.
LEMMA HandledPrepared ==
    ASSUME SInv, PreparedInv, NEW c \in Conns, NEW s \in Session, Prepared(s), NEW q,
           \/ Stay(c, s, q) \/ Reward(c, s, q) \/ Reject(c, s, q)
           \/ CloseConn(c, s, q) /\ (active' = None \/ (active' = c /\ s.state # "DATA"))
    PROVE  PreparedInv'
<1>1. CASE Stay(c, s, q)
    BY <1>1, BecomesPrepared DEF Stay
<1>2. CASE Reward(c, s, q)
    <2> DEFINE t == [s EXCEPT !.score = IF @ < MaxScore THEN @ + 1 ELSE @]
    <2>1. Prepared(t)
        BY ScoredPrepared
    <2>2. sess' = [sess EXCEPT ![c] = t] /\ active' = c
        BY <1>2 DEF Reward, Stay
    <2> HIDE DEF t
    <2> QED  BY <2>1, <2>2, BecomesPrepared
<1>3. CASE CloseConn(c, s, q) /\ active' = None
    <2>1. sess'[c] = Closed(s) /\ \A d \in Conns : d # c => sess'[d] = sess[d]
        BY <1>3 DEF CloseConn, SInv, TypeOK
    <2>2. ~Closed(s).open
        BY DEF Closed, LogOut, MailReset, Session
    <2> QED  BY <1>3, <2>1, <2>2, SmtpAssumption DEF PreparedInv
<1>5. CASE CloseConn(c, s, q) /\ active' = c /\ s.state # "DATA"
    BY <1>5, ClosedPrepared, BecomesPrepared DEF CloseConn
<1>4. CASE Reject(c, s, q)
    <2>1. CASE s.score - 1 < FailLimit
        BY <1>3, <1>4, <2>1 DEF Reject
    <2>2. CASE ~(s.score - 1 < FailLimit)
        <3> DEFINE t == [s EXCEPT !.score = @ - 1]
        <3>1. Prepared(t)
            BY ScoredPrepared
        <3>2. sess' = [sess EXCEPT ![c] = t] /\ active' = c
            BY <1>4, <2>2 DEF Reject
        <3> HIDE DEF t
        <3> QED  BY <3>1, <3>2, BecomesPrepared
    <2> QED  BY <2>1, <2>2
<1> QED  BY <1>1, <1>2, <1>3, <1>4, <1>5

\* A line finds its session prepared.
LEMMA LinePrepared ==
    ASSUME SInv, PreparedInv, NEW c \in Conns, NEW state, Line(c, state)
    PROVE  sess[c] \in Session /\ SessionOK(sess[c]) /\ Prepared(sess[c])
BY SessionAt DEF PreparedInv, Line

\* A session without a mail that has its connection's TLS mode and user.
LEMMA IdlePrepared ==
    ASSUME NEW s, NEW t, Prepared(s), t.open = s.open, t.tls = s.tls, t.max = s.max,
           t.cut = s.cut, t.size = s.size, t.state \notin {"RECIPIENTS", "DATA"},
           t.user # None \/ t.state = "AUTH" => TlsOK(t)
    PROVE  Prepared(t)
BY DEF Prepared, CutOK, OwnPathOK, ToSomebody, TlsOK

LEMMA ResetPrepared ==
    ASSUME NEW s \in Session, Prepared(s), NEW state \in {"NEW", "IDLE"}
    PROVE  Prepared([MailReset(s) EXCEPT !.state = state])
<1> DEFINE m == [s EXCEPT !.rev = NoRev, !.fwd = <<>>, !.size = 0, !.max = 0,
                          !.head = TRUE, !.hops = 0, !.cut = FALSE]
           t == [m EXCEPT !.state = state]
<1>1. /\ t.open = s.open /\ t.user = s.user /\ t.tls = s.tls /\ t.state = state
      /\ t.max = 0 /\ ~t.cut
    BY DEF Session
<1>2. t = [MailReset(s) EXCEPT !.state = state]
    BY DEF MailReset
<1> HIDE DEF t
<1>3. Prepared(t)
    BY <1>1 DEF Prepared, CutOK, OwnPathOK, ToSomebody, TlsOK
<1> QED  BY <1>2, <1>3

LEMMA ConnectionPrepared ==
    ASSUME SInv, PreparedInv, NEW c \in Conns, Connection(c)
    PROVE  PreparedInv'
<1> DEFINE s == sess[c]
<1>1. s \in Session /\ None \notin Conns
    BY SessionAt, SmtpAssumption
<1>2. CASE Accept(c)
    <2>1. PICK r : sess' = [sess EXCEPT ![c] =
                      NewSession(TRUE, IF ListenerTls = "ONLY" THEN "NEGOTIATE" ELSE "NONE",
                                 FixedUser, r, s.buf)]
        BY <1>2 DEF Accept
    <2> DEFINE t == NewSession(TRUE, IF ListenerTls = "ONLY" THEN "NEGOTIATE" ELSE "NONE",
                               FixedUser, r, s.buf)
    <2>2. t.state = "NEW" /\ t.user = FixedUser /\ t.max = MaxSize /\ ~t.cut
        BY DEF NewSession
    <2>3. active' = active /\ sess' = [sess EXCEPT ![c] = t]
        BY <1>2, <2>1 DEF Accept
    <2> HIDE DEF t
    <2>4. Prepared(t)
        BY <2>2 DEF Prepared, TlsOK, CutOK, OwnPathOK, ToSomebody
    <2> QED  BY <2>3, <2>4, BecomesPrepared
<1>3. CASE Handshake(c)
    <2> DEFINE t == [s EXCEPT !.tls = "ONLY"]
    <2>1. /\ t.open = s.open /\ t.user = s.user /\ t.max = s.max /\ t.cut = s.cut
          /\ t.tls = "ONLY" /\ t.state = s.state /\ t.size = s.size /\ t.rev = s.rev
          /\ t.fwd = s.fwd
        BY <1>1 DEF Session
    <2>2. active' = active /\ sess' = [sess EXCEPT ![c] = t] /\ Prepared(s)
        BY <1>3 DEF Handshake, PreparedInv
    <2> HIDE DEF t
    <2>3. Prepared(t)
        BY <2>1, <2>2 DEF Prepared, TlsOK, CutOK, OwnPathOK, ToSomebody
    <2> QED  BY <2>2, <2>3, BecomesPrepared
<1>4. CASE HangUp(c)
    <2>1. CloseConn(c, s, pool) /\ active' = None /\ Prepared(s)
        BY <1>4 DEF HangUp, PreparedInv
    <2> QED  BY <1>1, <2>1, HandledPrepared
<1>5. CASE MemTimeout(c)
    <2> DEFINE t == [MailReset(s) EXCEPT !.buf = FALSE]
    <2>1. t.open = s.open
        BY <1>1 DEF Session, MailReset
    <2>2. sess' = [sess EXCEPT ![c] = t] /\ ~s.open /\ active = None /\ active' = None
        BY <1>5 DEF MemTimeout
    <2> HIDE DEF t
    <2>3. sess'[c] = t /\ \A d \in Conns : d # c => sess'[d] = sess[d]
        BY <2>2 DEF SInv, TypeOK
    <2> QED  BY <1>1, <2>1, <2>2, <2>3 DEF PreparedInv
<1>6. CASE EndBatch(c)
    BY <1>1, <1>6 DEF EndBatch, PreparedInv
<1> QED  BY <1>2, <1>3, <1>4, <1>5, <1>6 DEF Connection

LEMMA GreetingPrepared ==
    ASSUME SInv, PreparedInv, NEW c \in Conns,
           Other(c) \/ QuitCmd(c) \/ Hello(c) \/ Rset(c) \/ StartTls(c)
    PROVE  PreparedInv'
<1> DEFINE s == sess[c]
<1>1. s \in Session /\ SessionOK(s) /\ Prepared(s)
    BY LinePrepared DEF Other, QuitCmd, Hello, Rset, StartTls
<1>2. CASE Other(c)
    BY <1>1, <1>2, HandledPrepared DEF Other
<1>3. CASE QuitCmd(c)
    BY <1>1, <1>3, HandledPrepared DEF QuitCmd, Line
<1>4. CASE Hello(c)
    <2> DEFINE t == [s EXCEPT !.state = "IDLE"]
    <2>1. /\ t \in Session /\ t.open = s.open /\ t.user = s.user /\ t.max = s.max
          /\ t.cut = s.cut /\ t.tls = s.tls /\ t.state = "IDLE" /\ t.size = s.size
        BY <1>1 DEF Session
    <2>2. Stay(c, t, pool)
        BY <1>4 DEF Hello
    <2> HIDE DEF t
    <2>3. Prepared(t)
        BY <1>1, <2>1, IdlePrepared DEF Prepared, TlsOK
    <2> QED  BY <2>1, <2>2, <2>3, HandledPrepared
<1>5. CASE Rset(c)
    <2> DEFINE t == [MailReset(s) EXCEPT !.state = "IDLE"]
    <2>1. t \in Session /\ Prepared(t)
        BY <1>1, ResetOK, ResetPrepared
    <2>2. Stay(c, t, Returned(pool, s))
        BY <1>5 DEF Rset
    <2> HIDE DEF t
    <2> QED  BY <2>1, <2>2, HandledPrepared
<1>6. CASE StartTls(c)
    <2> DEFINE n == [MailReset(s) EXCEPT !.state = "NEW"]
               t == [n EXCEPT !.tls = "NEGOTIATE"]
    <2>1. n \in Session /\ n.user = s.user /\ n.open = s.open /\ n.state = "NEW"
          /\ n.max = 0 /\ ~n.cut
        <3>1. n \in Session
            BY <1>1, ResetOK
        <3>2. n.user = s.user /\ n.open = s.open
            BY <1>1 DEF MailReset, Session
        <3>3. n.state = "NEW" /\ n.max = 0 /\ ~n.cut
            BY <1>1 DEF MailReset, Session
        <3> QED  BY <3>1, <3>2, <3>3
    <2>2. \/ Stay(c, s, pool) \/ Reject(c, s, pool)
          \/ s.tls = "NONE" /\ (Stay(c, t, Returned(pool, s)) \/ Reject(c, t, Returned(pool, s)))
        BY <1>1, <1>6 DEF StartTls
    <2> HIDE DEF n
    <2>3. /\ t \in Session /\ t.user = s.user /\ t.open = s.open /\ t.state = "NEW"
          /\ t.max = 0 /\ ~t.cut
        BY <2>1 DEF Session, TlsModes
    <2> HIDE DEF t
    <2>4. s.tls = "NONE" => Prepared(t)
        BY <1>1, <2>3 DEF Prepared, TlsOK, CutOK, OwnPathOK, ToSomebody
    <2> QED  BY <1>1, <2>2, <2>3, <2>4, HandledPrepared
<1> QED  BY <1>2, <1>3, <1>4, <1>5, <1>6

\* A name is given to a session that may have one.
LEMMA CredentialsPrepared ==
    ASSUME SInv, PreparedInv, NEW c \in Conns, NEW s \in Session, Prepared(s),
           AuthOffer = "TLSONLY" /\ FixedUser = None /\ s.open => s.tls = "ONLY",
           Credentials(c, s)
    PROVE  PreparedInv'
<1> DEFINE d == SaslDone(s)
<1>1. /\ d \in Session /\ d.open = s.open /\ d.tls = s.tls /\ d.max = s.max
      /\ d.cut = s.cut /\ d.size = s.size /\ d.state = "IDLE"
    BY DEF SaslDone, Session
<1>2. \/ Reject(c, d, pool)
      \/ Reject(c, [d EXCEPT !.named = FALSE, !.user = None], pool)
      \/ \E u \in Users : \E r \in OutboundRoutes(u) :
            Reward(c, [d EXCEPT !.named = TRUE, !.user = u, !.route = r], pool)
    BY DEF Credentials
<1> HIDE DEF d
<1>3. Prepared(d)
    BY <1>1, IdlePrepared DEF TlsOK
<1>4. CASE Reject(c, d, pool)
    BY <1>1, <1>3, <1>4, HandledPrepared
<1>5. CASE Reject(c, [d EXCEPT !.named = FALSE, !.user = None], pool)
    <2> DEFINE t == [d EXCEPT !.named = FALSE, !.user = None]
    <2>1. /\ t \in Session /\ t.open = s.open /\ t.tls = s.tls /\ t.max = s.max
          /\ t.cut = s.cut /\ t.size = s.size /\ t.state = "IDLE"
        BY <1>1 DEF Session
    <2> HIDE DEF t
    <2>2. Prepared(t)
        BY <2>1, IdlePrepared DEF TlsOK
    <2> QED  BY <1>5, <2>1, <2>2, HandledPrepared DEF t
<1>6. ASSUME NEW u \in Users, NEW r \in OutboundRoutes(u),
             Reward(c, [d EXCEPT !.named = TRUE, !.user = u, !.route = r], pool)
      PROVE  PreparedInv'
    <2> DEFINE t == [d EXCEPT !.named = TRUE, !.user = u, !.route = r]
    <2>1. r \in OutRouters \cup {"none"}
        BY RoutesTyped
    <2>2. /\ t \in Session /\ t.open = s.open /\ t.tls = s.tls /\ t.max = s.max
          /\ t.cut = s.cut /\ t.size = s.size /\ t.state = "IDLE"
        BY <1>1, <2>1 DEF Session
    <2> HIDE DEF t
    <2>3. Prepared(t)
        BY <2>2, IdlePrepared DEF TlsOK
    <2> QED  BY <1>6, <2>2, <2>3, HandledPrepared DEF t
<1> QED  BY <1>2, <1>4, <1>5, <1>6

LEMMA LoginPrepared ==
    ASSUME SInv, PreparedInv, NEW c \in Conns, AuthCmd(c) \/ SaslLine(c)
    PROVE  PreparedInv'
<1> DEFINE s == sess[c]
<1>1. s \in Session /\ SessionOK(s) /\ Prepared(s)
    BY LinePrepared DEF AuthCmd, SaslLine
<1>2. ASSUME NEW z \in Session, Prepared(z),
             AuthOffer = "TLSONLY" /\ FixedUser = None /\ z.open => z.tls = "ONLY"
      PROVE  SaslDone(z) \in Session /\ Prepared(SaslDone(z))
    <2> DEFINE d == SaslDone(z)
    <2>1. /\ d \in Session /\ d.open = z.open /\ d.tls = z.tls /\ d.max = z.max
          /\ d.cut = z.cut /\ d.size = z.size /\ d.state = "IDLE"
        BY DEF SaslDone, Session
    <2> HIDE DEF d
    <2>2. d \in Session /\ Prepared(d)
        BY <1>2, <2>1, IdlePrepared DEF TlsOK
    <2> QED  BY <2>2 DEF d
<1>3. CASE AuthCmd(c)
    <2> DEFINE t == [s EXCEPT !.state = "AUTH"]
               w == [t EXCEPT !.sasl = TRUE]
    <2>1. /\ t \in Session /\ t.open = s.open /\ t.tls = s.tls /\ t.max = s.max
          /\ t.cut = s.cut /\ t.size = s.size /\ t.state = "AUTH"
        BY <1>1 DEF Session
    <2>2. \/ Reject(c, s, pool)
          \/ /\ AuthAllowed(s)
             /\ Reject(c, SaslDone(t), pool) \/ Stay(c, w, pool) \/ Credentials(c, t)
        BY <1>3 DEF AuthCmd
    <2> HIDE DEF t
    <2>3. /\ w \in Session /\ w.open = s.open /\ w.tls = s.tls /\ w.max = s.max
          /\ w.cut = s.cut /\ w.size = s.size /\ w.state = "AUTH"
        BY <2>1 DEF Session
    <2> HIDE DEF w
    <2>4. CASE Reject(c, s, pool)
        BY <1>1, <2>4, HandledPrepared
    <2>5. CASE /\ AuthAllowed(s)
               /\ Reject(c, SaslDone(t), pool) \/ Stay(c, w, pool) \/ Credentials(c, t)
        <3>1. AuthOffer = "TLSONLY" => s.tls = "ONLY"
            BY <2>5 DEF AuthAllowed
        <3>2. Prepared(t)
            BY <1>1, <2>1, <3>1, IdlePrepared DEF TlsOK
        <3>3. Prepared(w)
            BY <1>1, <2>3, <3>1, IdlePrepared DEF TlsOK
        <3>4. SaslDone(t) \in Session /\ Prepared(SaslDone(t))
            BY <1>2, <2>1, <3>1, <3>2
        <3> QED  BY <2>1, <2>3, <2>5, <3>1, <3>2, <3>3, <3>4, HandledPrepared, CredentialsPrepared
    <2> QED  BY <2>2, <2>4, <2>5
<1>4. CASE SaslLine(c)
    <2>1. AuthOffer = "TLSONLY" /\ FixedUser = None /\ s.open => s.tls = "ONLY"
        BY <1>1, <1>4 DEF SaslLine, Line, Prepared, TlsOK
    <2>2. SaslDone(s) \in Session /\ Prepared(SaslDone(s))
        BY <1>1, <1>2, <2>1
    <2>3. Stay(c, SaslDone(s), pool) \/ Reject(c, SaslDone(s), pool) \/ Credentials(c, s)
        BY <1>4 DEF SaslLine
    <2> QED  BY <1>1, <2>1, <2>2, <2>3, HandledPrepared, CredentialsPrepared
<1> QED  BY <1>3, <1>4

LEMMA MailFromPrepared ==
    ASSUME SInv, PreparedInv, NEW c \in Conns, MailFromBad(c) \/ \E a \in Addrs : MailFrom(c, a)
    PROVE  PreparedInv'
<1> DEFINE s == sess[c]
<1>1. s \in Session /\ SessionOK(s) /\ Prepared(s)
    BY LinePrepared DEF MailFromBad, MailFrom
<1>2. s.state = "IDLE" /\ s.rev.router = "none" /\ s.user \in Users \cup {None}
    BY <1>1 DEF MailFromBad, MailFrom, Line, SessionOK, Session
<1>3. ASSUME NEW rev \in [addr : Addrs \cup {None}, router : InRouters \cup {"none"},
                          delim : BOOLEAN],
             Stay(c, [s EXCEPT !.rev = rev], pool) \/ Reject(c, [s EXCEPT !.rev = rev], pool)
      PROVE  PreparedInv'
    <2> DEFINE t == [s EXCEPT !.rev = rev]
    <2>1. /\ t \in Session /\ t.open = s.open /\ t.tls = s.tls /\ t.max = s.max
          /\ t.cut = s.cut /\ t.size = s.size /\ t.state = "IDLE" /\ t.user = s.user
        BY <1>1, <1>2 DEF Session
    <2> HIDE DEF t
    <2>2. Prepared(t)
        BY <1>1, <2>1, IdlePrepared DEF Prepared, TlsOK
    <2> QED  BY <1>3, <2>1, <2>2, HandledPrepared DEF t
<1>4. CASE MailFromBad(c)
    <2>1. PICK d \in {s.rev.delim, TRUE} : Reject(c, [s EXCEPT !.rev.delim = d], pool)
        BY <1>4 DEF MailFromBad
    <2> DEFINE rev == [s.rev EXCEPT !.delim = d]
    <2>2. rev \in [addr : Addrs \cup {None}, router : InRouters \cup {"none"}, delim : BOOLEAN]
        BY <1>1 DEF Session
    <2>3. Reject(c, [s EXCEPT !.rev = rev], pool)
        BY <2>1
    <2> HIDE DEF rev
    <2> QED  BY <1>3, <2>2, <2>3
<1>5. ASSUME NEW a \in Addrs, MailFrom(c, a)
      PROVE  PreparedInv'
    <2> DEFINE router == Resolved(a, s.user)
               rev == [addr |-> a, router |-> router, delim |-> TRUE]
               t == [s EXCEPT !.state = "RECIPIENTS", !.rev = rev]
    <2>1. \/ Reject(c, s, pool)
          \/ Stay(c, [s EXCEPT !.rev = NoRev], pool)
          \/ MaySend(s.user, s.route, router) /\ Stay(c, t, pool)
          \/ Reject(c, [s EXCEPT !.rev = NoRev], pool)
        BY <1>2, <1>5 DEF MailFrom
    <2>2. /\ rev \in [addr : Addrs \cup {None}, router : InRouters \cup {"none"}, delim : BOOLEAN]
          /\ rev.addr = a
        BY <1>2, ResolvedTyped
    <2>3. s.user # None /\ OutRouter[s.user] = "defined" /\ MaySend(s.user, s.route, router) =>
            s.user \in StoreUsers[a]
        BY <1>1 DEF SessionOK, MaySend, Resolved
    <2> HIDE DEF router, rev
    <2>4. /\ t \in Session /\ t.open = s.open /\ t.tls = s.tls /\ t.max = s.max
          /\ t.cut = s.cut /\ t.size = s.size /\ t.state = "RECIPIENTS" /\ t.user = s.user
          /\ t.rev.addr = a
        BY <1>1, <2>2 DEF Session
    <2> HIDE DEF t
    <2>5. MaySend(s.user, s.route, router) => Prepared(t)
        BY <1>1, <2>3, <2>4 DEF Prepared, TlsOK, CutOK, OwnPathOK, ToSomebody
    <2> QED  BY <1>1, <1>3, <2>1, <2>4, <2>5, NoRevTyped, HandledPrepared
<1> QED  BY <1>4, <1>5

LEMMA RcptToPrepared ==
    ASSUME SInv, PreparedInv, NEW c \in Conns, RcptToBad(c) \/ \E a \in Addrs : RcptTo(c, a)
    PROVE  PreparedInv'
<1> DEFINE s == sess[c]
<1>1. s \in Session /\ SessionOK(s) /\ Prepared(s) /\ s.state = "RECIPIENTS"
    BY LinePrepared DEF RcptToBad, RcptTo, Line
<1>2. CASE RcptToBad(c)
    BY <1>1, <1>2, HandledPrepared DEF RcptToBad
<1>3. ASSUME NEW a \in Addrs, RcptTo(c, a)
      PROVE  PreparedInv'
    <2> DEFINE f == Append(s.fwd, FirstFree)
               t == [s EXCEPT !.fwd = f]
    <2>1. PICK q : Stay(c, s, q) \/ Reject(c, s, q) \/ Reward(c, t, q)
        BY <1>3 DEF RcptTo
    <2>2. FirstFree \in Paths
        BY <1>3, FirstFreeIsFree DEF RcptTo
    <2>3. f \in Seq(Paths)
        BY <1>1, <2>2 DEF Session
    <2> HIDE DEF f
    <2>4. /\ t \in Session /\ t.open = s.open /\ t.tls = s.tls /\ t.max = s.max
          /\ t.cut = s.cut /\ t.size = s.size /\ t.state = s.state /\ t.user = s.user
          /\ t.rev = s.rev
        <3>1. t \in Session
            BY <1>1, <2>3 DEF Session
        <3>2. t.open = s.open /\ t.tls = s.tls /\ t.max = s.max
            BY <1>1 DEF Session
        <3>3. t.cut = s.cut /\ t.size = s.size /\ t.state = s.state
            BY <1>1 DEF Session
        <3>4. t.user = s.user /\ t.rev = s.rev
            BY <1>1 DEF Session
        <3> QED  BY <3>1, <3>2, <3>3, <3>4
    <2>5. t.fwd = f /\ f # <<>>
        <3>1. t.fwd = f
            BY <1>1 DEF Session
        <3>2. s.fwd \in Seq(Paths)
            BY <1>1 DEF Session
        <3>3. f # <<>>
            BY <2>2, <3>2 DEF f
        <3> QED  BY <3>1, <3>3
    <2> HIDE DEF t
    <2>6. Prepared(t)
        BY <1>1, <2>4, <2>5 DEF Prepared, TlsOK, CutOK, OwnPathOK, ToSomebody
    <2> QED  BY <1>1, <2>1, <2>4, <2>6, HandledPrepared
<1> QED  BY <1>2, <1>3

LEMMA MailLinePrepared ==
    ASSUME NEW s \in Session, Prepared(s), NEW len \in Nat
    PROVE  LET t == MailLine(s, len)
           IN  /\ t \in Session /\ Prepared(t) /\ t.fwd = s.fwd /\ t.state = s.state
<1> DEFINE n == s.size + len + (IF s.size = 0 THEN 0 ELSE 2)
           t == [s EXCEPT !.size = n, !.buf = TRUE]
           d == [s EXCEPT !.cut = TRUE]
<1>1. n \in Nat /\ n >= s.size
    BY DEF Session
<1>2. MailLine(s, len) = IF s.max > 0 /\ s.size >= s.max THEN d ELSE t
    BY DEF MailLine
<1> HIDE DEF n
<1>3. /\ t \in Session /\ t.open = s.open /\ t.tls = s.tls /\ t.max = s.max
      /\ t.cut = s.cut /\ t.size = n /\ t.state = s.state /\ t.user = s.user
      /\ t.rev = s.rev /\ t.fwd = s.fwd
    BY <1>1 DEF Session
<1>4. /\ d \in Session /\ d.open = s.open /\ d.tls = s.tls /\ d.max = s.max
      /\ d.size = s.size /\ d.state = s.state /\ d.user = s.user
      /\ d.rev = s.rev /\ d.fwd = s.fwd
    BY DEF Session
<1> HIDE DEF t, d
<1>5. TlsOK(t) /\ OwnPathOK(t) /\ ToSomebody(t) /\ TlsOK(d) /\ OwnPathOK(d) /\ ToSomebody(d)
    BY <1>3, <1>4 DEF Prepared, TlsOK, OwnPathOK, ToSomebody
<1>6. s.max \in Nat /\ s.size \in Nat /\ MaxSize \in Nat
    BY SmtpAssumption DEF Session
<1>7. CutOK(t)
    BY <1>1, <1>3, <1>6 DEF Prepared, CutOK
<1>8. s.max > 0 /\ s.size >= s.max => CutOK(d)
    BY <1>4 DEF Prepared, CutOK
<1> QED  BY <1>2, <1>3, <1>4, <1>5, <1>7, <1>8 DEF Prepared

LEMMA DataPrepared ==
    ASSUME SInv, PreparedInv, NEW c \in Conns,
           Data(c) \/ (\E len \in LineLens : DataLine(c, len)) \/ DataEnd(c)
    PROVE  PreparedInv'
<1> DEFINE s == sess[c]
<1>1. s \in Session /\ SessionOK(s) /\ Prepared(s)
    BY LinePrepared DEF Data, DataLine, DataEnd
<1>2. CASE Data(c)
    <2> DEFINE m == MailLine(s, HeaderLen)
               t == [m EXCEPT !.state = "DATA"]
    <2>1. m \in Session /\ Prepared(m) /\ m.fwd = s.fwd /\ m.state = "RECIPIENTS"
        BY <1>1, <1>2, MailLinePrepared, SmtpAssumption DEF Data, Line
    <2>2. Reject(c, s, pool) \/ (s.fwd # <<>> /\ Stay(c, t, pool))
        BY <1>2 DEF Data
    <2> HIDE DEF m
    <2>3. /\ t \in Session /\ t.open = m.open /\ t.tls = m.tls /\ t.max = m.max
          /\ t.cut = m.cut /\ t.size = m.size /\ t.state = "DATA" /\ t.user = m.user
          /\ t.rev = m.rev /\ t.fwd = m.fwd
        BY <2>1 DEF Session
    <2> HIDE DEF t
    <2>4. s.fwd # <<>> => Prepared(t)
        BY <2>1, <2>3 DEF Prepared, TlsOK, CutOK, OwnPathOK, ToSomebody
    <2> QED  BY <1>1, <2>2, <2>3, <2>4, HandledPrepared
<1>3. ASSUME NEW len \in LineLens, DataLine(c, len)
      PROVE  PreparedInv'
    <2> DEFINE hop == s.hops + 1
               r == [s EXCEPT !.hops = hop]
               e == [s EXCEPT !.head = FALSE]
    <2>1. len \in Nat /\ 0 \in Nat
        BY SmtpAssumption
    <2>2. hop \in Nat
        BY <1>1 DEF Session
    <2>3. PICK m \in {MailLine(s, len), MailLine(r, len), MailLine(e, 0)} : Stay(c, m, pool)
        BY <1>3 DEF DataLine
    <2> HIDE DEF hop
    <2>4. /\ r \in Session /\ r.open = s.open /\ r.tls = s.tls /\ r.max = s.max
          /\ r.cut = s.cut /\ r.size = s.size /\ r.state = s.state /\ r.user = s.user
          /\ r.rev = s.rev /\ r.fwd = s.fwd
        BY <1>1, <2>2 DEF Session
    <2>5. /\ e \in Session /\ e.open = s.open /\ e.tls = s.tls /\ e.max = s.max
          /\ e.cut = s.cut /\ e.size = s.size /\ e.state = s.state /\ e.user = s.user
          /\ e.rev = s.rev /\ e.fwd = s.fwd
        BY <1>1 DEF Session
    <2> HIDE DEF r, e
    <2>6. Prepared(r)
        BY <1>1, <2>4 DEF Prepared, TlsOK, CutOK, OwnPathOK, ToSomebody
    <2>7. Prepared(e)
        BY <1>1, <2>5 DEF Prepared, TlsOK, CutOK, OwnPathOK, ToSomebody
    <2>8. m \in Session /\ Prepared(m)
        BY <1>1, <2>1, <2>3, <2>4, <2>5, <2>6, <2>7, MailLinePrepared
    <2> QED  BY <2>3, <2>8, HandledPrepared
<1>4. CASE DataEnd(c)
    <2> DEFINE t == [MailReset(s) EXCEPT !.state = "IDLE"]
    <2>1. Prepared(t)
        BY <1>1, ResetPrepared
    <2>2. sess' = [sess EXCEPT ![c] = t] /\ active' = c
        BY <1>4 DEF DataEnd
    <2> HIDE DEF t
    <2> QED  BY <2>1, <2>2, BecomesPrepared
<1> QED  BY <1>2, <1>3, <1>4

LEMMA InitPrepared == Init => PreparedInv
<1> SUFFICES ASSUME Init PROVE PreparedInv
    OBVIOUS
<1>1. active = None /\ None \notin Conns
    BY SmtpAssumption DEF Init
<1>2. \A c \in Conns : ~sess[c].open
    BY DEF Init, NewSlots, NewSession
<1> QED  BY <1>1, <1>2 DEF PreparedInv

LEMMA RestartedPrepared == ASSUME Restarted PROVE PreparedInv'
<1>1. active' = None /\ None \notin Conns
    BY SmtpAssumption DEF Restarted
<1>2. \A c \in Conns : ~sess'[c].open
    BY DEF Restarted, NewSlots, NewSession
<1> QED  BY <1>1, <1>2 DEF PreparedInv

LEMMA StepPrepared == SInv /\ PreparedInv /\ [Next]_vars => PreparedInv'
<1> SUFFICES ASSUME SInv, PreparedInv, [Next]_vars PROVE PreparedInv'
    OBVIOUS
<1>1. ASSUME NEW c \in Conns, Command(c)
      PROVE  PreparedInv'
    BY <1>1, GreetingPrepared, LoginPrepared, MailFromPrepared, RcptToPrepared, DataPrepared, Restarts, RestartedPrepared
        DEF Command
<1>2. CASE Shutdown
    BY <1>2, Restarts, RestartedPrepared
<1>3. CASE UNCHANGED vars
    BY <1>3 DEF vars, PreparedInv
<1> QED  BY <1>1, <1>2, <1>3, ConnectionPrepared DEF Next

LEMMA DotReceipt ==
    ASSUME SInv, PreparedInv, ReceiptInv, NEW c \in Conns, Dot(c)
    PROVE  ReceiptInv'
<1> DEFINE s == sess[c]
<1>1. s \in Session /\ SessionOK(s) /\ Prepared(s) /\ s.state = "DATA"
    BY LinePrepared DEF Dot, Line
<1>2. /\ ~TooBig(s) /\ receipt'.user = s.user /\ receipt'.from = s.rev.addr
      /\ receipt'.size = s.size /\ receipt'.cut = s.cut
    BY DEF Dot, Unwanted, Receipt
<1>3. s.max \in Nat /\ s.size \in Nat /\ MaxSize \in Nat
    BY <1>1, SmtpAssumption DEF Session
<1>4. s.cut => s.size = MaxSize
    BY <1>1, <1>2, <1>3 DEF Prepared, CutOK, TooBig
<1>5. CutOnlyAtLimit'
    BY <1>2, <1>4 DEF CutOnlyAtLimit
<1>6. SendsFromOwnPaths'
    BY <1>1, <1>2 DEF Prepared, OwnPathOK, SendsFromOwnPaths
<1> QED  BY <1>5, <1>6 DEF ReceiptInv

LEMMA StepReceipt == SInv /\ PreparedInv /\ ReceiptInv /\ [Next]_vars => ReceiptInv'
<1> SUFFICES ASSUME SInv, PreparedInv, ReceiptInv, [Next]_vars PROVE ReceiptInv'
    OBVIOUS
<1>1. CASE receipt' = receipt
    BY <1>1 DEF ReceiptInv, CutOnlyAtLimit, SendsFromOwnPaths, Accepted
<1>2. receipt' = receipt \/ \E c \in Conns : Dot(c)
    BY StepDot
<1> QED  BY <1>1, <1>2, DotReceipt

LEMMA InitReceipt == Init => ReceiptInv
BY DEF Init, NoMail, ReceiptInv, CutOnlyAtLimit, SendsFromOwnPaths, Accepted

(* Whoever had the slot before and in whatever order STARTTLS, AUTH, the    *)
(* lines of the SASL exchange and the ends of connections come: where AUTH  *)
(* is offered in TLS sessions only, an open session with a user is          *)
(* encrypted.                                                               *)
THEOREM LoginsInTls == Spec => []UserImpliesTls
<1>1. PreparedInv => UserImpliesTls
    BY DEF PreparedInv, Prepared, TlsOK, UserImpliesTls
<1> QED  BY <1>1, InitTyped, StepTyped, InitPrepared, StepPrepared, PTL DEF Spec

(* A user whose outbound route is `defined' has submitted mail only from    *)
(* paths that store for that user: the reverse path cannot have been left   *)
(* by a transaction before, nor the user changed after MAIL was answered.   *)
THEOREM SendersChecked == Spec => []SendsFromOwnPaths
<1>1. ReceiptInv => SendsFromOwnPaths
    BY DEF ReceiptInv
<1> QED  BY <1>1, InitTyped, StepTyped, InitPrepared, StepPrepared,
            InitReceipt, StepReceipt, PTL DEF Spec

(* A mail that mail_line has cut is accepted only when the lines it kept    *)
(* fill the listener's limit exactly, for every limit, header and length of *)
(* line.                                                                    *)
THEOREM CutsAreRefused == Spec => []CutOnlyAtLimit
<1>1. ReceiptInv => CutOnlyAtLimit
    BY DEF ReceiptInv
<1> QED  BY <1>1, InitTyped, StepTyped, InitPrepared, StepPrepared,
            InitReceipt, StepReceipt, PTL DEF Spec

-------------------------------------------------------------------------------
(* The sessions implement SmtpService *)

Addresses(f, P) == [i \in DOMAIN f |-> P[f[i]].addr]
UsersOf(S) == [c \in Conns |-> S[c].user]
RcptsOf(S, P) == [c \in Conns |-> Addresses(S[c].fwd, P)]

LEMMA NoAddresses ==
    ASSUME NEW f, NEW P, f = <<>>
    PROVE  Addresses(f, P) = <<>>
BY DEF Addresses

LEMMA SomeElement ==
    ASSUME NEW T, NEW f \in Seq(T), f # <<>>
    PROVE  DOMAIN f # {}
OBVIOUS

LEMMA SameAddresses ==
    ASSUME NEW f, NEW P, NEW Q, \A i \in DOMAIN f : Q[f[i]] = P[f[i]]
    PROVE  Addresses(f, Q) = Addresses(f, P)
BY DEF Addresses

LEMMA Appended ==
    ASSUME NEW T, NEW a \in Seq(T), NEW x \in T
    PROVE  LET b == Append(a, x)
               n == Len(a) + 1
           IN  /\ b = [i \in 1..n |-> b[i]] /\ b[n] = x
               /\ \A i \in 1..Len(a) : b[i] = a[i]
<1> DEFINE b == Append(a, x)
<1>1. b \in Seq(T) /\ Len(b) = Len(a) + 1 /\ b[Len(a) + 1] = x
    OBVIOUS
<1>2. \A i \in 1..Len(a) : b[i] = a[i]
    OBVIOUS
<1> HIDE DEF b
<1>3. b = [i \in 1..Len(b) |-> b[i]]
    BY <1>1
<1> QED  BY <1>1, <1>2, <1>3 DEF b

LEMMA AddressAppended ==
    ASSUME NEW f \in Seq(Paths), NEW p \in Paths, NEW Q \in [Paths -> PathType]
    PROVE  Addresses(Append(f, p), Q) = Append(Addresses(f, Q), Q[p].addr)
<1> DEFINE n == Len(f)
           a == [i \in 1..n |-> Q[f[i]].addr]
           g == Append(f, p)
           x == Q[p].addr
<1>1. n \in Nat /\ DOMAIN f = 1..n
    OBVIOUS
<1>2. \A i \in 1..n : f[i] \in Paths
    OBVIOUS
<1>3. x \in Addrs \cup {None} /\ \A i \in 1..n : Q[f[i]].addr \in Addrs \cup {None}
    BY <1>2 DEF PathType
<1>4. a \in Seq(Addrs \cup {None}) /\ Len(a) = n /\ \A i \in 1..n : a[i] = Q[f[i]].addr
    BY <1>1, <1>3
<1>5. a = Addresses(f, Q)
    BY <1>1 DEF Addresses
<1>6. /\ DOMAIN g = 1..(n + 1) /\ g[n + 1] = p /\ \A i \in 1..n : g[i] = f[i]
    OBVIOUS
<1> HIDE DEF a, g, x, n
<1>7. /\ Append(a, x) = [i \in 1..(n + 1) |-> Append(a, x)[i]]
      /\ \A i \in 1..n : Append(a, x)[i] = a[i]
      /\ Append(a, x)[n + 1] = x
    BY <1>3, <1>4, Appended
<1>8. \A i \in 1..(n + 1) : i \in 1..n \/ i = n + 1
    BY <1>1
<1>9. \A i \in 1..(n + 1) : Append(a, x)[i] = Q[g[i]].addr
    BY <1>4, <1>6, <1>7, <1>8 DEF x
<1>10. Addresses(g, Q) = [i \in 1..(n + 1) |-> Append(a, x)[i]]
    BY <1>6, <1>9 DEF Addresses
<1> QED  BY <1>5, <1>7, <1>10 DEF g, x

\* What one session's step is to SmtpService, when it leaves the other
\* sessions and their paths alone.
OthersKept(c) ==
    \A d \in Conns \ {c} :
        /\ sess'[d] = sess[d]
        /\ \A i \in DOMAIN sess[d].fwd : pool'[sess[d].fwd[i]] = pool[sess[d].fwd[i]]

LEMMA MappedOthers ==
    ASSUME NEW c \in Conns, OthersKept(c)
    PROVE  /\ UsersOf(sess') = [UsersOf(sess) EXCEPT ![c] = sess'[c].user]
           /\ RcptsOf(sess', pool') = [RcptsOf(sess, pool) EXCEPT
                  ![c] = Addresses(sess'[c].fwd, pool')]
<1>1. UsersOf(sess') = [UsersOf(sess) EXCEPT ![c] = sess'[c].user]
    BY DEF OthersKept, UsersOf
<1>2. \A d \in Conns \ {c} :
          Addresses(sess'[d].fwd, pool') = Addresses(sess[d].fwd, pool)
    <2> SUFFICES ASSUME NEW d \in Conns \ {c}
                 PROVE  Addresses(sess[d].fwd, pool') = Addresses(sess[d].fwd, pool)
        BY DEF OthersKept
    <2> QED  BY SameAddresses DEF OthersKept
<1>3. RcptsOf(sess', pool') = [RcptsOf(sess, pool) EXCEPT
          ![c] = Addresses(sess'[c].fwd, pool')]
    BY <1>2 DEF RcptsOf
<1> QED  BY <1>1, <1>3

LEMMA MappedTurn ==
    ASSUME NEW c \in Conns, OthersKept(c), sess'[c].user \in Users \cup {None},
           sess'[c].fwd = <<>>, receipt' = receipt
    PROVE  Service!SNext
<1>1. PICK u \in Users \cup {None} : u = sess'[c].user
    OBVIOUS
<1>2. UsersOf(sess') = [UsersOf(sess) EXCEPT ![c] = u]
    BY <1>1, MappedOthers
<1>3. RcptsOf(sess', pool') = [RcptsOf(sess, pool) EXCEPT ![c] = <<>>]
    BY MappedOthers, NoAddresses
<1>4. Service!Turn(c, u)
    BY <1>2, <1>3 DEF Service!Turn, UsersOf, RcptsOf, Addresses
<1> QED  BY <1>4 DEF Service!SNext

LEMMA MappedRecipient ==
    ASSUME NEW c \in Conns, NEW a \in Addrs, OthersKept(c), sess'[c].user = sess[c].user,
           Addresses(sess'[c].fwd, pool') = Append(Addresses(sess[c].fwd, pool), a),
           receipt' = receipt
    PROVE  Service!SNext
<1>1. /\ UsersOf(sess') = UsersOf(sess)
      /\ RcptsOf(sess', pool') =
             [RcptsOf(sess, pool) EXCEPT ![c] = Append(Addresses(sess[c].fwd, pool), a)]
    BY MappedOthers DEF UsersOf
<1>2. RcptsOf(sess, pool)[c] = Addresses(sess[c].fwd, pool)
    BY DEF RcptsOf
<1>3. RcptsOf(sess', pool') = [RcptsOf(sess, pool) EXCEPT ![c] = Append(@, a)]
    BY <1>1, <1>2
<1>4. Service!Recipient(c, a)
    BY <1>1, <1>3 DEF Service!Recipient, UsersOf, RcptsOf, Addresses
<1> QED  BY <1>4 DEF Service!SNext

LEMMA StepOthersKept ==
    ASSUME SInv, PathInv, NEW c \in Conns, PathStep(c)
    PROVE  OthersKept(c)
<1>1. \A d \in Conns \ {c} : sess'[d] = sess[d]
    BY DEF PathStep, LeftAlone, GaveBack, Began, Took, Becomes, SInv, TypeOK
<1>2. CASE pool' = pool
    BY <1>1, <1>2 DEF OthersKept
<1>3. CASE GaveBack(c)
    <2>1. \A p \in Paths : pool'[p] = IF Refers(c, p) THEN FreePath ELSE pool[p]
        BY <1>3 DEF GaveBack, Returned, PathReset, Refers
    <2> QED  BY <1>1, <2>1, FwdInPaths DEF OthersKept, PathInv, Exclusive, Refers
<1>4. CASE Took(c)
    <2>1. FirstFree \in Paths /\ ~pool[FirstFree].busy
        BY <1>4, FirstFreeIsFree DEF Took, Free
    <2>2. \A q \in Paths : q # FirstFree => pool'[q] = pool[q]
        BY <1>4, PoolTyped DEF Took
    <2> QED  BY <1>1, <2>1, <2>2, FwdInPaths DEF OthersKept, PathInv, RefsAreBusy
<1> QED  BY <1>2, <1>3, <1>4 DEF PathStep, LeftAlone, Began

LEMMA PathStepServes ==
    ASSUME SInv, PathInv, NEW c \in Conns, PathStep(c), receipt' = receipt
    PROVE  Service!SNext \/ UNCHANGED Service!svars
<1> DEFINE S == sess'[c]
<1>1. OthersKept(c)
    BY StepOthersKept
<1>2. CASE GaveBack(c) \/ Began(c)
    <2>1. S.fwd = <<>> /\ S.user \in Users \cup {None}
        BY <1>2 DEF GaveBack, Began, Becomes, SInv, TypeOK, Session
    <2> QED  BY <1>1, <2>1, MappedTurn
<1>3. CASE LeftAlone(c)
    <2>1. PICK s : Becomes(c, s) /\ Keeps(sess[c], s)
        BY <1>3 DEF LeftAlone
    <2>2. S = s /\ S.user \in Users \cup {None} /\ pool' = pool
        BY <1>3, <2>1 DEF LeftAlone, Becomes, SInv, TypeOK, Session
    <2>3. CASE S.fwd = <<>>
        BY <1>1, <2>2, <2>3, MappedTurn
    <2>4. CASE S.fwd # <<>>
        <3>1. \A d \in Conns : sess'[d].fwd = sess[d].fwd /\ sess'[d].user = sess[d].user
            BY <1>1, <2>1, <2>2, <2>4 DEF Keeps, OthersKept
        <3> QED  BY <2>2, <3>1 DEF Service!svars
    <2> QED  BY <2>3, <2>4
<1>4. CASE Took(c)
    <2>1. PICK s, path :
              /\ Becomes(c, s)
              /\ s.fwd = Append(sess[c].fwd, FirstFree) /\ s.user = sess[c].user
              /\ path \in PathType /\ path.busy /\ path.addr \in Addrs
              /\ pool' = [pool EXCEPT ![FirstFree] = path]
        BY <1>4 DEF Took
    <2>2. FirstFree \in Paths /\ ~pool[FirstFree].busy
        BY <1>4, FirstFreeIsFree DEF Took, Free
    <2>3. /\ pool' \in [Paths -> PathType] /\ pool'[FirstFree] = path
          /\ \A q \in Paths : q # FirstFree => pool'[q] = pool[q]
        BY <2>1, <2>2, PoolTyped
    <2>4. \A i \in DOMAIN sess[c].fwd : pool'[sess[c].fwd[i]] = pool[sess[c].fwd[i]]
        BY <2>2, <2>3, FwdInPaths DEF PathInv, RefsAreBusy
    <2>5. Addresses(sess[c].fwd, pool') = Addresses(sess[c].fwd, pool)
        BY <2>4, SameAddresses
    <2>6. sess[c].fwd \in Seq(Paths)
        BY DEF SInv, TypeOK, Session
    <2>7. Addresses(Append(sess[c].fwd, FirstFree), pool') =
              Append(Addresses(sess[c].fwd, pool'), pool'[FirstFree].addr)
        BY <2>2, <2>3, <2>6, AddressAppended
    <2>9. Addresses(s.fwd, pool') = Append(Addresses(sess[c].fwd, pool), path.addr)
        BY <2>1, <2>3, <2>5, <2>7
    <2>8. S = s
        BY <2>1 DEF Becomes, SInv, TypeOK
    <2> QED  BY <1>1, <2>1, <2>8, <2>9, MappedRecipient
<1> QED  BY <1>2, <1>3, <1>4 DEF PathStep

\* The tables that are recorded are those of the first few recipients.
LEMMA InOrderKept ==
    ASSUME NEW t, Len(t) \in Nat, NEW r \in InOrder(t)
    PROVE  Len(r.tables) \in 0..Len(t)
<1>1. r.tables = Tables(t, Len(t)) \/ \E k \in 1..Len(t) : r.tables = Tables(t, k - 1)
    BY DEF InOrder
<1>2. \A k \in Nat : Len(Tables(t, k)) = k
    BY DEF Tables
<1>3. CASE r.tables = Tables(t, Len(t))
    BY <1>2, <1>3
<1>4. ASSUME NEW k \in 1..Len(t), r.tables = Tables(t, k - 1)
      PROVE  Len(r.tables) \in 0..Len(t)
    <2>1. k - 1 \in Nat /\ k - 1 <= Len(t)
        BY <1>4
    <2>2. Len(r.tables) = k - 1
        BY <1>2, <1>4, <2>1
    <2> QED  BY <2>1, <2>2
<1> QED  BY <1>1, <1>3, <1>4

LEMMA MailRouteKept ==
    ASSUME NEW rcpts, Len(rcpts) \in Nat, NEW r \in MailRoute(rcpts)
    PROVE  Len(r.tables) \in 0..Len(rcpts)
<1> DEFINE t == [i \in 1..Len(rcpts) |->
                    IF rcpts[i].router = "none" THEN Insert("outbox")
                    ELSE RouteLocal(rcpts[i].addr, rcpts[i].router)]
<1>1. Len(t) = Len(rcpts)
    OBVIOUS
<1>2. r \in InOrder(t)
    BY DEF MailRoute
<1> HIDE DEF t
<1> QED  BY <1>1, <1>2, InOrderKept

LEMMA MailOriginateKept ==
    ASSUME NEW user, NEW route, NEW rcpts, Len(rcpts) \in Nat,
           NEW r \in MailOriginate(user, route, rcpts)
    PROVE  Len(r.tables) \in 0..Len(rcpts)
<1> DEFINE n == Len(rcpts)
           none == [i \in 1..n |-> "none"]
           t == [i \in 1..n |-> Insert("outbox")]
<1>1. Len(none) = n /\ Len(t) = n /\ Len(<<>>) = 0
    OBVIOUS
<1>2. \/ r.tables = <<>>
      \/ r.tables = none
      \/ r \in InOrder(t)
      \/ r \in MailRoute(rcpts)
    BY DEF MailOriginate
<1> HIDE DEF t, none
<1>3. r \in InOrder(t) => Len(r.tables) \in 0..n
    BY <1>1, InOrderKept
<1>4. r \in MailRoute(rcpts) => Len(r.tables) \in 0..n
    BY MailRouteKept
<1> QED  BY <1>1, <1>2, <1>3, <1>4

\* A complete mail goes to the recipients of its session.
LEMMA DotKeepsMail ==
    ASSUME SInv, PreparedInv, NEW c \in Conns, Dot(c)
    PROVE  Service!Keep(c)
<1> DEFINE s == sess[c]
           to == Addresses(s.fwd, pool)
           rcpts == Rcpts(s)
           Mail(r) == [from |-> r.user,
                       to |-> [i \in DOMAIN r.rcpts |-> r.rcpts[i].addr],
                       kept |-> Len(r.tables)]
<1>1. s \in Session /\ SessionOK(s) /\ Prepared(s) /\ s.state = "DATA"
    BY LinePrepared DEF Dot, Line
<1>2. s.fwd \in Seq(Paths) /\ s.fwd # <<>>
    BY <1>1 DEF Prepared, ToSomebody, Session
<1>3. Len(to) = Len(s.fwd) /\ DOMAIN to = DOMAIN s.fwd /\ DOMAIN s.fwd = 1..Len(s.fwd)
    BY <1>2 DEF Addresses
<1>4. to # <<>> /\ RcptsOf(sess, pool)[c] = to /\ UsersOf(sess)[c] = s.user
    <2>1. DOMAIN s.fwd # {}
        BY <1>2, SomeElement
    <2> QED  BY <1>3, <2>1 DEF RcptsOf, UsersOf
<1>5. PICK r : /\ receipt' = Receipt(s, r)
               /\ r \in MailRoute(rcpts) \/ r \in MailOriginate(s.user, s.route, rcpts)
    BY DEF Dot, Outcomes
<1>6. receipt'.user = s.user /\ receipt'.rcpts = rcpts /\ receipt'.tables = r.tables
    BY <1>5 DEF Receipt
<1>7. Len(rcpts) = Len(to) /\ Len(rcpts) \in Nat /\ DOMAIN rcpts = DOMAIN s.fwd
    BY <1>1, <1>3, RcptsLength DEF Rcpts
<1>8. [i \in DOMAIN rcpts |-> rcpts[i].addr] = to
    BY <1>3, <1>7 DEF Rcpts, Addresses
<1> HIDE DEF rcpts, to
<1>9. Len(r.tables) \in 0..Len(to)
    BY <1>5, <1>7, MailRouteKept, MailOriginateKept
<1>10. Mail(receipt') = [from |-> s.user, to |-> to, kept |-> Len(r.tables)]
    BY <1>6, <1>8
<1> QED  BY <1>4, <1>9, <1>10 DEF Service!Keep, UsersOf, RcptsOf, Addresses

LEMMA DataEndServes ==
    ASSUME SInv, PathInv, PreparedInv, NEW c \in Conns, PathStep(c), DataEnd(c)
    PROVE  Service!SNext
<1> DEFINE s == sess[c]
<1>1. s \in Session /\ Prepared(s) /\ s.state = "DATA"
    BY LinePrepared DEF DataEnd, Line
<1>2. sess'[c].user = s.user /\ sess'[c].fwd = <<>>
    <2> DEFINE t == MailReset(s)
    <2>1. t \in Session /\ t.user = s.user /\ t.fwd = <<>>
        BY <1>1, MailResetTyped
    <2>2. sess'[c] = [t EXCEPT !.state = "IDLE"]
        BY DEF DataEnd, SInv, TypeOK
    <2> HIDE DEF t
    <2> QED  BY <2>1, <2>2 DEF Session
<1>3. /\ UsersOf(sess') = [UsersOf(sess) EXCEPT ![c] = s.user]
      /\ RcptsOf(sess', pool') = [RcptsOf(sess, pool) EXCEPT ![c] = <<>>]
    BY <1>2, StepOthersKept, MappedOthers, NoAddresses
<1>4. UsersOf(sess') = UsersOf(sess)
    BY <1>3 DEF UsersOf
<1>5. RcptsOf(sess, pool)[c] # <<>>
    <2>1. s.fwd \in Seq(Paths) /\ s.fwd # <<>>
        BY <1>1 DEF Prepared, ToSomebody, Session
    <2>2. DOMAIN s.fwd # {}
        BY <2>1, SomeElement
    <2> QED  BY <2>2 DEF RcptsOf, Addresses
<1>6. receipt' = receipt \/ Service!Keep(c)
    BY DotShape, DotKeepsMail
<1>7. Service!Finish(c)
    BY <1>3, <1>4, <1>5, <1>6 DEF Service!Finish, UsersOf, RcptsOf, Addresses
<1> QED  BY <1>7 DEF Service!SNext

LEMMA RestartedServes ==
    ASSUME Restarted, receipt' = receipt \/ \E c \in Conns : Service!Keep(c)
    PROVE  Service!SNext
<1>1. \A c \in Conns : sess'[c].user = None /\ sess'[c].fwd = <<>>
    BY DEF Restarted, NewSlots, NewSession
<1>2. /\ UsersOf(sess') = [c \in Conns |-> None]
      /\ RcptsOf(sess', pool') = [c \in Conns |-> <<>>]
    BY <1>1, NoAddresses DEF UsersOf, RcptsOf
<1>3. Service!Stop
    BY <1>2 DEF Service!Stop, UsersOf, RcptsOf, Addresses
<1> QED  BY <1>3 DEF Service!SNext

LEMMA StepServes ==
    SInv /\ PathInv /\ PreparedInv /\ [Next]_vars => [Service!SNext]_(Service!svars)
<1> SUFFICES ASSUME SInv, PathInv, PreparedInv, [Next]_vars
             PROVE  Service!SNext \/ UNCHANGED Service!svars
    OBVIOUS
<1>1. ASSUME NEW c \in Conns, Connection(c) \/ Command(c)
      PROVE  Service!SNext \/ UNCHANGED Service!svars
    <2>1. CASE Overrun(c)
        <3>1. receipt' = receipt \/ Service!Keep(c)
            BY <2>1, DotShape, DotKeepsMail
        <3> QED  BY <2>1, <3>1, Restarts, RestartedServes
    <2>2. CASE ~Overrun(c)
        <3>1. PathStep(c) /\ (receipt' = receipt \/ DataEnd(c))
            BY <1>1, <2>2, StepShape DEF Shape
        <3> QED  BY <3>1, PathStepServes, DataEndServes
    <2> QED  BY <2>1, <2>2
<1>2. CASE Shutdown
    BY <1>2, Restarts, RestartedServes DEF Shutdown
<1>3. CASE UNCHANGED vars
    BY <1>3 DEF vars, Service!svars
<1> QED  BY <1>1, <1>2, <1>3 DEF Next

LEMMA InitServes == Init => Service!SInit
<1> SUFFICES ASSUME Init PROVE Service!SInit
    OBVIOUS
<1>1. \A c \in Conns : sess[c].user = None /\ sess[c].fwd = <<>>
    BY DEF Init, NewSlots, NewSession
<1>2. /\ UsersOf(sess) = [c \in Conns |-> None]
      /\ RcptsOf(sess, pool) = [c \in Conns |-> <<>>]
    BY <1>1, NoAddresses DEF UsersOf, RcptsOf
<1>3. /\ receipt.user = None /\ Len(receipt.tables) = 0
      /\ [i \in DOMAIN receipt.rcpts |-> receipt.rcpts[i].addr] = <<>>
    BY DEF Init, NoMail
<1> QED  BY <1>2, <1>3 DEF Service!SInit, UsersOf, RcptsOf, Addresses

(* The daemon keeps its promise to each client (SmtpService), although all  *)
(* share one pool of paths, any connection may end between two lines and    *)
(* lines may follow the one that ends it: the recipients of a mail are      *)
(* those this client named, in that order, and a mail that is complete goes *)
(* to them, on behalf of the user who was logged in, also when the daemon   *)
(* dies behind the last of them.                                            *)
THEOREM Implements == Spec => ImplementsService
<1> QED  BY InitTyped, StepTyped, InitPaths, StepPaths, InitPrepared, StepPrepared,
            InitServes, StepServes, PTL DEF Spec, ImplementsService, Service!SSpec
===============================================================================
