----------------------------- MODULE SmtpSession -----------------------------
(***************************************************************************)
(* cmail-smtpd: the SMTP sessions, the path pool they share, and what      *)
(* becomes of the mails they submit.                                       *)
(*                                                                         *)
(* As in the other daemons there is one process with one select loop that  *)
(* runs one handler per line and looks at no other client before it has    *)
(* run out of complete lines (client_process): `active' is the connection  *)
(* whose lines are being run.  A line that closes the connection does not  *)
(* stop the loop over the buffer.                                          *)
(*                                                                         *)
(* Recipients are not kept in the session.  They are paths of a pool that  *)
(* all sessions share; the session refers to them until mail_reset gives   *)
(* them back.                                                              *)
(***************************************************************************)
EXTENDS SmtpRouting

CONSTANTS Conns,       \* slots of the connection pool
          PoolSize,    \* CMAIL_MAX_POOLED_PATHS
          FailLimit,   \* CMAIL_FAILSCORE_LIMIT
          MaxScore,    \* bound: connection scores are not counted any higher
          ListenerTls, \* TLS mode of the listener
          AuthOffer,   \* the listener's auth_offer
          AuthRequire, \* the listener's auth_require
          FixedUser,   \* the listener's fixed_user, or None
          MaxSize,     \* the listener's max_size, 0 for no limit
          HeaderLen,   \* length of the Received: line smtpd prepends
          LineLens,    \* lengths of the lines of a mail
          MaxData,     \* bound: a mail that is not limited grows no larger
          MaxHops,     \* CMAIL_MAX_HOPS
          LinesAfterClose \* clients may send lines behind the one that closes

Paths == 1..PoolSize
TlsModes == {"NONE", "NEGOTIATE", "ONLY"}

ASSUME SmtpAssumption ==
    /\ None \notin Conns
    /\ PoolSize \in Nat
    /\ FailLimit \in Int /\ FailLimit < 0 /\ MaxScore \in Nat
    /\ ListenerTls \in TlsModes /\ AuthOffer \in {"NONE", "ANY", "TLSONLY"}
    /\ AuthRequire \in BOOLEAN /\ FixedUser \in Users \cup {None}
    /\ MaxSize \in Nat /\ MaxData \in Nat /\ MaxHops \in Nat
    /\ HeaderLen \in Nat \ {0} /\ LineLens \subseteq Nat
    /\ LinesAfterClose \in BOOLEAN

VARIABLES sess,    \* the CLIENT structure of each connection slot
          pool,    \* the path pool
          receipt, \* history: the last mail that was routed
          active   \* the connection client_process is working on, or None

vars == <<sess, pool, receipt, active>>

-------------------------------------------------------------------------------
(* The path pool *)

FreePath == [busy |-> FALSE, addr |-> None, router |-> "none"]

\* path_reset.  It clears in_transaction as well, so it also is pathpool_return.
PathReset(path) == FreePath

\* pathpool_get: the first path that is not in a transaction.
Free == {p \in Paths : ~pool[p].busy}

\* Mutant of FirstFree: the path is not looked at before it is handed out.
FirstAny == 1

FirstFree == CHOOSE p \in Free : \A q \in Free : p <= q

\* The pool after the paths that session s refers to were returned.
Returned(q, s) ==
    [p \in Paths |-> IF \E i \in DOMAIN s.fwd : s.fwd[i] = p
                     THEN PathReset(q[p]) ELSE q[p]]

-------------------------------------------------------------------------------
(* Sessions *)

NoRev == [addr |-> None, router |-> "none", delim |-> FALSE]

Session == [open  : BOOLEAN,               \* fd >= 0
            tls   : TlsModes,              \* tls_mode
            state : {"NEW", "IDLE", "AUTH", "RECIPIENTS", "DATA"},
            sasl  : BOOLEAN,               \* sasl_context.method # SASL_INVALID
            named : BOOLEAN,               \* sasl_user.authenticated is set
            user  : Users \cup {None},     \* sasl_user.authorized
            route : OutRouters \cup {"none"}, \* originating_route.router
            rev   : [addr : Addrs \cup {None}, router : InRouters \cup {"none"},
                     delim : BOOLEAN],     \* reverse_path; delimiter_position # 0
            fwd   : Seq(Paths),            \* forward_paths
            size  : Nat,                   \* data_offset
            max   : Nat,                   \* data_max
            head  : BOOLEAN,               \* header_offset = 0
            hops  : Nat,                   \* hop_count
            buf   : BOOLEAN,               \* data # NULL
            cut   : BOOLEAN,               \* history: mail_line dropped a line
            score : Int]                   \* connection_score

\* The CLIENT structure as client_accept initialises it.  The mail buffer
\* of the slot is kept; the paths an old session refers to are not returned.
NewSession(isopen, mode, u, r, b) ==
    [open |-> isopen, tls |-> mode, state |-> "NEW", sasl |-> FALSE,
     named |-> u # None, user |-> u, route |-> r, rev |-> NoRev, fwd |-> <<>>,
     size |-> 0, max |-> MaxSize, head |-> TRUE, hops |-> 0, buf |-> b,
     cut |-> FALSE, score |-> 0]

\* Mutant of MailReset: the recipients are forgotten, the sender is not.
MailResetKeepsReverse(s) ==
    [s EXCEPT !.fwd = <<>>, !.size = 0, !.max = 0, !.head = TRUE,
              !.hops = 0, !.cut = FALSE]

\* Mutant of MailReset: the paths are returned, the references stay.
MailResetKeepsForward(s) ==
    [s EXCEPT !.rev = NoRev, !.size = 0, !.max = 0, !.head = TRUE,
              !.hops = 0, !.cut = FALSE]

\* mail_reset, but for the paths it returns.  data_max is not among the
\* members it preserves.
MailReset(s) ==
    [s EXCEPT !.rev = NoRev, !.fwd = <<>>, !.size = 0, !.max = 0,
              !.head = TRUE, !.hops = 0, !.cut = FALSE]

\* sasl_reset_user and route_free
LogOut(s) == [s EXCEPT !.named = FALSE, !.user = None, !.route = "none"]

\* The session after client_close; state, SASL context and score stay.
Closed(s) == [LogOut(MailReset(s)) EXCEPT !.open = FALSE, !.tls = "NONE"]

NewSlots == [c \in Conns |-> NewSession(FALSE, "NONE", None, "none", FALSE)]
NoMail == [answer |-> "none", user |-> None, from |-> None, rcpts |-> <<>>,
           tables |-> <<>>, size |-> 0, cut |-> FALSE]

Init ==
    /\ sess = NewSlots
    /\ pool = [p \in Paths |-> FreePath]
    /\ receipt = NoMail
    /\ active = None

\* Mutant of CloseConn: the mail is given up without returning its paths.
CloseConnKeepsPaths(c, s, q) ==
    /\ sess' = [sess EXCEPT ![c] = Closed(s)]
    /\ pool' = q

\* client_close on slot c, whose session has become s, the pool being q.
CloseConn(c, s, q) ==
    /\ sess' = [sess EXCEPT ![c] = Closed(s)]
    /\ pool' = Returned(q, s)

\* A handler that returns 0: s is the session and q the pool it leaves.
Stay(c, s, q) ==
    /\ sess' = [sess EXCEPT ![c] = s]
    /\ pool' = q
    /\ active' = c
    /\ UNCHANGED receipt

\* A handler that returns 1: the connection score rises.
Reward(c, s, q) ==
    Stay(c, [s EXCEPT !.score = IF @ < MaxScore THEN @ + 1 ELSE @], q)

\* A handler that returns -1: the score drops, and below the limit the
\* client is disconnected and the rest of its input is thrown away.
Reject(c, s, q) ==
    /\ UNCHANGED receipt
    /\ IF s.score - 1 < FailLimit
       THEN CloseConn(c, s, q) /\ active' = None
       ELSE /\ sess' = [sess EXCEPT ![c] = [s EXCEPT !.score = @ - 1]]
            /\ pool' = q
            /\ active' = c

-------------------------------------------------------------------------------
(* Connections *)

\* A line of client c reaches its handler: the next one of the batch being
\* run, or the first of a new read.
Line(c, state) ==
    /\ sess[c].state = state
    /\ \/ active = None /\ sess[c].open /\ sess[c].tls # "NEGOTIATE"
       \/ active = c /\ (sess[c].open \/ LinesAfterClose)

\* client_process runs out of complete lines.
EndBatch(c) ==
    /\ active = c
    /\ active' = None
    /\ UNCHANGED <<sess, pool, receipt>>

\* client_accept into a free slot.
Accept(c) ==
    /\ active = None
    /\ ~sess[c].open
    /\ \E r \in IF FixedUser = None THEN {"none"} ELSE OutboundRoutes(FixedUser) :
          sess' = [sess EXCEPT ![c] =
              NewSession(TRUE, IF ListenerTls = "ONLY" THEN "NEGOTIATE" ELSE "NONE",
                         FixedUser, r, @.buf)]
    /\ UNCHANGED <<pool, receipt, active>>

\* The TLS handshake completes.
Handshake(c) ==
    /\ active = None
    /\ sess[c].open /\ sess[c].tls = "NEGOTIATE"
    /\ sess' = [sess EXCEPT ![c].tls = "ONLY"]
    /\ UNCHANGED <<pool, receipt, active>>

\* The client disconnects, its connection fails, it overruns the buffer, or
\* it was silent for SMTP_SERVER_TIMEOUT seconds.
HangUp(c) ==
    /\ active = None
    /\ sess[c].open
    /\ CloseConn(c, sess[c], pool)
    /\ UNCHANGED <<receipt, active>>

\* client_memtimeout: an unused slot gives up its mail buffer.
MemTimeout(c) ==
    /\ active = None
    /\ ~sess[c].open /\ sess[c].buf
    /\ sess' = [sess EXCEPT ![c] = [MailReset(@) EXCEPT !.buf = FALSE]]
    /\ pool' = Returned(pool, sess[c])
    /\ UNCHANGED <<receipt, active>>

\* A termination signal: everything is closed, and the daemon started again.
Shutdown ==
    /\ active = None
    /\ sess' = NewSlots
    /\ pool' = [p \in Paths |-> FreePath]
    /\ UNCHANGED <<receipt, active>>

\* NOOP and the like, a line that is too long, or an unknown command.
Other(c) ==
    \E state \in {"NEW", "IDLE", "RECIPIENTS"} :
        /\ Line(c, state)
        /\ Stay(c, sess[c], pool) \/ Reject(c, sess[c], pool)

QuitCmd(c) ==
    \E state \in {"IDLE", "RECIPIENTS"} :
        /\ Line(c, state)
        /\ CloseConn(c, sess[c], pool)
        /\ active' = c
        /\ UNCHANGED receipt

-------------------------------------------------------------------------------
(* Lines in states NEW, IDLE and AUTH *)

\* EHLO and HELO
Hello(c) ==
    /\ Line(c, "NEW")
    /\ Stay(c, [sess[c] EXCEPT !.state = "IDLE"], pool)

\* RSET in IDLE and in RECIPIENTS
Rset(c) ==
    \E state \in {"IDLE", "RECIPIENTS"} :
        /\ Line(c, state)
        /\ Stay(c, [MailReset(sess[c]) EXCEPT !.state = "IDLE"], Returned(pool, sess[c]))

\* STARTTLS: the handshake is prepared, which may fail behind the reset.
StartTls(c) ==
    LET s == sess[c]
        t == [MailReset(s) EXCEPT !.state = "NEW", !.tls = "NEGOTIATE"]
        q == Returned(pool, s)
    IN  /\ Line(c, "IDLE")
        /\ CASE s.tls # "NONE" -> Stay(c, s, pool)
             [] s.tls = "NONE" /\ ListenerTls # "NEGOTIATE" -> Reject(c, s, pool)
             [] OTHER -> Stay(c, t, q) \/ Reject(c, t, q)

\* Mutant of AuthAllowed: a handshake that has begun is taken for TLS.
AuthAllowedEarly(s) ==
    /\ AuthOffer = "ANY" \/ (AuthOffer = "TLSONLY" /\ s.tls # "NONE")
    /\ ~s.named

AuthAllowed(s) ==
    /\ AuthOffer = "ANY" \/ (AuthOffer = "TLSONLY" /\ s.tls = "ONLY")
    /\ ~s.named

SaslDone(s) == [s EXCEPT !.sasl = FALSE, !.state = "IDLE"]

\* Mutant of Credentials: a name with a wrong password is remembered.
CredentialsKeepName(c, s) ==
    \/ Reject(c, SaslDone(s), pool)
    \/ Reject(c, [SaslDone(s) EXCEPT !.named = TRUE], pool)
    \/ \E u \in Users : \E r \in OutboundRoutes(u) :
          Reward(c, [SaslDone(s) EXCEPT !.named = TRUE, !.user = u, !.route = r], pool)

\* The response to the SASL challenge: not to be decoded, not the password of
\* the name in it, or a user's.
Credentials(c, s) ==
    \/ Reject(c, SaslDone(s), pool)
    \/ Reject(c, [SaslDone(s) EXCEPT !.named = FALSE, !.user = None], pool)
    \/ \E u \in Users : \E r \in OutboundRoutes(u) :
          Reward(c, [SaslDone(s) EXCEPT !.named = TRUE, !.user = u, !.route = r], pool)

\* AUTH: refused, an unknown mechanism, a challenge, or an initial response.
AuthCmd(c) ==
    LET s == [sess[c] EXCEPT !.state = "AUTH"] IN
    /\ Line(c, "IDLE")
    /\ IF ~AuthAllowed(sess[c])
       THEN Reject(c, sess[c], pool)
       ELSE \/ Reject(c, SaslDone(s), pool)
            \/ Stay(c, [s EXCEPT !.sasl = TRUE], pool)
            \/ Credentials(c, s)

\* The line after a challenge: cancellation, or the response.
SaslLine(c) ==
    LET s == sess[c] IN
    /\ Line(c, "AUTH")
    /\ IF s.sasl
       THEN Stay(c, SaslDone(s), pool) \/ Credentials(c, s)
       ELSE Reject(c, SaslDone(s), pool)

MayMail(s) == ~AuthRequire \/ s.named

\* MAIL with a path that does not parse.  reverse_path is not reset, and its
\* delimiter may have been found already.
MailFromBad(c) ==
    LET s == sess[c] IN
    /\ Line(c, "IDLE") /\ MayMail(s)
    /\ \E d \in {s.rev.delim, TRUE} : Reject(c, [s EXCEPT !.rev.delim = d], pool)

\* MAIL FROM a: the path is parsed, resolved and held against the user's
\* outbound route.  A delimiter left behind by an earlier MAIL counts as one.
MailFrom(c, a) ==
    LET s == sess[c]
        t(router) == [s EXCEPT !.state = "RECIPIENTS",
                               !.rev = [addr |-> a, router |-> router, delim |-> TRUE]]
        reset == [s EXCEPT !.rev = NoRev]
        router == IF s.rev.router # "none" THEN s.rev.router ELSE Resolved(a, s.user)
    IN  /\ Line(c, "IDLE")
        /\ IF ~MayMail(s) \/ (s.rev.delim /\ a \in HasDomain)
           THEN Reject(c, s, pool)
           ELSE \/ "resolve" \in DbFaults /\ Stay(c, reset, pool)
                \/ IF MaySend(s.user, s.route, router)
                   THEN Stay(c, t(router), pool)
                   ELSE Reject(c, reset, pool)

-------------------------------------------------------------------------------
(* Lines in states RECIPIENTS and DATA *)

\* Who may name a recipient: nobody one that is rejected, and only a user one
\* that is not local.
MayReceive(s, a, router) ==
    IF router = "none" THEN a \in HasDomain /\ s.named ELSE router # "reject"

\* RCPT without a free slot in the mail or in the pool, or with a path that
\* does not parse.  A path that was taken is returned.
RcptToBad(c) ==
    /\ Line(c, "RECIPIENTS")
    /\ Reject(c, sess[c], pool)

\* Mutant of HasRoom: one recipient too many.
HasRoomForOneMore(s) == Len(s.fwd) <= MaxRcpt

HasRoom(s) == Len(s.fwd) < MaxRcpt

\* RCPT TO a: a path is taken from the pool and resolved.  A route the path
\* still has from an earlier use goes before the lookup.
RcptTo(c, a) ==
    LET s == sess[c]
        p == FirstFree
        router == IF pool[p].router # "none" THEN pool[p].router ELSE InRouter[a]
        path == [busy |-> TRUE, addr |-> a, router |-> router]
        back == [pool EXCEPT ![p] = PathReset(path)]
    IN  /\ Line(c, "RECIPIENTS")
        /\ HasRoom(s) /\ Free # {}
        /\ \/ "resolve" \in DbFaults /\ Stay(c, s, back)
           \/ IF MayReceive(s, a, router)
              THEN Reward(c, [s EXCEPT !.fwd = Append(@, p)], [pool EXCEPT ![p] = path])
              ELSE Reject(c, s, back)

\* mail_line: a line behind the limit is dropped.
MailLine(s, len) ==
    IF s.max > 0 /\ s.size >= s.max
    THEN [s EXCEPT !.cut = TRUE]
    ELSE [s EXCEPT !.size = @ + len + (IF @ = 0 THEN 0 ELSE 2), !.buf = TRUE]

\* DATA, and the Received: header smtpd writes.
Data(c) ==
    LET s == sess[c] IN
    /\ Line(c, "RECIPIENTS")
    /\ IF s.fwd = <<>>
       THEN Reject(c, s, pool)
       ELSE Stay(c, [MailLine(s, HeaderLen) EXCEPT !.state = "DATA"], pool)

\* A line of the mail: an ordinary one (or one with an escaped dot), one that
\* is a Received: header, or the empty one that ends the header.
DataLine(c, len) ==
    LET s == sess[c] IN
    /\ Line(c, "DATA")
    /\ s.max > 0 \/ s.size < MaxData
    /\ \/ Stay(c, MailLine(s, len), pool)
       \/ /\ s.head /\ s.hops <= MaxHops
          /\ Stay(c, MailLine([s EXCEPT !.hops = @ + 1], len), pool)
       \/ s.head /\ Stay(c, MailLine([s EXCEPT !.head = FALSE], 0), pool)

\* Mutant of TooBig: the line break that comes with a line is not counted.
TooBigWithSlack(s) == s.max > 0 /\ s.size > s.max + 2

TooBig(s) == s.max > 0 /\ s.size > s.max

\* The recipients of the mail of session s.
Rcpts(s) == [i \in 1..Len(s.fwd) |->
                [addr |-> pool[s.fwd[i]].addr, router |-> pool[s.fwd[i]].router]]

\* What may become of it.
Outcomes(s) == IF ~s.named THEN MailRoute(Rcpts(s))
               ELSE MailOriginate(s.user, s.route, Rcpts(s))

Receipt(s, r) == [answer |-> r.answer, user |-> s.user, from |-> s.rev.addr,
                  rcpts |-> Rcpts(s), tables |-> r.tables, size |-> s.size, cut |-> s.cut]

Unwanted(s) == TooBig(s) \/ s.hops > MaxHops

\* The lone dot: the mail is checked and routed, and the transaction is over.
DataEnd(c) ==
    LET s == sess[c] IN
    /\ Line(c, "DATA")
    /\ sess' = [sess EXCEPT ![c] = [MailReset(s) EXCEPT !.state = "IDLE"]]
    /\ pool' = Returned(pool, s)
    /\ active' = c
    /\ IF Unwanted(s) THEN UNCHANGED receipt
       ELSE \E r \in Outcomes(s) : r.answer # "died" /\ receipt' = Receipt(s, r)

\* The mail has all the recipients a mail can have, and the daemon dies behind the
\* last of them; it is started again.
Overrun(c) ==
    LET s == sess[c] IN
    /\ Line(c, "DATA") /\ ~Unwanted(s)
    /\ \E r \in Outcomes(s) : r.answer = "died" /\ receipt' = Receipt(s, r)
    /\ sess' = NewSlots
    /\ pool' = [p \in Paths |-> FreePath]
    /\ active' = None

-------------------------------------------------------------------------------
Connection(c) ==
    \/ Accept(c) \/ Handshake(c) \/ HangUp(c) \/ MemTimeout(c) \/ EndBatch(c)

Command(c) ==
    \/ Other(c) \/ QuitCmd(c) \/ Hello(c) \/ Rset(c) \/ StartTls(c)
    \/ AuthCmd(c) \/ SaslLine(c) \/ MailFromBad(c) \/ RcptToBad(c)
    \/ Data(c) \/ DataEnd(c) \/ Overrun(c)
    \/ \E a \in Addrs : MailFrom(c, a) \/ RcptTo(c, a)
    \/ \E len \in LineLens : DataLine(c, len)

Next == (\E c \in Conns : Connection(c) \/ Command(c)) \/ Shutdown

Spec == Init /\ [][Next]_vars

-------------------------------------------------------------------------------
(* Properties *)

TypeOK ==
    /\ sess \in [Conns -> Session]
    /\ \A c \in Conns : Len(sess[c].fwd) <= MaxRcpt
    /\ pool \in [Paths -> [busy : BOOLEAN, addr : Addrs \cup {None},
                           router : InRouters \cup {"none"}]]
    /\ active \in Conns \cup {None}

\* How often session c refers to path p.
Refs(c, p) == {i \in DOMAIN sess[c].fwd : sess[c].fwd[i] = p}

\* No path of the pool is a recipient of two mails, or of one mail twice.
NoSharedPath ==
    \A p \in Paths : \A c, d \in Conns : \A i \in Refs(c, p), j \in Refs(d, p) :
        c = d /\ i = j

\* A path that some mail refers to is in a transaction, so that pathpool_get
\* gives it to nobody else.
RefsAreBusy ==
    \A c \in Conns : \A i \in DOMAIN sess[c].fwd : pool[sess[c].fwd[i]].busy

\* The pool leaks nothing: every path in a transaction belongs to some mail.
BusyIsReferred ==
    \A p \in Paths : pool[p].busy => \E c \in Conns : Refs(c, p) # {}

\* "This early exit should never have to be taken" (path.c:116): no path is
\* looked up with the route of an earlier use, neither one that is taken from
\* the pool nor the reverse path when MAIL is accepted in IDLE.
NoEarlyExit ==
    /\ \A p \in Paths : ~pool[p].busy => pool[p].router = "none"
    /\ \A c \in Conns : sess[c].state \in {"NEW", "IDLE", "AUTH"} =>
           sess[c].rev.router = "none"

\* "Invalid state (No negotiation but data)" (smtpstatemachine.c:123) is
\* never reached: a session in AUTH waits for a SASL response.
NegotiationInAuth == \A c \in Conns : sess[c].state = "AUTH" => sess[c].sasl

\* "Login -> Auth (Fail): No user name left in structures" (tests/expect/
\* smtpd/TODO): a session has a name exactly when it has a user.
NoNameWithoutUser == \A c \in Conns : sess[c].named <=> sess[c].user # None

\* On a listener that offers AUTH in TLS sessions only, an open session that
\* has a user is encrypted, in whatever order STARTTLS, AUTH and their lines
\* arrive and whoever had the slot before.
UserImpliesTls ==
    AuthOffer = "TLSONLY" /\ FixedUser = None =>
        \A c \in Conns : sess[c].open /\ sess[c].user # None => sess[c].tls = "ONLY"

Accepted == receipt.answer = "250"

\* Where a recipient of the last mail belongs: the sender's own outbound
\* route goes before the router of the recipient.
Due(r) ==
    CASE receipt.user # None /\ OutRouter[receipt.user] = "drop" -> "none"
      [] receipt.user # None /\ OutRouter[receipt.user] = "handoff" ->
            IF receipt.user \in BareOut THEN "none" ELSE "outbox"
      [] OTHER -> CASE r.router \in {"none", "redirect", "handoff"} -> "outbox"
                    [] r.router = "store" -> "mailbox"
                    [] OTHER -> "none"

\* A mail that was answered with 250 is kept for every recipient, in the
\* table it belongs in; one recipient that cannot be served now or ever keeps
\* the whole mail from being accepted.
AcceptedIsKept ==
    Accepted => receipt.tables = [i \in DOMAIN receipt.rcpts |-> Due(receipt.rcpts[i])]

\* Mail leaves for an address that is not local only on behalf of a user.
RelayForUsersOnly ==
    \A i \in DOMAIN receipt.tables :
        receipt.tables[i] = "outbox" /\ receipt.rcpts[i].router = "none" =>
            receipt.user # None

\* A user whose outbound route is `defined' submits mail only from paths that
\* store for that user.
SendsFromOwnPaths ==
    receipt.user # None /\ OutRouter[receipt.user] = "defined" =>
        receipt.user \in StoreUsers[receipt.from]

\* "Check if mail was too big" (smtpstatemachine.c:542): no accepted mail
\* exceeds the listener's limit.
SizeLimited == MaxSize > 0 /\ Accepted => receipt.size <= MaxSize

\* The same check: a mail some lines of which were dropped for its size is
\* accepted only when the lines that were kept fill the limit exactly.
CutOnlyAtLimit == Accepted /\ receipt.cut => receipt.size = MaxSize

\* The sessions implement the service of SmtpService.
Service == INSTANCE SmtpService WITH
    user  <- [c \in Conns |-> sess[c].user],
    rcpts <- [c \in Conns |-> [i \in DOMAIN sess[c].fwd |-> pool[sess[c].fwd[i]].addr]],
    mail  <- [from |-> receipt.user,
              to |-> [i \in DOMAIN receipt.rcpts |-> receipt.rcpts[i].addr],
              kept |-> Len(receipt.tables)]
ImplementsService == Service!SSpec
===============================================================================
