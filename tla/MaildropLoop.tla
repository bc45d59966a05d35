----------------------------- MODULE MaildropLoop -----------------------------
(***************************************************************************)
(* The loop of cmail-popd over its clients: Maildrop with the answers that *)
(* its handlers send, and the fairness of the loop.                        *)
(*                                                                         *)
(* The sockets of clients do not block, and client_send_raw tries again at *)
(* once when one of them takes nothing (EAGAIN): without a timeout and     *)
(* without a look at the other clients.  While it is trying, no line is    *)
(* handled, nobody is accepted and nobody is timed out.                    *)
(*                                                                         *)
(* The daemon neither dies nor do operators unlock maildrops here: a lock  *)
(* that a crash leaves behind is not given back at all.                    *)
(***************************************************************************)
EXTENDS Maildrop

VARIABLE sending   \* the client that client_send_raw is trying to send to, or None

loopvars == <<vars, sending>>

LoopInit == Init /\ sending = None

\* A handler that runs for c, or client_accept, or the one that times c out,
\* has an answer that the connection to c does not take.
Block(c) ==
    /\ sending = None
    /\ active \in {c, None}
    /\ sess[c].open /\ sess[c].tls # "NEGOTIATE"
    /\ sending' = c
    /\ active' = c
    /\ UNCHANGED <<lock, box, marks, sess>>

\* The client reads, or its connection fails, and the sending is over.
Unblock(c) ==
    /\ sending = c
    /\ sending' = None
    /\ UNCHANGED vars

\* A step of the daemon.
Runs(A) == sending = None /\ A /\ UNCHANGED sending

LoopNext ==
    \/ \E c \in Conns :
          \/ Runs(Connection(c) \/ AuthLine(c) \/ TransactionLine(c))
          \/ Block(c) \/ Unblock(c)
    \/ \E m \in Mails : Deliver(m) /\ UNCHANGED sending
    \/ Runs(Shutdown)

\* What is read at once is finite, and so is what is answered, so the loop
\* over the lines gets to its end if the answers get out.  Then every pass of
\* core_loop looks at every connection, so a client that has fallen silent is
\* timed out; that clients do not talk forever is assumed.
LoopSpec ==
    /\ LoopInit /\ [][LoopNext]_loopvars
    /\ \A c \in Conns : SF_loopvars(Runs(EndBatch(c))) /\ SF_loopvars(Runs(Timeout(c)))

-------------------------------------------------------------------------------
(* Properties *)

\* No client leaves its answers unread for ever while its connection holds.
\* Nothing in the code sees to it.
AnswersAreRead == []<>(sending = None)

\* A lock is given back in the end, provided that clients read their answers.
LockReleased == AnswersAreRead => \A u \in Users : lock[u] ~> ~lock[u]
===============================================================================
