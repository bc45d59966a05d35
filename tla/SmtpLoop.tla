------------------------------- MODULE SmtpLoop -------------------------------
(***************************************************************************)
(* The loop of cmail-smtpd over its clients: SmtpSession with the answers  *)
(* that its handlers send, and the fairness of the loop.                   *)
(*                                                                         *)
(* As in cmail-popd, client_send_raw does not give up a client that takes  *)
(* nothing: as long as it is trying, no line of any client is handled,     *)
(* nobody is accepted and nobody is timed out.                             *)
(***************************************************************************)
EXTENDS SmtpSession

VARIABLE sending   \* the client that client_send_raw is trying to send to, or None

loopvars == <<vars, sending>>

LoopInit == Init /\ sending = None

\* A handler that runs for c, or client_accept, or the one that times c out,
\* has an answer that the connection to c does not take.
Block(c) ==
    /\ sending = None
    /\ active \in {c, None}
    /\ sess[c].open /\ sess[c].tls # "NEGOTIATE"
    /\ sending' = c
    /\ active' = c
    /\ UNCHANGED <<sess, pool, receipt>>

\* The client reads, or its connection fails, and the sending is over.
Unblock(c) ==
    /\ sending = c
    /\ sending' = None
    /\ UNCHANGED vars

\* A step of the daemon.
Runs(A) == sending = None /\ A /\ UNCHANGED sending

LoopNext ==
    \/ \E c \in Conns : Runs(Connection(c) \/ Command(c)) \/ Block(c) \/ Unblock(c)
    \/ Runs(Shutdown)

\* What is read at once is finite, and so is what is answered, so the loop
\* over the lines gets to its end if the answers get out.  Then every pass of
\* core_loop looks at every connection, whatever the others send; that a
\* client disconnects or falls silent in the end is assumed.
LoopSpec ==
    /\ LoopInit /\ [][LoopNext]_loopvars
    /\ \A c \in Conns : SF_loopvars(Runs(EndBatch(c))) /\ SF_loopvars(Runs(HangUp(c)))

-------------------------------------------------------------------------------
(* Properties *)

\* No client leaves its answers unread for ever while its connection holds.
\* Nothing in the code sees to it.
AnswersAreRead == []<>(sending = None)

\* A path of the pool is given back in the end, however a session ends,
\* provided that clients read their answers.
PathsReturned == AnswersAreRead => \A p \in Paths : pool[p].busy ~> ~pool[p].busy
===============================================================================
