----------------------------- MODULE SmtpService -----------------------------
(***************************************************************************)
(* What cmail-smtpd promises its clients about a mail transaction: the     *)
(* recipients of a mail are those this client named and saw accepted, in   *)
(* that order, whatever the other clients do meanwhile, and a mail that is *)
(* complete goes to those recipients, on behalf of the user the client had *)
(* logged in as: to all of them, or to the first few when one fails or the *)
(* server dies of it.                                                      *)
(***************************************************************************)
EXTENDS Naturals, Sequences

CONSTANTS Conns,  \* connections
          Addrs,  \* mail addresses
          Users,  \* users
          None    \* "no user", "no connection"

VARIABLES user,   \* who each connection is logged in as
          rcpts,  \* the recipients of each connection's mail so far
          mail    \* the last mail that was complete

svars == <<user, rcpts, mail>>

SInit ==
    /\ user = [c \in Conns |-> None]
    /\ rcpts = [c \in Conns |-> <<>>]
    /\ mail = [from |-> None, to |-> <<>>, kept |-> 0]

\* A connection begins or ends, its user changes, its mail is given up.
Turn(c, u) ==
    /\ user' = [user EXCEPT ![c] = u]
    /\ rcpts' = [rcpts EXCEPT ![c] = <<>>]
    /\ UNCHANGED mail

Recipient(c, a) ==
    /\ rcpts' = [rcpts EXCEPT ![c] = Append(@, a)]
    /\ UNCHANGED <<user, mail>>

\* A complete mail is kept for the first few recipients, or for all.
Keep(c) ==
    /\ rcpts[c] # <<>>
    /\ \E k \in 0..Len(rcpts[c]) :
          mail' = [from |-> user[c], to |-> rcpts[c], kept |-> k]

\* The mail is complete: it is refused unseen, or kept.
Finish(c) ==
    /\ rcpts[c] # <<>>
    /\ rcpts' = [rcpts EXCEPT ![c] = <<>>]
    /\ UNCHANGED mail \/ Keep(c)
    /\ UNCHANGED user

\* The server stops, of its own accord or over a complete mail: every connection
\* ends.
Stop ==
    /\ user' = [c \in Conns |-> None]
    /\ rcpts' = [c \in Conns |-> <<>>]
    /\ UNCHANGED mail \/ \E c \in Conns : Keep(c)

SNext ==
    \/ \E c \in Conns :
          \/ \E u \in Users \cup {None} : Turn(c, u)
          \/ \E a \in Addrs : Recipient(c, a)
          \/ Finish(c)
    \/ Stop

SSpec == SInit /\ [][SNext]_svars
==============================================================================
