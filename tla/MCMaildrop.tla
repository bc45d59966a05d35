----------------------------- MODULE MCMaildrop -----------------------------
(***************************************************************************)
(* An instance of Maildrop for TLC: two users a and b; a has a mail ma in  *)
(* the master database and ua in a's own, b has no mail.                   *)
(***************************************************************************)
EXTENDS Maildrop

CONSTANTS a, b, ma, ua

MCUsers == {a, b}
MCMails == {ma, ua}
MCOwner == [m \in MCMails |-> a]
MCHasUserDb == {a}
MCUserDbMails == {ua}

\* The second failed command kicks the client.
MCFailLimit == -1
=============================================================================
