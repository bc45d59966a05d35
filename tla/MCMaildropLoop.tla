---------------------------- MODULE MCMaildropLoop ----------------------------
(***************************************************************************)
(* An instance of MaildropLoop for TLC: two users a and b, mails ma and mb *)
(* for them in the master database, mail ua for a in a's own database.     *)
(***************************************************************************)
EXTENDS MaildropLoop

CONSTANTS a, b, ma, mb, ua

MCUsers == {a, b}
MCMails == {ma, mb, ua}
MCOwner == [m \in MCMails |-> IF m = mb THEN b ELSE a]
MCHasUserDb == {a}
MCUserDbMails == {ua}

\* The second failed command kicks the client.
MCFailLimit == -1
===============================================================================
