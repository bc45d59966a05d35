--------------------------- MODULE MaildropService ---------------------------
(***************************************************************************)
(* What cmail-popd promises its clients: a maildrop is the mail of one     *)
(* user, at most one connection has it open at a time, deletions are only  *)
(* wishes until the connection says QUIT, and then all of them happen at   *)
(* once.  A connection that goes away without QUIT changes nothing.        *)
(* Maildrop.tla, which follows the code, is checked to implement this.     *)
(***************************************************************************)
EXTENDS FiniteSets

CONSTANTS Conns,   \* connections
          Users,   \* users that have a maildrop
          Mails,   \* every mail that ever exists
          None,    \* "no connection"
          Owner    \* the user each mail is for

VARIABLES holder,  \* the connection that has a user's maildrop open, or None
          box,     \* what has become of each mail
          seen,    \* the mails the holder was shown when it opened the maildrop
          flagged  \* the mails the holder has asked to delete

avars == <<holder, box, seen, flagged>>

MailsIn(u) == {m \in Mails : Owner[m] = u /\ box[m] = "stored"}

AInit ==
    /\ holder = [u \in Users |-> None]
    /\ box = [m \in Mails |-> "unsent"]
    /\ seen = [u \in Users |-> {}]
    /\ flagged = [u \in Users |-> {}]

Open(u, c) ==
    /\ holder[u] = None
    /\ \A v \in Users : holder[v] # c
    /\ holder' = [holder EXCEPT ![u] = c]
    /\ seen' = [seen EXCEPT ![u] = MailsIn(u)]
    /\ UNCHANGED <<box, flagged>>

Flag(u, m) ==
    /\ holder[u] # None
    /\ m \in seen[u] \ flagged[u]
    /\ flagged' = [flagged EXCEPT ![u] = @ \cup {m}]
    /\ UNCHANGED <<holder, box, seen>>

Unflag(u) ==
    /\ holder[u] # None
    /\ flagged' = [flagged EXCEPT ![u] = {}]
    /\ UNCHANGED <<holder, box, seen>>

\* The holders of the users in S are gone.  Those of the users in C \subseteq S
\* said QUIT: what they had flagged is expunged, the flags of the others are
\* forgotten.  S has several users when the server stops.
End(C, S) ==
    /\ S # {}
    /\ \A u \in S : holder[u] # None
    /\ box' = [m \in Mails |->
                  IF \E u \in C : m \in flagged[u] THEN "expunged" ELSE box[m]]
    /\ holder' = [u \in Users |-> IF u \in S THEN None ELSE holder[u]]
    /\ seen' = [u \in Users |-> IF u \in S THEN {} ELSE seen[u]]
    /\ flagged' = [u \in Users |-> IF u \in S THEN {} ELSE flagged[u]]

Arrive(m) ==
    /\ box[m] = "unsent"
    /\ box' = [box EXCEPT ![m] = "stored"]
    /\ UNCHANGED <<holder, seen, flagged>>

ANext ==
    \/ \E u \in Users :
          \/ \E c \in Conns : Open(u, c)
          \/ \E m \in Mails : Flag(u, m)
          \/ Unflag(u)
    \/ \E S \in SUBSET Users : \E C \in SUBSET S : End(C, S)
    \/ \E m \in Mails : Arrive(m)

ASpec == AInit /\ [][ANext]_avars
==============================================================================
