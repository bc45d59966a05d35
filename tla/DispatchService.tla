--------------------------- MODULE DispatchService ---------------------------
(***************************************************************************)
(* What cmail-dispatchd promises about the outbound queue: a mail leaves   *)
(* it only when the remote server has taken responsibility for it, or when *)
(* somebody has been told that it could not be delivered.  The notices     *)
(* that tell so are mails in the same queue; they have no sender to be     *)
(* told about them, and may be given up.                                   *)
(* Dispatch.tla, which follows the code, is checked to implement this.     *)
(***************************************************************************)

CONSTANTS Mails,   \* mails that have a sender
          Notices  \* reports of failed deliveries

VARIABLES arrived, \* the mails that were ever handed in
          queue,   \* what is waiting for delivery
          taken,   \* what remote servers have taken
          told     \* the mails whose failure was reported

avars == <<arrived, queue, taken, told>>

AInit == arrived = {} /\ queue = {} /\ taken = {} /\ told = {}

HandIn(m) ==
    /\ m \notin arrived
    /\ arrived' = arrived \cup {m}
    /\ queue' = queue \cup {m}
    /\ UNCHANGED <<taken, told>>

\* Servers take mails that were handed in, even when it is too late.
TakenOver ==
    /\ UNCHANGED <<arrived, queue, told>>
    /\ taken \subseteq taken' /\ taken' \subseteq Mails \cup Notices
    /\ (taken' \ taken) \cap Mails \subseteq arrived

Report(S, n) ==
    /\ S # {}
    /\ S \subseteq arrived
    /\ n \notin queue
    /\ told' = told \cup S
    /\ queue' = queue \cup {n}
    /\ UNCHANGED <<arrived, taken>>

Leave(r) ==
    /\ r \in queue
    /\ r \in taken \cup told \cup Notices
    /\ queue' = queue \ {r}
    /\ UNCHANGED <<arrived, taken, told>>

\* Another delivery agent on the same queue hands a mail over.
HandedOver(r) ==
    /\ r \in queue
    /\ taken' = taken \cup {r}
    /\ queue' = queue \ {r}
    /\ UNCHANGED <<arrived, told>>

\* It tells the sender, and the mail leaves.
ReportedElsewhere(m, n) ==
    /\ m \in queue /\ m \in arrived
    /\ n \notin queue
    /\ told' = told \cup {m}
    /\ queue' = (queue \cup {n}) \ {m}
    /\ UNCHANGED <<arrived, taken>>

ANext ==
    \/ TakenOver
    \/ \E m \in Mails : HandIn(m)
    \/ \E r \in Mails \cup Notices : Leave(r) \/ HandedOver(r)
    \/ \E m \in Mails, n \in Notices : ReportedElsewhere(m, n)
    \/ \E S \in SUBSET Mails, n \in Notices : Report(S, n)

ASpec == AInit /\ [][ANext]_avars
==============================================================================
