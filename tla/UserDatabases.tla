----------------------------- MODULE UserDatabases -----------------------------
(***************************************************************************)
(* Where cmail-smtpd stores a mail, and where cmail-popd looks for it,     *)
(* while administrators edit the tables.                                   *)
(*                                                                         *)
(* The route of a recipient is read from table addresses when RCPT is      *)
(* handled, the user and his database when the mail is complete.  smtpd    *)
(* keeps the user databases it has opened; one that is missing makes it    *)
(* look at the table again (database_refresh).  A refresh marks as active  *)
(* only what it attaches itself, and detaches everything else.             *)
(*                                                                         *)
(* The statement that reads the user is open while the mail is stored, and *)
(* its lock keeps the tools from committing; the last try to store it to   *)
(* the master database comes behind that.                                  *)
(***************************************************************************)
EXTENDS AdminTools

CONSTANTS Paths,       \* recipients of mails
          Matches,     \* the expressions each of them is LIKE
          StoreFaults, \* statements of smtpd that may fail
          MaxMails,    \* bound: mails with a local recipient
          MaxBreaks    \* bound: times a user database becomes unusable

Master == "master"

ASSUME StorageAssumption ==
    /\ Matches \in [Paths -> SUBSET Exprs]
    /\ Master \notin Files
    /\ StoreFaults \subseteq {"master", "file", "select"}
    /\ MaxMails \in Nat /\ MaxBreaks \in Nat

VARIABLES up,       \* smtpd runs
          attached, \* the user databases it has attached
          broken,   \* user databases that can not be opened or written
          path,     \* the user a pending mail is routed to, or None
          retry,    \* the user a mail could not be stored for, or None
          stored,   \* the rows of every table mailbox
          kept,     \* history: mails their users have not lost by a tool
          mails,    \* mails so far; the number of a mail is its identity
          breaks    \* failures of user databases so far

storage == <<up, attached, broken, path, retry, stored, kept, mails, breaks>>
vars == <<tools, storage>>

-------------------------------------------------------------------------------
(* cmail-smtpd *)

Row == [id : 1..MaxMails, user : Users, place : Files \cup {Master}]

Missing == Named \ attached

\* database_attach and the statement it prepares succeed.
Attachable == Missing \ broken

\* Mutant of Refreshed: what was attached by this refresh is not active.
RefreshedForgets == {{}}

\* What database_refresh leaves attached: the databases it has attached itself.
\* The first that can not be opened ends the loop over the rows, whose order is
\* the database's.
Refreshed ==
    IF Attachable = Missing /\ "select" \notin StoreFaults
    THEN {Missing}
    ELSE SUBSET Attachable

\* database_initialize: smtpd does not start when the first refresh fails.
Start ==
    /\ ~up
    /\ Named \cap broken = {}
    /\ up' = TRUE
    /\ attached' = Named
    /\ UNCHANGED <<tools, broken, path, retry, stored, kept, mails, breaks>>

\* smtpd stops or dies, at any point.
Stop ==
    /\ up
    /\ up' = FALSE
    /\ attached' = {}
    /\ path' = None /\ retry' = None
    /\ UNCHANGED <<tools, broken, stored, kept, mails, breaks>>

\* The rows that match recipient p; the one with the largest order is used.
Candidates(p) == {o \in Orders : Taken(o) /\ addrs[o].expr \in Matches[p]}

\* RCPT: the recipient is stored to a user.  Other routers are in SmtpRouting.
Route(p) ==
    /\ up /\ path = None /\ retry = None /\ mails < MaxMails
    /\ \E o \in Candidates(p) :
         /\ \A q \in Candidates(p) : q <= o
         /\ addrs[o].user # None
         /\ path' = addrs[o].user
    /\ mails' = mails + 1
    /\ UNCHANGED <<tools, up, attached, broken, retry, stored, kept, breaks>>

\* The mail is in the table mailbox at place, and answered with 250.
Accept(u, place) ==
    /\ stored' = stored \cup {[id |-> mails, user |-> u, place |-> place]}
    /\ kept' = kept \cup {mails}
    /\ UNCHANGED retry

\* The first try has failed.
TryAgain(u) == retry' = u /\ UNCHANGED <<stored, kept>>

\* Whether an INSERT at a place may succeed, and may fail.
MaySucceed(place) == place \notin broken
MayFail(place) ==
    \/ place \in broken
    \/ place = Master /\ "master" \in StoreFaults
    \/ place \in Files /\ "file" \in StoreFaults

InsertAt(u, place) ==
    \/ MaySucceed(place) /\ Accept(u, place)
    \/ MayFail(place) /\ TryAgain(u)

\* Mutant of PlaceFor: the database is taken from those attached before.
PlaceForStale(u, now) ==
    IF users[u].db = None \/ attached = {} THEN Master
    ELSE CHOOSE f \in attached : TRUE

\* Where the mail of u goes when the databases in now are attached.
PlaceFor(u, now) ==
    IF users[u].db \in now THEN users[u].db ELSE Master

\* Router store of route_local_path, under the lock of its query.
Store ==
    /\ path # None
    /\ path' = None
    /\ IF ~Exists(path) THEN TryAgain(path) /\ UNCHANGED attached
       ELSE /\ IF users[path].db \in attached \cup {None}
               THEN UNCHANGED attached ELSE attached' \in Refreshed
            /\ InsertAt(path, PlaceFor(path, attached'))
    /\ UNCHANGED <<tools, up, broken, mails, breaks>>

\* The last try is the master database, whose foreign key wants the user to
\* exist.  When it fails too the mail is refused.
StoreAgain ==
    /\ retry # None
    /\ retry' = None
    /\ \/ /\ Exists(retry)
          /\ stored' = stored \cup {[id |-> mails, user |-> retry, place |-> Master]}
          /\ kept' = kept \cup {mails}
       \/ /\ ~Exists(retry) \/ MayFail(Master)
          /\ UNCHANGED <<stored, kept>>
    /\ UNCHANGED <<tools, up, attached, broken, path, mails, breaks>>

-------------------------------------------------------------------------------
(* cmail-popd, the tools and the file system *)

\* The mail popd lists for a user at login: his in the master database and in
\* the user database the table names then.
Listed(m) ==
    Exists(m.user) /\ m.place \in {Master, users[m.user].db}

\* The foreign key of the master database; user databases have none.
Purged ==
    stored' = {m \in stored : m.place = Master => users'[m.user] # None}

\* A tool may take mail away from its user: by deleting him, or by giving him
\* another database.
Tool ==
    /\ (\E u \in Users : DeleteUser(u)) \/ AccountTools \/ AddressTools
    /\ Purged
    /\ kept' = {i \in kept : \E m \in stored' : m.id = i /\ Listed(m)'}
    /\ UNCHANGED <<up, attached, broken, path, retry, mails, breaks>>

Break(f) ==
    /\ breaks < MaxBreaks
    /\ f \notin broken
    /\ broken' = broken \cup {f}
    /\ breaks' = breaks + 1
    /\ UNCHANGED <<tools, up, attached, path, retry, stored, kept, mails>>

Repair(f) ==
    /\ f \in broken
    /\ broken' = broken \ {f}
    /\ UNCHANGED <<tools, up, attached, path, retry, stored, kept, mails, breaks>>

Init ==
    /\ ToolInit
    /\ up = FALSE
    /\ attached = {}
    /\ broken = {}
    /\ path = None /\ retry = None
    /\ stored = {} /\ kept = {}
    /\ mails = 0 /\ breaks = 0

Next ==
    \/ Start \/ Stop
    \/ \E p \in Paths : Route(p)
    \/ Store \/ StoreAgain
    \/ Tool
    \/ \E f \in Files : Break(f) \/ Repair(f)

Spec == Init /\ [][Next]_vars

-------------------------------------------------------------------------------
(* Properties *)

TypeOK ==
    /\ users \in [Users -> Account \cup {None}]
    /\ acl \subseteq Right
    /\ addrs \in [Orders -> Address \cup {None}]
    /\ seq \in Nat
    /\ adding \in Users \cup {None}
    /\ swap \in Swap \cup {None}
    /\ given \subseteq Right
    /\ edits \in 0..MaxEdits
    /\ up \in BOOLEAN
    /\ attached \subseteq Files /\ broken \subseteq Files
    /\ path \in Users \cup {None} /\ retry \in Users \cup {None}
    /\ stored \subseteq Row /\ kept \subseteq 1..MaxMails
    /\ mails \in 0..MaxMails /\ breaks \in 0..MaxBreaks

\* A user who is deleted leaves nothing to the next one of his name: no right to
\* log in, no permission, no delegation by him or to him, no alias, and no mail
\* in the master database.
NothingInherited ==
    /\ Rights \subseteq given
    /\ \A m \in stored : m.place = Master => m.id \in kept

\* A mail that was answered with 250 is in exactly one mailbox, and that is one
\* popd shows its user, unless a tool has taken it from him.
KeptIsListed ==
    \A i \in kept : \E m \in stored : Listed(m) /\ \A n \in stored : n.id = i <=> n = m

\* The mail of a user with a database of his own goes to the master database
\* only when some database the table names can not be opened, or when it could
\* not be stored at first.
MasterForCause ==
    [][\A m \in stored' \ stored :
          m.place = Master /\ retry = None /\ users[m.user].db # None
          => Missing \cap broken # {}]_vars

\* Where the row of an order belongs when a swap is over.
Partner(s, o) == CASE o = s.first -> s.second [] o = s.second -> s.first [] OTHER -> o

\* Whatever statement of a swap fails and whichever other tool runs before its
\* transaction, the swap moves the two rows, or leaves the table alone; no row
\* is lost, unless the row it had read was changed.
SwapKeepsRows ==
    [][swap # None /\ swap' = None
       => \/ addrs' = addrs
          \/ swap.touched
          \/ \A o \in Orders : Taken(o) => addrs'[Partner(swap, o)] = addrs[o]]_vars

===============================================================================
