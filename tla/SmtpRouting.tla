----------------------------- MODULE SmtpRouting -----------------------------
(***************************************************************************)
(* cmail-smtpd, the routing tables and what becomes of a complete mail:    *)
(* path_resolve looks up where a path leads when MAIL or RCPT names it,    *)
(* mail_route and mail_originate put the mail into the tables mailbox and  *)
(* outbox, one recipient after the other, when its data is complete.       *)
(***************************************************************************)
EXTENDS Integers, Sequences, FiniteSets

CONSTANTS Addrs,      \* mail addresses
          Users,      \* users
          None,       \* "no user", "no address"
          InRouter,   \* router of the first row of `addresses' that matches, or "none"
          Bare,       \* addresses whose route has no argument
          StoreUsers, \* for each address, the users some matching row stores for
          OutRouter,  \* router of each user in table `smtpd', or "none"
          BareOut,    \* users whose outbound route has no argument
          HasDomain,  \* addresses with a domain part
          MaxRcpt,    \* SMTP_MAX_RECIPIENTS
          DbFaults    \* database operations that may fail: "resolve", "route", "store"

InRouters == {"store", "redirect", "handoff", "reject", "drop", "other"}
OutRouters == {"any", "defined", "handoff", "drop", "reject"}

ASSUME RoutingAssumption ==
    /\ None \notin Addrs /\ None \notin Users
    /\ InRouter \in [Addrs -> InRouters \cup {"none"}]
    /\ OutRouter \in [Users -> OutRouters \cup {"none"}]
    /\ StoreUsers \in [Addrs -> SUBSET Users]
    /\ \A a \in Addrs : StoreUsers[a] # {} => InRouter[a] # "none"
    /\ Bare \subseteq Addrs /\ HasDomain \subseteq Addrs /\ BareOut \subseteq Users
    /\ MaxRcpt \in Nat /\ MaxRcpt > 1
    /\ DbFaults \subseteq {"resolve", "route", "store"}

-------------------------------------------------------------------------------
(* Looking up a path *)

\* The router path_resolve finds for a: the first row's, or, when user means to
\* send from a, "store" if some row stores for that user.
Resolved(a, user) ==
    IF user = None THEN InRouter[a]
    ELSE IF user \in StoreUsers[a] THEN "store" ELSE "none"

\* Mutant of MaySend: `defined' users may use any address that is stored.
MaySendAnyLocal(user, route, router) ==
    \/ user = None
    \/ route \in {"any", "handoff", "drop"}
    \/ route = "defined"

\* Whether a user with outbound route `route' may send from a path that was
\* resolved to `router' for that user.
MaySend(user, route, router) ==
    \/ user = None
    \/ route \in {"any", "handoff", "drop"}
    \/ route = "defined" /\ router = "store"

\* route_query
OutboundRoutes(user) ==
    {OutRouter[user]} \cup IF "route" \in DbFaults THEN {"none"} ELSE {}

-------------------------------------------------------------------------------
(* Storing a mail *)

\* What happens to one recipient: the return value of the code and the table
\* that got a row.
Kept(table) == [rv |-> 0, table |-> table]
Failed == [rv |-> -1, table |-> "none"]
Deferred == [rv |-> 1, table |-> "none"]

\* mail_store_inbox, after which route_local_path tries the master database
\* once more, and mail_store_outbox.
Insert(table) ==
    {Kept(table)} \cup IF "store" \in DbFaults THEN {Failed, Deferred} ELSE {}

\* route_local_path
RouteLocal(a, router) ==
    CASE router = "store" -> IF a \in Bare THEN {Failed} ELSE Insert("mailbox")
      [] router \in {"redirect", "handoff"} ->
            IF a \in Bare THEN {Failed} ELSE Insert("outbox")
      [] router = "reject" -> {Failed}
      [] OTHER -> {Kept("none")}

\* How a mail ends when all of its n recipients are stored.  The loops over the
\* recipients end at the first empty place of the array.  A full array has none:
\* what lies behind it, data_allocated and data_offset, is taken for a path.  The
\* daemon dies of it, or that path makes any answer of it; its rows are not kept
\* track of.
Ends(n) == IF n < MaxRcpt THEN {"250"} ELSE {"250", "451", "554", "died"}

\* Recipients are handled in order; the first that fails decides the answer,
\* and those before it keep what they got.
Passes(t, k) == \A i \in 1..k : \E r \in t[i] : r.rv = 0
Tables(t, k) == [i \in 1..k |-> (CHOOSE r \in t[i] : r.rv = 0).table]
InOrder(t) ==
    {[answer |-> a, tables |-> Tables(t, Len(t))] :
        a \in IF Passes(t, Len(t)) THEN Ends(Len(t)) ELSE {}}
    \cup UNION {{[answer |-> IF r.rv = 1 THEN "451" ELSE "554", tables |-> Tables(t, k - 1)] :
                    r \in {r \in t[k] : r.rv # 0}} :
                k \in {k \in 1..Len(t) : Passes(t, k - 1)}}

\* Mutant of MailRoute: a recipient that cannot be stored now is skipped.
MailRouteSkips(rcpts) ==
    InOrder([i \in 1..Len(rcpts) |->
        {IF r.rv = 1 THEN Kept("none") ELSE r :
            r \in IF rcpts[i].router = "none" THEN Insert("outbox")
                  ELSE RouteLocal(rcpts[i].addr, rcpts[i].router)}])

\* mail_route.  rcpts is a sequence of paths.
MailRoute(rcpts) ==
    InOrder([i \in 1..Len(rcpts) |->
        IF rcpts[i].router = "none" THEN Insert("outbox")
        ELSE RouteLocal(rcpts[i].addr, rcpts[i].router)])

\* mail_originate.  A handoff without argument takes the mail and keeps nothing.
MailOriginate(user, route, rcpts) ==
    CASE route = "none" -> {[answer |-> "554", tables |-> <<>>]}
      [] route = "drop" \/ (route = "handoff" /\ user \in BareOut) ->
            {[answer |-> "250", tables |-> [i \in 1..Len(rcpts) |-> "none"]]}
      [] route = "handoff" /\ user \notin BareOut ->
            InOrder([i \in 1..Len(rcpts) |-> Insert("outbox")])
      [] OTHER -> MailRoute(rcpts)
==============================================================================
