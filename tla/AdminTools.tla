------------------------------ MODULE AdminTools ------------------------------
(***************************************************************************)
(* The tables administrators edit while the daemons run, and the cmail-    *)
(* admin tools that edit them: users, who may use smtpd, popd and the API, *)
(* and the addresses mail is accepted for.                                 *)
(*                                                                         *)
(* A tool is a process that runs one SQL statement and exits, so each      *)
(* action below is one call of a tool.  Two tools need more: `user add'    *)
(* sets the password by a second statement, and `address swap' reads a row *)
(* before it begins its transaction.  The tools of other administrators    *)
(* may run between the two.  A statement that fails changes nothing, nor   *)
(* does one that finds no row; neither is a step.                          *)
(***************************************************************************)
EXTENDS Integers, FiniteSets

CONSTANTS Users,      \* names users may have
          Files,      \* paths user databases may have
          Exprs,      \* address expressions
          Orders,     \* values of address_order
          Routers,    \* outbound routers of table smtpd
          Perms,      \* permissions of table api_access
          None,       \* NULL, and "no row"
          Rights0,    \* rows of the tables of rights at first
          Addrs0,     \* rows of table addresses at first
          Seq0,       \* the largest order among them
          ToolFaults, \* statements of a swap that may fail
          MaxEdits    \* bound: calls of tools

VARIABLES users,  \* table users: the row of a name, or None
          acl,    \* tables smtpd, popd, api_access and the delegates
          addrs,  \* table addresses: the row of an order, or None
          seq,    \* the largest address_order ever inserted (sqlite_sequence)
          adding, \* the user whose password `user add' has still to set, or None
          swap,   \* the `address swap' between its two steps, or None
          given,  \* history: rights given to users since they were created
          edits   \* calls of tools so far

tools == <<users, acl, addrs, seq, adding, swap, given, edits>>

-------------------------------------------------------------------------------
(* Tables *)

Account == [auth  : BOOLEAN,               \* user_authdata is not NULL
            db    : Files \cup {None},     \* user_database
            alias : Users \cup {None}]     \* user_alias

\* One row per user: the user may log in to smtpd (and send by that router)
\* or to popd.
OnePerUser == {"smtpd", "popd"}

Right ==
       [table : {"smtpd"}, user : Users, arg : Routers]
  \cup  [table : {"popd"}, user : Users, arg : {None}]
  \cup  [table : {"api_access"}, user : Users, arg : Perms]
  \cup  [table : {"api_address_delegates"}, user : Users, arg : Exprs]
  \cup  [table : {"api_user_delegates"}, user : Users, arg : Users]
  \cup  [table : {"alias"}, user : Users, arg : Users]

\* An address is stored to a user (router store) or not stored (None).
Address == [expr : Exprs, user : Users \cup {None}]

Swap == [first : Orders, second : Orders, row : Address, touched : BOOLEAN]

ASSUME ToolAssumption ==
    /\ None \notin Account /\ None \notin Address /\ None \notin Swap
    /\ None \notin Users \cup Files
    /\ Orders \subseteq Nat
    /\ Rights0 \subseteq Right /\ \A r \in Rights0 : r.table # "alias"
    /\ Addrs0 \in [Orders -> Address \cup {None}]
    /\ Seq0 \in Nat /\ \A o \in Orders : Addrs0[o] # None => o <= Seq0
    /\ ToolFaults \subseteq {"delete", "update", "insert", "commit"}
    /\ MaxEdits \in Nat

Exists(u) == users[u] # None
Taken(o) == addrs[o] # None
Named == {users[u].db : u \in {v \in Users : Exists(v)}} \ {None}

\* An alias is a right too: whoever logs in as the alias is the user behind it.
Aliases ==
    {r \in [table : {"alias"}, user : Users, arg : Users] :
        Exists(r.user) /\ users[r.user].alias = r.arg}
Rights == acl \cup Aliases

Concerns(r, u) ==
    \/ r.user = u
    \/ r.table \in {"api_user_delegates", "alias"} /\ r.arg = u

Edit == edits < MaxEdits /\ edits' = edits + 1

\* Somebody else changes the row a swap has read.
Touch(o) == swap' = IF swap # None /\ swap.first = o
                    THEN [swap EXCEPT !.touched = TRUE] ELSE swap

-------------------------------------------------------------------------------
(* cmail-admin-users *)

Unknown == [auth |-> FALSE, db |-> None, alias |-> None]

\* `add': the row has no password until the second statement has run.
AddUser(u) ==
    /\ Edit
    /\ ~Exists(u) /\ adding = None
    /\ users' = [users EXCEPT ![u] = Unknown]
    /\ adding' = u
    /\ UNCHANGED <<acl, addrs, seq, swap, given>>

\* The second statement of `add'.  An empty password disables the login; the
\* user may have been deleted, or the tool left at its prompt, meanwhile.
AddPassword ==
    /\ adding # None
    /\ \/ UNCHANGED users
       \/ \E p \in BOOLEAN :
            Exists(adding) /\ users' = [users EXCEPT ![adding].auth = p]
    /\ adding' = None
    /\ UNCHANGED <<acl, addrs, seq, swap, given, edits>>

\* `password', and `revoke' when p is FALSE.
SetPassword(u, p) ==
    /\ Edit
    /\ Exists(u)
    /\ users' = [users EXCEPT ![u].auth = p]
    /\ UNCHANGED <<acl, addrs, seq, adding, swap, given>>

\* `alias': NULL for no alias and for the user himself.
SetAlias(u, a) ==
    /\ Edit
    /\ Exists(u) /\ (a # None => Exists(a) /\ a # u)
    /\ users' = [users EXCEPT ![u].alias = a]
    /\ given' = given \cup {[table |-> "alias", user |-> u, arg |-> v] : v \in {a} \ {None}}
    /\ UNCHANGED <<acl, addrs, seq, adding, swap>>

SetUserdb(u, f) ==
    /\ Edit
    /\ Exists(u)
    /\ users' = [users EXCEPT ![u].db = f]
    /\ UNCHANGED <<acl, addrs, seq, adding, swap, given>>

\* Mutant of Cascade: delegations to the user outlive him.
CascadeOwnRows(u) ==
    /\ users' = [v \in Users |->
                    IF v = u THEN None
                    ELSE IF Exists(v) /\ users[v].alias = u
                         THEN [users[v] EXCEPT !.alias = None] ELSE users[v]]
    /\ acl' = {r \in acl : r.user # u}

\* What the foreign keys do when a row of users goes.
Cascade(u) ==
    /\ users' = [v \in Users |->
                    IF v = u THEN None
                    ELSE IF Exists(v) /\ users[v].alias = u
                         THEN [users[v] EXCEPT !.alias = None] ELSE users[v]]
    /\ acl' = {r \in acl : ~Concerns(r, u)}

\* `delete'.  The addresses of the user stay.
DeleteUser(u) ==
    /\ Edit
    /\ Exists(u)
    /\ Cascade(u)
    /\ given' = {r \in given : ~Concerns(r, u)}
    /\ UNCHANGED <<addrs, seq, adding, swap>>

-------------------------------------------------------------------------------
(* cmail-admin-smtpd, -popd and -permissions *)

\* A row is inserted: it refers to users that exist, and is unique.
Give(r) ==
    /\ Edit
    /\ \A u \in Users : Concerns(r, u) => Exists(u)
    /\ ~\E q \in acl : /\ q.table = r.table /\ q.user = r.user
                       /\ q.table \in OnePerUser \/ q.arg = r.arg
    /\ acl' = acl \cup {r}
    /\ given' = given \cup {r}
    /\ UNCHANGED <<users, addrs, seq, adding, swap>>

\* A row is deleted.
Take(r) ==
    /\ Edit
    /\ r \in acl
    /\ acl' = acl \ {r}
    /\ given' = given \ {r}
    /\ UNCHANGED <<users, addrs, seq, adding, swap>>

EnableSmtpd(r) == r.table = "smtpd" /\ Give(r)
EnablePopd(r) == r.table = "popd" /\ Give(r)
Grant(r) == r.table = "api_access" /\ Give(r)
DelegateAddress(r) == r.table = "api_address_delegates" /\ Give(r)
DelegateUser(r) == r.table = "api_user_delegates" /\ Give(r)

DisableSmtpd(r) == r.table = "smtpd" /\ Take(r)
DisablePopd(r) == r.table = "popd" /\ Take(r)
DeleteAddressDelegation(r) == r.table = "api_address_delegates" /\ Take(r)
DeleteUserDelegation(r) == r.table = "api_user_delegates" /\ Take(r)

\* `revoke' of several permissions is one statement for each, until one fails.
RevokePermission(r) == r.table = "api_access" /\ Take(r)

\* `revoke' without a permission: sqlite_delete_permissions binds its statement
\* and frees it, without running it.
TakeAll(u) ==
    /\ Edit
    /\ UNCHANGED <<users, acl, addrs, seq, adding, swap, given>>

\* cmail-admin-smtpd `update'.
UpdateMsa(r, router) ==
    /\ Edit
    /\ r \in acl /\ r.table = "smtpd" /\ r.arg # router
    /\ LET q == [r EXCEPT !.arg = router]
       IN  acl' = (acl \ {r}) \cup {q} /\ given' = (given \ {r}) \cup {q}
    /\ UNCHANGED <<users, addrs, seq, adding, swap>>

-------------------------------------------------------------------------------
(* cmail-admin-address *)

AddAt(o, a) ==
    /\ Edit
    /\ ~Taken(o)
    /\ addrs' = [addrs EXCEPT ![o] = a]
    /\ seq' = IF o > seq THEN o ELSE seq
    /\ Touch(o)
    /\ UNCHANGED <<users, acl, adding, given>>

\* `add' with an order, and without: AUTOINCREMENT takes the next one.
AddAddressOrder(o, a) == AddAt(o, a)
AddAddress(a) == seq + 1 \in Orders /\ AddAt(seq + 1, a)

UpdateAddress(o, u) ==
    /\ Edit
    /\ Taken(o) /\ addrs[o].user # u
    /\ addrs' = [addrs EXCEPT ![o].user = u]
    /\ Touch(o)
    /\ UNCHANGED <<users, acl, seq, adding, given>>

DeleteAddress(o) ==
    /\ Edit
    /\ Taken(o)
    /\ addrs' = [addrs EXCEPT ![o] = None]
    /\ Touch(o)
    /\ UNCHANGED <<users, acl, seq, adding, given>>

\* `swap' reads the row with the first order.  Without a row it ends here; when
\* the statement fails it goes on and rolls back, since it has no expression.
SwapFetch(first, second) ==
    /\ Edit
    /\ swap = None /\ Taken(first)
    /\ swap' = [first |-> first, second |-> second, row |-> addrs[first], touched |-> FALSE]
    /\ UNCHANGED <<users, acl, addrs, seq, adding, given>>

\* Mutant of Swapped: the transaction ends with COMMIT when a statement failed.
SwappedAnyway(ok, s) ==
    LET deleted == IF "delete" \in ok THEN [addrs EXCEPT ![s.first] = None] ELSE addrs
        moved == IF s.second = s.first \/ deleted[s.second] = None \/ deleted[s.first] # None
                 THEN deleted
                 ELSE [deleted EXCEPT ![s.first] = deleted[s.second], ![s.second] = None]
    IN  IF "insert" \in ok THEN [moved EXCEPT ![s.second] = s.row] ELSE moved

\* The table behind the transaction of a swap when the statements in `ok'
\* succeed: delete the first row, move the second to its order, insert what was
\* read in the place of the second, commit.  That the DELETE failed goes
\* unnoticed.  The UPDATE fails when the first order is still taken, the INSERT
\* when the second is.
Swapped(ok, s) ==
    LET deleted == IF "delete" \in ok THEN [addrs EXCEPT ![s.first] = None] ELSE addrs
        blocked == s.second # s.first /\ deleted[s.first] # None /\ deleted[s.second] # None
        moved == IF s.second = s.first \/ deleted[s.second] = None THEN deleted
                 ELSE [deleted EXCEPT ![s.first] = deleted[s.second], ![s.second] = None]
    IN  IF {"update", "insert", "commit"} \subseteq ok /\ ~blocked /\ moved[s.second] = None
        THEN [moved EXCEPT ![s.second] = s.row] ELSE addrs

\* The rest of sqlite_swap, one transaction.
SwapCommit ==
    /\ swap # None
    /\ \E bad \in SUBSET ToolFaults :
         addrs' = Swapped({"delete", "update", "insert", "commit"} \ bad, swap)
    /\ seq' = IF addrs' # addrs /\ swap.second > seq THEN swap.second ELSE seq
    /\ swap' = None
    /\ UNCHANGED <<users, acl, adding, given, edits>>

-------------------------------------------------------------------------------
(* Everything the tools do; what the foreign keys make of the mail of a user *)
(* who is deleted is in module UserDatabases.                                *)

ToolInit ==
    /\ users \in [Users -> {[auth |-> TRUE, db |-> f, alias |-> None] : f \in Files \cup {None}}]
    /\ acl = Rights0
    /\ addrs = Addrs0
    /\ seq = Seq0
    /\ adding = None
    /\ swap = None
    /\ given = Rights0
    /\ edits = 0

AccountTools ==
    \/ \E u \in Users :
         \/ AddUser(u)
         \/ \E p \in BOOLEAN : SetPassword(u, p)
         \/ \E a \in Users \cup {None} : SetAlias(u, a)
         \/ \E f \in Files \cup {None} : SetUserdb(u, f)
         \/ TakeAll(u)
    \/ AddPassword
    \/ \E r \in Right \ acl :
         EnableSmtpd(r) \/ EnablePopd(r) \/ Grant(r) \/ DelegateAddress(r) \/ DelegateUser(r)
    \/ \E r \in acl :
         \/ DisableSmtpd(r) \/ DisablePopd(r) \/ RevokePermission(r)
         \/ DeleteAddressDelegation(r) \/ DeleteUserDelegation(r)
         \/ \E router \in Routers : UpdateMsa(r, router)

AddressTools ==
    \/ \E a \in Address : AddAddress(a) \/ \E o \in Orders : AddAddressOrder(o, a)
    \/ \E o \in Orders, u \in Users \cup {None} : UpdateAddress(o, u)
    \/ \E o \in Orders : DeleteAddress(o)
    \/ \E o, p \in Orders : SwapFetch(o, p)
    \/ SwapCommit
===============================================================================
