------------------------------ MODULE HostProofs ------------------------------
(***************************************************************************)
(* Proofs about UserDatabases and AdminTools for any tables, any number of *)
(* calls of tools, mails and failures.                                     *)
(*                                                                         *)
(* Rights are followed through the cascades of a deletion, mails through   *)
(* their identities: the mail that is on its way has one that no stored    *)
(* mail has (Pending), and what a tool takes from a user is no longer      *)
(* counted as kept.  A swap still holds the row it has read, unless that   *)
(* was touched (SwapRead).                                                 *)
(***************************************************************************)
EXTENDS UserDatabases, TLAPS

\* The tables of users and rights have their types.
AccountsOK ==
    /\ users \in [Users -> Account \cup {None}]
    /\ acl \subseteq Right
    /\ adding \in Users \cup {None}
    /\ given \subseteq Right
    /\ edits \in 0..MaxEdits

AddressesOK ==
    /\ addrs \in [Orders -> Address \cup {None}]
    /\ seq \in Nat
    /\ swap \in Swap \cup {None}
    /\ edits \in 0..MaxEdits

StorageOK ==
    /\ up \in BOOLEAN
    /\ attached \subseteq Files /\ broken \subseteq Files
    /\ path \in Users \cup {None} /\ retry \in Users \cup {None}
    /\ stored \subseteq Row /\ kept \subseteq 1..MaxMails
    /\ mails \in 0..MaxMails /\ breaks \in 0..MaxBreaks

\* Rights \subseteq given, with aliases read from the rows of users.
AliasOf(u, a) == [table |-> "alias", user |-> u, arg |-> a]
RightsGiven ==
    /\ acl \subseteq given
    /\ \A u \in Users : Exists(u) /\ users[u].alias # None => AliasOf(u, users[u].alias) \in given

\* A swap knows its row unless somebody has changed it.
SwapRead == swap # None /\ ~swap.touched => addrs[swap.first] = swap.row

\* The mail on its way is the last one, and is nowhere yet.
Pending ==
    /\ path # None => retry = None
    /\ path # None \/ retry # None => mails > 0 /\ \A m \in stored : m.id # mails

\* Identities are identities.
Distinct ==
    /\ \A m \in stored : m.id =< mails
    /\ \A m, n \in stored : m.id = n.id => m = n

MasterKept == \A m \in stored : m.place = Master => m.id \in kept
KeptThere == \A i \in kept : \E m \in stored : m.id = i /\ Listed(m)

MailsOK == Pending /\ Distinct /\ MasterKept /\ KeptThere

HInv ==
    /\ AccountsOK /\ AddressesOK /\ StorageOK
    /\ RightsGiven /\ SwapRead /\ MailsOK

-------------------------------------------------------------------------------
(* Rows of users *)

LEMMA ChangedRow ==
    ASSUME NEW r \in Account
    PROVE  /\ \A p \in BOOLEAN : /\ [r EXCEPT !.auth = p] \in Account
                                 /\ [r EXCEPT !.auth = p].alias = r.alias
                                 /\ [r EXCEPT !.auth = p].db = r.db
           /\ \A f \in Files \cup {None} : /\ [r EXCEPT !.db = f] \in Account
                                           /\ [r EXCEPT !.db = f].alias = r.alias
           /\ \A a \in Users \cup {None} : /\ [r EXCEPT !.alias = a] \in Account
                                           /\ [r EXCEPT !.alias = a].alias = a
                                           /\ [r EXCEPT !.alias = a].db = r.db
BY DEF Account

\* A row of users is changed to one with the same alias.
LEMMA SameAlias ==
    ASSUME AccountsOK, RightsGiven, NEW u \in Users, NEW r \in Account,
           users' = [users EXCEPT ![u] = r],
           r.alias = None \/ (Exists(u) /\ r.alias = users[u].alias),
           acl' = acl, given' = given
    PROVE  users' \in [Users -> Account \cup {None}] /\ RightsGiven'
<1>1. \A v \in Users : users'[v] = IF v = u THEN r ELSE users[v]
    BY DEF AccountsOK
<1>2. users' \in [Users -> Account \cup {None}]
    BY DEF AccountsOK
<1>3. ASSUME NEW v \in Users, users'[v] # None, users'[v].alias # None
      PROVE  AliasOf(v, users'[v].alias) \in given
    BY <1>1, <1>3 DEF RightsGiven, Exists
<1> QED  BY <1>2, <1>3 DEF RightsGiven, Exists, AliasOf

LEMMA AliasRight ==
    ASSUME NEW u \in Users, NEW a \in Users
    PROVE  AliasOf(u, a) \in Right /\ AliasOf(u, a).table = "alias"
           /\ AliasOf(u, a).user = u /\ AliasOf(u, a).arg = a
BY DEF AliasOf, Right

LEMMA Row0 == Unknown \in Account /\ Unknown.alias = None
BY DEF Unknown, Account

LEMMA EditBound == ASSUME Edit, edits \in 0..MaxEdits PROVE edits' \in 0..MaxEdits
BY ToolAssumption DEF Edit

\* What keeps the tables of rights together.
AccountsInv == AccountsOK /\ RightsGiven

LEMMA AddUserInv == ASSUME AccountsInv, NEW u \in Users, AddUser(u) PROVE AccountsInv'
<1>1. users' = [users EXCEPT ![u] = Unknown] /\ acl' = acl /\ given' = given /\ adding' = u
    BY DEF AddUser
<1>2. users' \in [Users -> Account \cup {None}] /\ RightsGiven'
    BY <1>1, Row0, SameAlias DEF AccountsInv
<1> QED  BY <1>1, <1>2, EditBound DEF AccountsInv, AccountsOK, AddUser

LEMMA PasswordSet ==
    ASSUME AccountsInv, NEW u \in Users, Exists(u), NEW p \in BOOLEAN,
           users' = [users EXCEPT ![u].auth = p], acl' = acl, given' = given
    PROVE  users' \in [Users -> Account \cup {None}] /\ RightsGiven'
<1>1. users[u] \in Account
    BY DEF AccountsInv, AccountsOK, Exists
<1> DEFINE r == [users[u] EXCEPT !.auth = p]
<1>2. users' = [users EXCEPT ![u] = r]
    OBVIOUS
<1>3. r \in Account /\ r.alias = users[u].alias
    BY <1>1, ChangedRow
<1> HIDE DEF r
<1> QED  BY <1>2, <1>3, SameAlias DEF AccountsInv

LEMMA AddPasswordInv == ASSUME AccountsInv, AddPassword PROVE AccountsInv'
<1>1. acl' = acl /\ given' = given /\ adding' = None /\ edits' = edits
    BY DEF AddPassword
<1>2. CASE users' = users
    BY <1>1, <1>2 DEF AccountsInv, AccountsOK, RightsGiven, Exists
<1>3. ASSUME NEW p \in BOOLEAN, Exists(adding), users' = [users EXCEPT ![adding].auth = p],
             adding # None
      PROVE  AccountsInv'
    <2>1. adding \in Users
        BY <1>3 DEF AccountsInv, AccountsOK
    <2>2. users' \in [Users -> Account \cup {None}] /\ RightsGiven'
        BY <1>1, <1>3, <2>1, PasswordSet
    <2> QED  BY <1>1, <2>2 DEF AccountsInv, AccountsOK
<1> QED  BY <1>2, <1>3 DEF AddPassword

LEMMA SetPasswordInv ==
    ASSUME AccountsInv, NEW u \in Users, NEW p \in BOOLEAN, SetPassword(u, p) PROVE AccountsInv'
<1>1. users' \in [Users -> Account \cup {None}] /\ RightsGiven'
    BY PasswordSet DEF SetPassword
<1> QED  BY <1>1, EditBound DEF AccountsInv, AccountsOK, SetPassword

LEMMA SetUserdbInv ==
    ASSUME AccountsInv, NEW u \in Users, NEW f \in Files \cup {None}, SetUserdb(u, f)
    PROVE  AccountsInv'
<1> DEFINE r == [users[u] EXCEPT !.db = f]
<1>1. users[u] \in Account /\ Exists(u)
    BY DEF AccountsInv, AccountsOK, Exists, SetUserdb
<1>2. users' = [users EXCEPT ![u] = r] /\ acl' = acl /\ given' = given
    BY DEF SetUserdb
<1>3. r \in Account /\ r.alias = users[u].alias
    BY <1>1, ChangedRow
<1> HIDE DEF r
<1>4. users' \in [Users -> Account \cup {None}] /\ RightsGiven'
    BY <1>1, <1>2, <1>3, SameAlias DEF AccountsInv
<1> QED  BY <1>4, EditBound DEF AccountsInv, AccountsOK, SetUserdb

LEMMA SetAliasInv ==
    ASSUME AccountsInv, NEW u \in Users, NEW a \in Users \cup {None}, SetAlias(u, a)
    PROVE  AccountsInv'
<1> DEFINE r == [users[u] EXCEPT !.alias = a]
<1>1. users[u] \in Account
    BY DEF AccountsInv, AccountsOK, Exists, SetAlias
<1>2. /\ users' = [users EXCEPT ![u] = r] /\ acl' = acl /\ adding' = adding
      /\ given' = given \cup {[table |-> "alias", user |-> u, arg |-> v] : v \in {a} \ {None}}
    BY DEF SetAlias
<1>3. r \in Account /\ r.alias = a
    BY <1>1, ChangedRow
<1> HIDE DEF r
<1>4. given' = given \cup {AliasOf(u, v) : v \in {a} \ {None}}
    BY <1>2 DEF AliasOf
<1>5. given \subseteq given' /\ given' \subseteq Right /\ (a # None => AliasOf(u, a) \in given')
    BY <1>4, AliasRight DEF AccountsInv, AccountsOK
<1>6. \A v \in Users : users'[v] = IF v = u THEN r ELSE users[v]
    BY <1>2 DEF AccountsInv, AccountsOK
<1>7. users' \in [Users -> Account \cup {None}]
    BY <1>2, <1>3 DEF AccountsInv, AccountsOK
<1>8. ASSUME NEW v \in Users, users'[v] # None, users'[v].alias # None
      PROVE  AliasOf(v, users'[v].alias) \in given'
    BY <1>3, <1>5, <1>6, <1>8 DEF AccountsInv, RightsGiven, Exists
<1>9. RightsGiven'
    BY <1>2, <1>5, <1>8 DEF AccountsInv, RightsGiven, Exists, AliasOf
<1> QED  BY <1>2, <1>5, <1>7, <1>9, EditBound DEF AccountsInv, AccountsOK, SetAlias

\* The cascade of a deletion takes every right with it that was given to the user
\* or concerns him.
LEMMA DeleteUserInv ==
    ASSUME AccountsInv, NEW u \in Users, DeleteUser(u)
    PROVE  AccountsInv' /\ ~Exists(u)'
<1> DEFINE new(v) == IF v = u THEN None
                     ELSE IF Exists(v) /\ users[v].alias = u
                          THEN [users[v] EXCEPT !.alias = None] ELSE users[v]
<1>1. /\ users' = [v \in Users |-> new(v)]
      /\ acl' = {r \in acl : ~Concerns(r, u)} /\ given' = {r \in given : ~Concerns(r, u)}
      /\ adding' = adding
    BY DEF DeleteUser, Cascade
<1>2. ASSUME NEW v \in Users
      PROVE  /\ new(v) \in Account \cup {None}
             /\ v = u => new(v) = None
             /\ new(v) # None /\ new(v).alias # None =>
                    Exists(v) /\ new(v) = users[v] /\ users[v].alias # u /\ v # u
    <2>1. users[v] \in Account \cup {None}
        BY DEF AccountsInv, AccountsOK
    <2>2. CASE v # u /\ Exists(v) /\ users[v].alias = u
        <3>1. users[v] \in Account
            BY <2>1, <2>2 DEF Exists
        <3> QED  BY <2>2, <3>1, ChangedRow
    <2>3. CASE ~(v # u /\ Exists(v) /\ users[v].alias = u)
        BY <2>1, <2>3 DEF Exists
    <2> QED  BY <2>2, <2>3
<1>3. \A v \in Users : users'[v] = new(v)
    BY <1>1
<1>4. users' \in [Users -> Account \cup {None}]
    BY <1>1, <1>2
<1> HIDE DEF new
<1>5. ASSUME NEW v \in Users, users'[v] # None, users'[v].alias # None
      PROVE  AliasOf(v, users'[v].alias) \in given'
    <2>1. Exists(v) /\ users'[v] = users[v] /\ users[v].alias # u /\ v # u
        BY <1>2, <1>3, <1>5
    <2>2. AliasOf(v, users[v].alias) \in given /\ users[v].alias \in Users
        BY <1>5, <2>1 DEF AccountsInv, AccountsOK, RightsGiven, Exists, Account
    <2>3. ~Concerns(AliasOf(v, users[v].alias), u)
        BY <2>1, <2>2, AliasRight DEF Concerns
    <2> QED  BY <1>1, <2>1, <2>2, <2>3
<1>6. RightsGiven'
    BY <1>1, <1>5 DEF AccountsInv, RightsGiven, Exists, AliasOf
<1>7. edits' \in 0..MaxEdits
    BY EditBound DEF AccountsInv, AccountsOK, DeleteUser
<1>8. AccountsOK'
    BY <1>1, <1>4, <1>7 DEF AccountsInv, AccountsOK
<1> QED  BY <1>2, <1>3, <1>6, <1>8 DEF AccountsInv, Exists

\* Rows of the tables of rights.
LEMMA GiveInv ==
    ASSUME AccountsInv, NEW r \in Right, Give(r)
    PROVE  AccountsInv'
<1>1. users' = users /\ adding' = adding /\ acl' = acl \cup {r} /\ given' = given \cup {r}
    BY DEF Give
<1>2. edits' \in 0..MaxEdits
    BY EditBound DEF AccountsInv, AccountsOK, Give
<1>3. AccountsOK'
    BY <1>1, <1>2 DEF AccountsInv, AccountsOK
<1>4. RightsGiven'
    BY <1>1 DEF AccountsInv, RightsGiven, Exists
<1> QED  BY <1>3, <1>4 DEF AccountsInv

\* A row that is taken is no alias.
LEMMA TakeInv ==
    ASSUME AccountsInv, NEW r \in acl, r.table # "alias", Take(r)
    PROVE  AccountsInv'
<1>1. users' = users /\ adding' = adding /\ acl' = acl \ {r} /\ given' = given \ {r}
    BY DEF Take
<1>2. edits' \in 0..MaxEdits
    BY EditBound DEF AccountsInv, AccountsOK, Take
<1>3. AccountsOK'
    BY <1>1, <1>2 DEF AccountsInv, AccountsOK
<1>4. \A u \in Users : \A a : AliasOf(u, a) # r
    BY DEF AliasOf
<1>5. RightsGiven'
    BY <1>1, <1>4 DEF AccountsInv, RightsGiven, Exists
<1> QED  BY <1>3, <1>5 DEF AccountsInv

LEMMA UpdateMsaInv ==
    ASSUME AccountsInv, NEW r \in acl, NEW router \in Routers, UpdateMsa(r, router)
    PROVE  AccountsInv'
<1> DEFINE q == [r EXCEPT !.arg = router]
<1>1. /\ users' = users /\ adding' = adding /\ r.table = "smtpd"
      /\ acl' = (acl \ {r}) \cup {q} /\ given' = (given \ {r}) \cup {q}
    BY DEF UpdateMsa
<1>2. r \in [table : {"smtpd"}, user : Users, arg : Routers]
    BY <1>1 DEF AccountsInv, AccountsOK, Right
<1>3. q \in Right
    BY <1>2 DEF Right
<1> HIDE DEF q
<1>4. edits' \in 0..MaxEdits
    BY EditBound DEF AccountsInv, AccountsOK, UpdateMsa
<1>5. AccountsOK'
    BY <1>1, <1>3, <1>4 DEF AccountsInv, AccountsOK
<1>6. \A u \in Users : \A a : AliasOf(u, a) # r
    BY <1>1 DEF AliasOf
<1>7. RightsGiven'
    BY <1>1, <1>6 DEF AccountsInv, RightsGiven, Exists
<1> QED  BY <1>5, <1>7 DEF AccountsInv

\* A call of an account tool leaves the addresses and the swap alone.
LEMMA AccountToolsInv ==
    ASSUME AccountsInv, AccountTools
    PROVE  AccountsInv' /\ UNCHANGED <<addrs, seq, swap>>
<1>1. ASSUME NEW u \in Users, AddUser(u) PROVE AccountsInv' /\ UNCHANGED <<addrs, seq, swap>>
    BY <1>1, AddUserInv DEF AddUser
<1>2. ASSUME NEW u \in Users, NEW p \in BOOLEAN, SetPassword(u, p)
      PROVE  AccountsInv' /\ UNCHANGED <<addrs, seq, swap>>
    BY <1>2, SetPasswordInv DEF SetPassword
<1>3. ASSUME NEW u \in Users, NEW a \in Users \cup {None}, SetAlias(u, a)
      PROVE  AccountsInv' /\ UNCHANGED <<addrs, seq, swap>>
    BY <1>3, SetAliasInv DEF SetAlias
<1>4. ASSUME NEW u \in Users, NEW f \in Files \cup {None}, SetUserdb(u, f)
      PROVE  AccountsInv' /\ UNCHANGED <<addrs, seq, swap>>
    BY <1>4, SetUserdbInv DEF SetUserdb
<1>5. ASSUME NEW u \in Users, TakeAll(u) PROVE AccountsInv' /\ UNCHANGED <<addrs, seq, swap>>
    BY <1>5, EditBound DEF TakeAll, AccountsInv, AccountsOK, RightsGiven, Exists
<1>6. CASE AddPassword
    BY <1>6, AddPasswordInv DEF AddPassword
<1>7. ASSUME NEW r \in Right, Give(r) PROVE AccountsInv' /\ UNCHANGED <<addrs, seq, swap>>
    BY <1>7, GiveInv DEF Give
<1>8. ASSUME NEW r \in acl, r.table # "alias", Take(r)
      PROVE  AccountsInv' /\ UNCHANGED <<addrs, seq, swap>>
    BY <1>8, TakeInv DEF Take
<1>9. ASSUME NEW r \in acl, NEW router \in Routers, UpdateMsa(r, router)
      PROVE  AccountsInv' /\ UNCHANGED <<addrs, seq, swap>>
    BY <1>9, UpdateMsaInv DEF UpdateMsa
<1>10. ASSUME NEW r \in Right \ acl,
              EnableSmtpd(r) \/ EnablePopd(r) \/ Grant(r) \/ DelegateAddress(r) \/ DelegateUser(r)
       PROVE  AccountsInv' /\ UNCHANGED <<addrs, seq, swap>>
    BY <1>7, <1>10 DEF EnableSmtpd, EnablePopd, Grant, DelegateAddress, DelegateUser
<1>11. ASSUME NEW r \in acl,
              \/ DisableSmtpd(r) \/ DisablePopd(r) \/ RevokePermission(r)
              \/ DeleteAddressDelegation(r) \/ DeleteUserDelegation(r)
       PROVE  AccountsInv' /\ UNCHANGED <<addrs, seq, swap>>
    BY <1>8, <1>11 DEF DisableSmtpd, DisablePopd, RevokePermission, DeleteAddressDelegation,
                       DeleteUserDelegation
<1> QED  BY <1>1, <1>2, <1>3, <1>4, <1>5, <1>6, <1>9, <1>10, <1>11 DEF AccountTools

-------------------------------------------------------------------------------
(* Addresses *)

AddressesInv == AddressesOK /\ SwapRead

\* A row is changed, and a swap that has read it knows.
LEMMA TouchInv ==
    ASSUME AddressesInv, NEW o \in Orders, NEW a \in Address \cup {None},
           addrs' = [addrs EXCEPT ![o] = a], Touch(o)
    PROVE  /\ addrs' \in [Orders -> Address \cup {None}]
           /\ swap' \in Swap \cup {None} /\ SwapRead'
           /\ swap # None => swap' # None
<1>1. addrs' \in [Orders -> Address \cup {None}] /\ \A p \in Orders \ {o} : addrs'[p] = addrs[p]
    BY DEF AddressesInv, AddressesOK
<1>2. CASE swap # None /\ swap.first = o
    <2>1. PICK s \in Swap : swap = s
        BY <1>2 DEF AddressesInv, AddressesOK
    <2>2. swap' = [s EXCEPT !.touched = TRUE]
        BY <1>2, <2>1 DEF Touch
    <2>3. swap' \in Swap /\ swap'.touched
        BY <2>1, <2>2 DEF Swap
    <2> QED  BY <1>1, <2>3, ToolAssumption DEF SwapRead
<1>3. CASE ~(swap # None /\ swap.first = o)
    <2>1. swap' = swap
        BY <1>3 DEF Touch
    <2>2. swap # None => swap.first \in Orders \ {o}
        BY <1>3 DEF AddressesInv, AddressesOK, Swap
    <2> QED  BY <1>1, <2>1, <2>2 DEF AddressesInv, AddressesOK, SwapRead
<1> QED  BY <1>2, <1>3

LEMMA AddAtInv ==
    ASSUME AddressesInv, NEW o \in Orders, NEW a \in Address, AddAt(o, a)
    PROVE  AddressesInv' /\ (swap # None => swap' # None)
<1>1. o \in Nat /\ seq' \in Nat
    BY ToolAssumption DEF AddAt, AddressesInv, AddressesOK
<1>2. edits' \in 0..MaxEdits
    BY EditBound DEF AddressesInv, AddressesOK, AddAt
<1> QED  BY <1>1, <1>2, TouchInv DEF AddressesInv, AddressesOK, AddAt

LEMMA UpdateAddressInv ==
    ASSUME AddressesInv, NEW o \in Orders, NEW u \in Users \cup {None}, UpdateAddress(o, u)
    PROVE  AddressesInv' /\ (swap # None => swap' # None)
<1> DEFINE a == [addrs[o] EXCEPT !.user = u]
<1>1. addrs[o] \in Address
    BY DEF AddressesInv, AddressesOK, UpdateAddress, Taken
<1>2. a \in Address
    BY <1>1 DEF Address
<1>3. addrs' = [addrs EXCEPT ![o] = a] /\ Touch(o) /\ seq' = seq
    BY DEF UpdateAddress
<1>4. edits' \in 0..MaxEdits
    BY EditBound DEF AddressesInv, AddressesOK, UpdateAddress
<1> HIDE DEF a
<1> QED  BY <1>2, <1>3, <1>4, TouchInv DEF AddressesInv, AddressesOK

LEMMA DeleteAddressInv ==
    ASSUME AddressesInv, NEW o \in Orders, DeleteAddress(o)
    PROVE  AddressesInv' /\ (swap # None => swap' # None)
<1>1. edits' \in 0..MaxEdits
    BY EditBound DEF AddressesInv, AddressesOK, DeleteAddress
<1> QED  BY <1>1, TouchInv DEF AddressesInv, AddressesOK, DeleteAddress

LEMMA SwapFetchInv ==
    ASSUME AddressesInv, NEW o \in Orders, NEW p \in Orders, SwapFetch(o, p)
    PROVE  AddressesInv' /\ swap = None
<1> DEFINE s == [first |-> o, second |-> p, row |-> addrs[o], touched |-> FALSE]
<1>1. addrs[o] \in Address
    BY DEF AddressesInv, AddressesOK, SwapFetch, Taken
<1>2. s \in Swap /\ s.first = o /\ s.row = addrs[o]
    BY <1>1 DEF Swap
<1>3. swap' = s /\ swap = None /\ addrs' = addrs /\ seq' = seq
    BY DEF SwapFetch
<1>4. edits' \in 0..MaxEdits
    BY EditBound DEF AddressesInv, AddressesOK, SwapFetch
<1> HIDE DEF s
<1> QED  BY <1>2, <1>3, <1>4 DEF AddressesInv, AddressesOK, SwapRead

\* The transaction of a swap, with the tables behind its first two statements
\* named.  They are total tables of rows.
LEMMA SwappedRows ==
    ASSUME AddressesInv, NEW s \in Swap, NEW ok
    PROVE  /\ Swapped(ok, s) \in [Orders -> Address \cup {None}]
           /\ \/ Swapped(ok, s) = addrs
              \/ addrs[s.first] # s.row
              \/ \A o \in Orders : Taken(o) => Swapped(ok, s)[Partner(s, o)] = addrs[o]
<1> DEFINE first == s.first
           second == s.second
           row == s.row
           deleted == IF "delete" \in ok THEN [addrs EXCEPT ![first] = None] ELSE addrs
           blocked == second # first /\ deleted[first] # None /\ deleted[second] # None
           moved == IF second = first \/ deleted[second] = None THEN deleted
                    ELSE [deleted EXCEPT ![first] = deleted[second], ![second] = None]
           done == {"update", "insert", "commit"} \subseteq ok /\ ~blocked /\ moved[second] = None
           result == [moved EXCEPT ![second] = row]
<1>1. first \in Orders /\ second \in Orders /\ row \in Address /\ row # None
    BY ToolAssumption DEF Swap
<1>2. addrs \in [Orders -> Address \cup {None}]
    BY DEF AddressesInv, AddressesOK
<1>3. Swapped(ok, s) = IF done THEN result ELSE addrs
    BY Zenon DEF Swapped
<1>4. /\ deleted \in [Orders -> Address \cup {None}]
      /\ \A o \in Orders \ {first} : deleted[o] = addrs[o]
      /\ deleted[first] \in {None, addrs[first]}
    BY <1>1, <1>2
<1> HIDE DEF first, second, row, deleted
<1>5. CASE second = first \/ deleted[second] = None
    <2>1. moved = deleted
        BY <1>5
    <2>2. result \in [Orders -> Address \cup {None}]
        BY <1>1, <1>4, <2>1
    <2>3. ASSUME done, addrs[first] = row, NEW o \in Orders, Taken(o)
          PROVE  result[Partner(s, o)] = addrs[o]
        <3>1. deleted[second] = None
            BY <2>1, <2>3
        <3>2. \A p \in Orders : result[p] = IF p = second THEN row ELSE deleted[p]
            BY <1>1, <1>4, <2>1
        <3>3. CASE o = first
            <4>1. Partner(s, o) = second
                BY <3>3 DEF Partner, first, second
            <4> QED  BY <1>1, <2>3, <3>2, <3>3, <4>1
        <3>4. CASE o # first
            <4>1. o # second
                BY <1>4, <2>3, <3>1, <3>4 DEF Taken
            <4>2. Partner(s, o) = o
                BY <3>4, <4>1 DEF Partner, first, second
            <4> QED  BY <1>4, <3>2, <3>4, <4>1, <4>2
        <3> QED  BY <3>3, <3>4
    <2> HIDE DEF result, done
    <2> QED  BY <1>2, <1>3, <2>2, <2>3 DEF first, row
<1>6. CASE ~(second = first \/ deleted[second] = None)
    <2>1. moved = [deleted EXCEPT ![first] = deleted[second], ![second] = None]
        BY <1>6
    <2>2. \A p \in Orders : moved[p] = IF p = second THEN None
                                       ELSE IF p = first THEN deleted[second] ELSE deleted[p]
        BY <1>1, <1>4, <1>6, <2>1
    <2>3. moved \in [Orders -> Address \cup {None}]
        BY <1>1, <1>4, <2>1
    <2> HIDE DEF moved
    <2>4. result \in [Orders -> Address \cup {None}]
          /\ \A p \in Orders : result[p] = IF p = second THEN row ELSE moved[p]
        BY <1>1, <2>3
    <2>5. ASSUME addrs[first] = row, NEW o \in Orders
          PROVE  result[Partner(s, o)] = addrs[o]
        <3>1. CASE o = first
            <4>1. Partner(s, o) = second
                BY <3>1 DEF Partner, first, second
            <4> QED  BY <1>1, <2>4, <2>5, <3>1, <4>1
        <3>2. CASE o = second
            <4>1. Partner(s, o) = first
                BY <1>6, <3>2 DEF Partner, first, second
            <4> QED  BY <1>1, <1>4, <1>6, <2>2, <2>4, <3>2, <4>1
        <3>3. CASE o # first /\ o # second
            <4>1. Partner(s, o) = o
                BY <3>3 DEF Partner, first, second
            <4> QED  BY <1>4, <2>2, <2>4, <3>3, <4>1
        <3> QED  BY <3>1, <3>2, <3>3
    <2> HIDE DEF result, done
    <2> QED  BY <1>2, <1>3, <2>4, <2>5 DEF first, row
<1> QED  BY <1>5, <1>6

LEMMA SwapCommitInv ==
    ASSUME AddressesInv, SwapCommit
    PROVE  /\ AddressesInv'
           /\ \/ addrs' = addrs \/ swap.touched
              \/ \A o \in Orders : Taken(o) => addrs'[Partner(swap, o)] = addrs[o]
<1>1. PICK bad \in SUBSET ToolFaults :
          addrs' = Swapped({"delete", "update", "insert", "commit"} \ bad, swap)
    BY DEF SwapCommit
<1>2. swap \in Swap /\ swap # None
    BY DEF SwapCommit, AddressesInv, AddressesOK
<1>3. /\ addrs' \in [Orders -> Address \cup {None}]
      /\ \/ addrs' = addrs
         \/ addrs[swap.first] # swap.row
         \/ \A o \in Orders : Taken(o) => addrs'[Partner(swap, o)] = addrs[o]
    BY <1>1, <1>2, SwappedRows
<1>4. seq' \in Nat
    BY <1>2, ToolAssumption DEF SwapCommit, Swap, AddressesInv, AddressesOK
<1>5. AddressesInv'
    BY <1>3, <1>4 DEF SwapCommit, AddressesInv, AddressesOK, SwapRead
<1>6. ~swap.touched => addrs[swap.first] = swap.row
    BY <1>2 DEF AddressesInv, SwapRead
<1> QED  BY <1>3, <1>5, <1>6

\* A call of the address tool: only the end of a swap forgets it.
LEMMA AddressToolsInv ==
    ASSUME AddressesInv, AddressTools
    PROVE  /\ AddressesInv' /\ UNCHANGED <<users, acl, adding, given>>
           /\ swap # None /\ swap' = None =>
                 \/ addrs' = addrs \/ swap.touched
                 \/ \A o \in Orders : Taken(o) => addrs'[Partner(swap, o)] = addrs[o]
<1>1. ASSUME NEW o \in Orders, NEW a \in Address, AddAt(o, a)
      PROVE  AddressesInv' /\ UNCHANGED <<users, acl, adding, given>> /\ (swap # None => swap' # None)
    BY <1>1, AddAtInv DEF AddAt
<1>2. ASSUME NEW a \in Address, AddAddress(a) \/ \E o \in Orders : AddAddressOrder(o, a)
      PROVE  AddressesInv' /\ UNCHANGED <<users, acl, adding, given>> /\ (swap # None => swap' # None)
    BY <1>1, <1>2 DEF AddAddress, AddAddressOrder
<1>3. ASSUME NEW o \in Orders, NEW u \in Users \cup {None}, UpdateAddress(o, u)
      PROVE  AddressesInv' /\ UNCHANGED <<users, acl, adding, given>> /\ (swap # None => swap' # None)
    BY <1>3, UpdateAddressInv DEF UpdateAddress
<1>4. ASSUME NEW o \in Orders, DeleteAddress(o)
      PROVE  AddressesInv' /\ UNCHANGED <<users, acl, adding, given>> /\ (swap # None => swap' # None)
    BY <1>4, DeleteAddressInv DEF DeleteAddress
<1>5. ASSUME NEW o \in Orders, NEW p \in Orders, SwapFetch(o, p)
      PROVE  AddressesInv' /\ UNCHANGED <<users, acl, adding, given>> /\ swap = None
    BY <1>5, SwapFetchInv DEF SwapFetch
<1>6. CASE SwapCommit
    BY <1>6, SwapCommitInv DEF SwapCommit
<1> QED  BY <1>2, <1>3, <1>4, <1>5, <1>6 DEF AddressTools

-------------------------------------------------------------------------------
(* Mails *)

LEMMA ToolsUnchanged ==
    ASSUME AccountsInv, AddressesInv, UNCHANGED tools
    PROVE  AccountsInv' /\ AddressesInv' /\ users' = users
BY DEF tools, AccountsInv, AccountsOK, RightsGiven, Exists, AddressesInv, AddressesOK, SwapRead

\* Nothing happens to mails.
LEMMA MailsUnchanged ==
    ASSUME MailsOK, users' = users, stored' = stored, kept' = kept, mails' = mails,
           path' \in {path, None}, retry' \in {retry, None}
    PROVE  MailsOK'
BY DEF MailsOK, Pending, Distinct, MasterKept, KeptThere, Listed, Exists

\* The mail on its way is stored where popd lists it.
LEMMA MailStored ==
    ASSUME HInv, users' = users, mails' = mails, path' = None, retry' = None,
           path # None \/ retry # None,
           NEW u \in Users, Exists(u), NEW place \in Files \cup {Master},
           place \in {Master, users[u].db},
           stored' = stored \cup {[id |-> mails, user |-> u, place |-> place]},
           kept' = kept \cup {mails}
    PROVE  MailsOK' /\ stored' \subseteq Row /\ kept' \subseteq 1..MaxMails
<1> PICK m : m = [id |-> mails, user |-> u, place |-> place]
    OBVIOUS
<1>1. mails > 0 /\ mails \in 1..MaxMails /\ \A n \in stored : n.id # mails
    BY StorageAssumption DEF HInv, StorageOK, MailsOK, Pending
<1>2. m \in Row /\ m.id = mails /\ m.user = u /\ m.place = place
    BY <1>1 DEF Row
<1>3. stored' = stored \cup {m}
    OBVIOUS
<1>4. stored' \subseteq Row /\ kept' \subseteq 1..MaxMails
    BY <1>1, <1>2, <1>3 DEF HInv, StorageOK
<1>5. Distinct'
    BY <1>1, <1>2, <1>3 DEF HInv, MailsOK, Distinct
<1>6. MasterKept'
    BY <1>2, <1>3 DEF HInv, MailsOK, MasterKept
<1>7. Listed(m)' /\ \A n \in stored : Listed(n) => Listed(n)'
    BY <1>2 DEF Listed, Exists
<1>8. KeptThere'
    <2> SUFFICES ASSUME NEW i \in kept' PROVE \E n \in stored' : n.id = i /\ Listed(n)'
        BY DEF KeptThere
    <2>1. CASE i \in kept
        BY <2>1, <1>3, <1>7 DEF HInv, MailsOK, KeptThere
    <2>2. CASE i = mails
        BY <2>2, <1>2, <1>3, <1>7
    <2> QED  BY <2>1, <2>2
<1>9. Pending'
    BY DEF Pending
<1> QED  BY <1>4, <1>5, <1>6, <1>8, <1>9 DEF MailsOK

LEMMA StartInv == ASSUME HInv, Start PROVE HInv'
<1>1. AccountsInv' /\ AddressesInv' /\ users' = users
    BY ToolsUnchanged DEF Start, HInv, AccountsInv, AddressesInv
<1>2. Named \subseteq Files
    BY DEF Named, Exists, HInv, AccountsOK, Account
<1>3. StorageOK'
    BY <1>2 DEF Start, HInv, StorageOK
<1>4. MailsOK'
    BY <1>1, MailsUnchanged DEF Start, HInv
<1> QED  BY <1>1, <1>3, <1>4 DEF HInv, AccountsInv, AddressesInv

LEMMA StopInv == ASSUME HInv, Stop PROVE HInv'
<1>1. AccountsInv' /\ AddressesInv' /\ users' = users
    BY ToolsUnchanged DEF Stop, HInv, AccountsInv, AddressesInv
<1>2. StorageOK'
    BY DEF Stop, HInv, StorageOK
<1>3. MailsOK'
    BY <1>1, MailsUnchanged DEF Stop, HInv
<1> QED  BY <1>1, <1>2, <1>3 DEF HInv, AccountsInv, AddressesInv

\* The next mail has an identity no mail had.
LEMMA RouteInv == ASSUME HInv, NEW p \in Paths, Route(p) PROVE HInv'
<1>1. AccountsInv' /\ AddressesInv' /\ users' = users
    BY ToolsUnchanged DEF Route, HInv, AccountsInv, AddressesInv
<1>2. PICK o \in Candidates(p) : addrs[o].user # None /\ path' = addrs[o].user
    BY DEF Route
<1>3. path' \in Users
    BY <1>2 DEF Candidates, Taken, HInv, AddressesOK, Address
<1>4. mails < MaxMails /\ mails' = mails + 1 /\ mails \in Nat /\ mails' \in 1..MaxMails
    BY StorageAssumption DEF Route, HInv, StorageOK
<1>5. StorageOK'
    BY <1>3, <1>4 DEF Route, HInv, StorageOK
<1>6. \A m \in stored : m.id \in Nat
    BY DEF HInv, StorageOK, Row
<1>7. MailsOK'
    <2>1. stored' = stored /\ kept' = kept /\ retry' = retry /\ retry = None
        BY DEF Route
    <2>2. Pending'
        BY <1>4, <1>6, <2>1 DEF HInv, MailsOK, Pending, Distinct
    <2>3. Distinct' /\ MasterKept'
        BY <1>4, <1>6, <2>1 DEF HInv, MailsOK, Distinct, MasterKept
    <2>4. KeptThere'
        BY <1>1, <2>1 DEF HInv, MailsOK, KeptThere, Listed, Exists
    <2> QED  BY <2>2, <2>3, <2>4 DEF MailsOK
<1> QED  BY <1>1, <1>5, <1>7 DEF HInv, AccountsInv, AddressesInv

LEMMA RefreshedType ==
    ASSUME AccountsOK
    PROVE  \A now \in Refreshed : now \subseteq Files
<1>1. Missing \subseteq Files
    BY DEF Missing, Named, Exists, AccountsOK, Account
<1> QED  BY <1>1 DEF Refreshed, Attachable

LEMMA StoreInv == ASSUME HInv, Store PROVE HInv'
<1>1. AccountsInv' /\ AddressesInv' /\ users' = users
    BY ToolsUnchanged DEF Store, HInv, AccountsInv, AddressesInv
<1>2. /\ path \in Users /\ path # None /\ path' = None /\ retry = None
      /\ up' = up /\ broken' = broken /\ mails' = mails /\ breaks' = breaks
    BY DEF Store, HInv, StorageOK, MailsOK, Pending
<1>3. attached' \subseteq Files
    BY RefreshedType DEF Store, HInv, StorageOK
<1>4. ASSUME TryAgain(path) PROVE MailsOK' /\ StorageOK'
    <2>1. retry' = path /\ stored' = stored /\ kept' = kept
        BY <1>4 DEF TryAgain
    <2>2. StorageOK'
        BY <1>2, <1>3, <2>1 DEF HInv, StorageOK
    <2>3. MailsOK'
        BY <1>1, <1>2, <2>1
           DEF HInv, MailsOK, Pending, Distinct, MasterKept, KeptThere, Listed, Exists
    <2> QED  BY <2>2, <2>3
<1>5. ASSUME Exists(path), NEW place \in {Master, users[path].db}, place \in Files \cup {Master},
             Accept(path, place)
      PROVE  MailsOK' /\ StorageOK'
    <2>1. /\ stored' = stored \cup {[id |-> mails, user |-> path, place |-> place]}
          /\ kept' = kept \cup {mails} /\ retry' = None
        BY <1>2, <1>5 DEF Accept
    <2>2. MailsOK' /\ stored' \subseteq Row /\ kept' \subseteq 1..MaxMails
        BY <1>1, <1>2, <1>5, <2>1, MailStored
    <2> QED  BY <1>2, <1>3, <2>1, <2>2 DEF HInv, StorageOK
<1>6. PlaceFor(path, attached') \in {Master, users[path].db}
      /\ PlaceFor(path, attached') \in Files \cup {Master}
    BY <1>3 DEF PlaceFor
<1>7. MailsOK' /\ StorageOK'
    BY <1>4, <1>5, <1>6 DEF Store, InsertAt
<1> QED  BY <1>1, <1>7 DEF HInv, AccountsInv, AddressesInv

LEMMA StoreAgainInv == ASSUME HInv, StoreAgain PROVE HInv'
<1>1. AccountsInv' /\ AddressesInv' /\ users' = users
    BY ToolsUnchanged DEF StoreAgain, HInv, AccountsInv, AddressesInv
<1>2. /\ retry \in Users /\ retry # None /\ retry' = None /\ path' = path /\ path = None
      /\ mails' = mails
    BY DEF StoreAgain, HInv, StorageOK, MailsOK, Pending
<1>3. CASE stored' = stored /\ kept' = kept
    <2>1. MailsOK'
        BY <1>1, <1>2, <1>3, MailsUnchanged DEF HInv
    <2> QED  BY <1>1, <1>2, <1>3, <2>1 DEF StoreAgain, HInv, StorageOK, AccountsInv, AddressesInv
<1>4. CASE /\ Exists(retry)
           /\ stored' = stored \cup {[id |-> mails, user |-> retry, place |-> Master]}
           /\ kept' = kept \cup {mails}
    <2>1. MailsOK' /\ stored' \subseteq Row /\ kept' \subseteq 1..MaxMails
        BY <1>1, <1>2, <1>4, MailStored
    <2> QED  BY <1>1, <1>2, <2>1 DEF StoreAgain, HInv, StorageOK, AccountsInv, AddressesInv
<1> QED  BY <1>3, <1>4 DEF StoreAgain

\* A tool takes mail from users only with its identity.
LEMMA ToolInv == ASSUME HInv, Tool PROVE HInv'
<1>1. AccountsInv' /\ AddressesInv'
    <2>1. CASE AccountTools
        BY <2>1, AccountToolsInv
           DEF HInv, AccountsInv, AddressesInv, AddressesOK, AccountsOK, SwapRead
    <2>2. CASE AddressTools
        BY <2>2, AddressToolsInv
           DEF HInv, AccountsInv, AddressesInv, AddressesOK, AccountsOK, RightsGiven, Exists
    <2>3. ASSUME NEW u \in Users, DeleteUser(u) PROVE AccountsInv' /\ AddressesInv'
        <3>1. AccountsInv' /\ UNCHANGED <<addrs, seq, swap>>
            BY <2>3, DeleteUserInv DEF HInv, AccountsInv, DeleteUser
        <3> QED  BY <3>1 DEF HInv, AccountsInv, AddressesInv, AddressesOK, AccountsOK, SwapRead
    <2> QED  BY <2>1, <2>2, <2>3 DEF Tool
<1>2. /\ stored' = {m \in stored : m.place = Master => users'[m.user] # None}
      /\ kept' = {i \in kept : \E m \in stored' : m.id = i /\ Listed(m)'}
      /\ UNCHANGED <<up, attached, broken, path, retry, mails, breaks>>
    BY DEF Tool, Purged
<1>3. StorageOK'
    BY <1>2 DEF HInv, StorageOK
<1>4. MailsOK'
    <2>1. Pending' /\ Distinct'
        BY <1>2 DEF HInv, MailsOK, Pending, Distinct
    <2>2. KeptThere'
        BY <1>2 DEF KeptThere
    <2>3. MasterKept'
        BY <1>2 DEF HInv, MailsOK, MasterKept, Listed, Exists
    <2> QED  BY <2>1, <2>2, <2>3 DEF MailsOK
<1> QED  BY <1>1, <1>3, <1>4 DEF HInv, AccountsInv, AddressesInv

LEMMA FilesInv == ASSUME HInv, NEW f \in Files, Break(f) \/ Repair(f) PROVE HInv'
<1>1. UNCHANGED tools /\ UNCHANGED <<up, attached, path, retry, stored, kept, mails>>
    BY DEF Break, Repair
<1>2. AccountsInv' /\ AddressesInv' /\ users' = users
    BY <1>1, ToolsUnchanged DEF HInv, AccountsInv, AddressesInv
<1>3. breaks' \in 0..MaxBreaks /\ broken' \subseteq Files
    BY StorageAssumption DEF Break, Repair, HInv, StorageOK
<1>4. StorageOK'
    BY <1>1, <1>3 DEF HInv, StorageOK
<1>5. MailsOK'
    BY <1>1, <1>2, MailsUnchanged DEF HInv
<1> QED  BY <1>2, <1>4, <1>5 DEF HInv, AccountsInv, AddressesInv

-------------------------------------------------------------------------------
(* The invariant and what follows *)

LEMMA HInvInit == Init => HInv
<1> SUFFICES ASSUME Init PROVE HInv
    OBVIOUS
<1>1. \A f \in Files \cup {None} : /\ [auth |-> TRUE, db |-> f, alias |-> None] \in Account
                                   /\ [auth |-> TRUE, db |-> f, alias |-> None].alias = None
    BY DEF Account
<1>2. users \in [Users -> Account \cup {None}] /\ \A u \in Users : users[u].alias = None
    BY <1>1 DEF Init, ToolInit
<1>3. AccountsOK /\ RightsGiven
    BY <1>2, ToolAssumption DEF Init, ToolInit, AccountsOK, RightsGiven
<1>4. AddressesOK /\ SwapRead
    BY ToolAssumption DEF Init, ToolInit, AddressesOK, SwapRead
<1>5. StorageOK
    <2>1. 0 \in 0..MaxMails /\ 0 \in 0..MaxBreaks
        BY StorageAssumption
    <2>2. /\ up = FALSE /\ attached = {} /\ broken = {} /\ path = None /\ retry = None
          /\ stored = {} /\ kept = {} /\ mails = 0 /\ breaks = 0
        BY DEF Init
    <2> QED  BY <2>1, <2>2 DEF StorageOK
<1>6. MailsOK
    BY DEF Init, MailsOK, Pending, Distinct, MasterKept, KeptThere
<1> QED  BY <1>3, <1>4, <1>5, <1>6 DEF HInv

LEMMA HInvStep == HInv /\ [Next]_vars => HInv'
<1> SUFFICES ASSUME HInv, [Next]_vars PROVE HInv'
    OBVIOUS
<1>1. CASE UNCHANGED vars
    <2>1. UNCHANGED tools /\ UNCHANGED storage
        BY <1>1 DEF vars
    <2>2. AccountsInv' /\ AddressesInv' /\ users' = users
        BY <2>1, ToolsUnchanged DEF HInv, AccountsInv, AddressesInv
    <2>3. MailsOK'
        BY <2>1, <2>2, MailsUnchanged DEF storage, HInv
    <2> QED  BY <2>1, <2>2, <2>3 DEF storage, HInv, StorageOK, AccountsInv, AddressesInv
<1> QED  BY <1>1, StartInv, StopInv, RouteInv, StoreInv, StoreAgainInv, ToolInv, FilesInv DEF Next

LEMMA Invariance == Spec => []HInv
<1> QED  BY HInvInit, HInvStep, PTL DEF Spec

\* Whatever the tools do to the tables, and whichever files of user databases
\* fail, smtpd keeps the types of its state.
THEOREM TypeCorrect == Spec => []TypeOK
<1>1. HInv => TypeOK
    BY DEF HInv, AccountsOK, AddressesOK, StorageOK, TypeOK
<1> QED  BY <1>1, Invariance, PTL

\* The foreign keys of the tables take with a user every right he was given or
\* that concerns him, and his mail in the master database.
THEOREM NothingInheritedIsSafe == Spec => []NothingInherited
<1>1. HInv => NothingInherited
    <2> SUFFICES ASSUME HInv PROVE NothingInherited
        OBVIOUS
    <2>1. ASSUME NEW r \in Aliases PROVE r \in given
        <3>1. PICK u \in Users, a \in Users : r = AliasOf(u, a)
            BY <2>1 DEF Aliases, AliasOf
        <3>2. Exists(u) /\ users[u].alias = a
            BY <2>1, <3>1, AliasRight DEF Aliases
        <3>3. a # None
            BY ToolAssumption
        <3> QED  BY <3>1, <3>2, <3>3 DEF HInv, RightsGiven
    <2>2. Rights \subseteq given
        BY <2>1 DEF Rights, HInv, RightsGiven
    <2> QED  BY <2>2 DEF NothingInherited, HInv, MailsOK, MasterKept
<1> QED  BY <1>1, Invariance, PTL

\* A mail smtpd has answered with 250 is in one mailbox, which popd lists to its
\* user, whatever tools run between RCPT and the storing, and afterwards unless
\* one of them takes it from him.
THEOREM KeptIsListedIsSafe == Spec => []KeptIsListed
<1>1. HInv => KeptIsListed
    BY DEF HInv, MailsOK, Distinct, KeptThere, KeptIsListed
<1> QED  BY <1>1, Invariance, PTL

\* sqlite_swap reads a row before its transaction, and does not notice that its
\* DELETE failed; it loses no row all the same.
THEOREM SwapKeepsRowsHolds == Spec => SwapKeepsRows
<1>1. HInv /\ [Next]_vars =>
          [swap # None /\ swap' = None
           => \/ addrs' = addrs
              \/ swap.touched
              \/ \A o \in Orders : Taken(o) => addrs'[Partner(swap, o)] = addrs[o]]_vars
    <2> SUFFICES ASSUME HInv, Next, swap # None, swap' = None
                 PROVE  \/ addrs' = addrs
                        \/ swap.touched
                        \/ \A o \in Orders : Taken(o) => addrs'[Partner(swap, o)] = addrs[o]
        OBVIOUS
    <2>1. CASE UNCHANGED tools
        BY <2>1 DEF tools
    <2>2. CASE AddressTools
        BY <2>2, AddressToolsInv DEF HInv, AddressesInv
    <2>3. CASE AccountTools
        BY <2>3, AccountToolsInv DEF HInv, AccountsInv
    <2>4. ASSUME NEW u \in Users, DeleteUser(u) PROVE addrs' = addrs
        BY <2>4 DEF DeleteUser
    <2> QED  BY <2>1, <2>2, <2>3, <2>4 DEF Next, Start, Stop, Route, Store, StoreAgain, Tool,
                                           Break, Repair
<1> QED  BY <1>1, Invariance, PTL DEF Spec, SwapKeepsRows

\* When smtpd can read the table, a refresh that finds every database in order
\* attaches the one it was made for.
THEOREM MasterForCauseHolds ==
    ASSUME "select" \notin StoreFaults
    PROVE  Spec => MasterForCause
<1>1. HInv /\ [Next]_vars =>
          [\A m \in stored' \ stored :
              m.place = Master /\ retry = None /\ users[m.user].db # None
              => Missing \cap broken # {}]_vars
    <2> SUFFICES ASSUME HInv, Next, NEW m \in stored' \ stored, m.place = Master, retry = None,
                        users[m.user].db # None, Missing \cap broken = {}
                 PROVE  FALSE
        OBVIOUS
    <2>1. Store
        BY DEF Next, Start, Stop, Route, StoreAgain, Tool, Purged, Break, Repair
    <2>2. Exists(path) /\ InsertAt(path, PlaceFor(path, attached')) /\ path \in Users
        BY <2>1 DEF Store, TryAgain, HInv, StorageOK
    <2>3. m = [id |-> mails, user |-> path, place |-> PlaceFor(path, attached')]
        BY <2>2 DEF InsertAt, Accept, TryAgain
    <2>4. PlaceFor(path, attached') = Master /\ users[path].db # None
        BY <2>3
    <2>5. users[path].db \in Files
        BY <2>2, <2>4 DEF HInv, AccountsOK, Account, Exists
    <2>6. users[path].db \notin attached'
        BY <2>4, <2>5, StorageAssumption DEF PlaceFor
    <2>7. users[path].db \notin attached /\ attached' \in Refreshed
        BY <2>1, <2>2, <2>4, <2>6 DEF Store
    <2>8. users[path].db \in Missing
        BY <2>2, <2>4, <2>7 DEF Missing, Named
    <2>9. Refreshed = {Missing}
        BY DEF Refreshed, Attachable
    <2> QED  BY <2>6, <2>7, <2>8, <2>9
<1> QED  BY <1>1, Invariance, PTL DEF Spec, MasterForCause
===============================================================================
