# A verification model of cmail

cmail is a mail suite of small daemons around one SQLite database. These
modules model the daemons in TLA+, check them with TLC on small instances, and
prove their most important properties with TLAPS for instances of every size.

Contents: 1. the system, 2. how the modules follow the code, 3. the modules,
4. the runs, 5. bounds and fairness, 6. what is proved, 7. findings, 8. what is
not modelled, 9. the plan.

## 1. The system

Every daemon is a single process with a single `select` loop and no threads.
What runs concurrently are the clients of one daemon, whose commands the loop
interleaves, and the daemons and command line tools, which share the tables.
Nothing protects the loop from one client: sockets do not block, but
`client_send_raw` (`src/lib/client.c:7`) tries again at once, without an end, when
a socket takes nothing (EAGAIN). A client that does not read its answers stops
the daemon for all others, its timeouts and its way out included.

| component | state it keeps | operations | what is hard | what makes it correct |
|---|---|---|---|---|
| **cmail-smtpd** (`src/cmail-smtpd`) | a `CLIENT` per connection (state, TLS mode, login, mail under way), the path pool all clients share, attached user databases | EHLO/HELO, STARTTLS, AUTH, MAIL, RCPT, DATA, RSET, QUIT, timeouts, routing a mail into `mailbox` and `outbox` | recipients in a shared pool, commands pipelined behind STARTTLS and QUIT, resets that miss a field, one recipient of several failing | recipients never mix, the pool loses nothing, 250 means kept for everyone, only users send elsewhere, the size limit holds |
| **cmail-popd** (`src/cmail-popd`) | a `CLIENT` per connection (login, listing, flags), `popd.pop_lock` in the database, deletion marks in temporary tables | USER/PASS, AUTH, STLS, STAT, LIST, RETR, DELE, RSET, QUIT, timeouts | the lock outlives the daemon, a login fails half-way, marks outlive sessions, two databases | one session per maildrop, locks are given back, only what the session showed as deleted is expunged |
| **cmail-dispatchd** (`src/cmail-dispatchd`) | `outbox` and `faillog`, the transactions of one round, the SMTP connection | fetch mails per remote, deliver, record failures, delete, generate bounces | crashes, lost and late answers between delivery and deletion, several recipients in one transaction, a second dispatchd, retries and bounce candidates | no mail is lost, every mail ends delivered or bounced, twice or bounced after delivery only where the client could not know better |
| **lib** (`src/lib`) | line buffers, connection pool, SASL context, the flag the signal handler sets | `common_next_line`, `network_read`, `network_listener`, `sasl_*`, `auth_validate`, TLS, `config_parse`, `daemonize`, `privileges_drop` | lines split over reads, slot reuse, state left behind by a failed login, several processes over one configuration | lines arrive whole and in order, slots are exclusive, a daemon runs as it was configured and stops when it is told to |
| **cmail-admin** (`src/cmail-admin`) | none; one SQL statement per call, `address swap` a read and a transaction | edit users, rights, addresses, popd locks | run while the daemons run, statements fail in the middle of a swap | nothing of a deleted user is left to another, no address is lost |
| **cmail-api** (`src/cmail-api`) | none; requests over the tables | the same edits over HTTP with permissions and delegation | authorisation of each field | nobody edits beyond his permissions |
| cmail-webadmin, cmail-webmailer | none | user interfaces of the API | | |
| schema (`src/sql-update`) | the tables `users`, `addresses`, `mailbox`, `outbox`, `faillog`, `popd`, `smtpd` | | | |

They interact only through the database: smtpd inserts into `mailbox` (read and
deleted by popd) and `outbox` (read and deleted by dispatchd, which also writes
bounces back into it); the tools change users, addresses and locks under the
feet of all three.

dispatchd is different from the other two: it is an SMTP client, and it has no
`select` loop. One function call runs through a whole round, and waits in the
middle of it: for answers of servers, for statements of the database. It may run
twice: an administrator can start a second one by hand, over the same tables. What
happens while it waits is what makes it hard.

## 2. How the modules follow the code

*One action per handler.* The loop runs one handler at a time to its end, so a
handler is one action with all the calls it makes. `client_process` reads once
and then runs a handler for every complete line in the buffer before it looks
at another client; the variable `active` names the client whose lines are being
run, and no other client moves until `EndBatch`. Two consequences of this loop
matter and are in the models: TLS does not start before the batch is over, so
lines behind STLS or STARTTLS are handled in the clear, and a handler that
closes the connection does not stop the loop, so lines behind QUIT are handled
on a closed connection. The constant `LinesAfterClose` says whether clients do
that. The one exit that does stop the loop, the kick of a client whose score
has fallen below the limit, is in `Reject`.

*Answers.* Handlers send their answers with `client_send`, which is left out of
`Maildrop` and `SmtpSession`: it changes nothing of their state. What it does to
the order of things is in `MaildropLoop` and `SmtpLoop`, which extend them by
`sending`, the client whose answer does not get out. `Block` and `Unblock` are the
begin and the end of such a wait; in between no other step of the daemon is
possible (`Runs`). The two are there for liveness and its fairness.

*Return values.* A handler returns 0, 1 or -1, which is added to the
connection score: `Stay`, `Reward` and `Reject`.

*One action per wait.* A round of dispatchd is cut where it waits: an action runs
from one answer of the server, or one statement that changes the database, to
the next. `pc` names the place, and the loops over recipients and transactions
are sets of what is left (`left`, `txs`, `todo`, `cands`), taken in any order,
since the order of the rows is the database's. The server is modelled as far as
RFC 5321 lets the client rely on it: it accepts or refuses, expects content
behind 354, and may break the connection at any time. A recipient it takes is
answered with 250 ("ok") or with 251 ("moved", it forwards), which `smtp_rcpt`
does not know and counts as a permanent failure. `line` and `back` are the
two directions of the connection. A read that gives up leaves its answer on the
way, to be taken for the next one; `MaxLate` bounds how many.

*Failures.* SQLite statements fail when the database is locked for longer than
the busy timeout, or is full, or an attached file is missing. `Faults` (popd,
dispatchd) and `DbFaults` (smtpd) name the operations that may fail; a failing operation
is an alternative of the action it belongs to, with what the code does then.
Exhausted memory is not modelled.

*Tables and processes.* In `AdminTools` a call of a tool is one action, since
it is one statement; the two tools that are not have a variable that says what
they still have to do (`adding`, `swap`). In `Daemon` a call that can fail or
that other processes notice is one action, and a round of the loop is one step.

*Characters and bytes.* `PathParser` and `LineBuffer` are about what a client
sends, one character or one read at a time, over the classes of bytes the code
tells apart.

*Histories.* `receipt` (smtpd) is not in the program: it records the last mail
that was routed, for properties about it, and `cut` that `mail_line` has
dropped a line. In dispatchd `taken` counts how often a server took
responsibility for a row, `doubt` holds the rows whose fate the client cannot
know, `seen` and `touched` what a call of `logic_handle_remote` has read and
dealt with, `arrived` what smtpd has inserted. `given` holds the rights a user
was given since he was created, `kept` the mails no tool has taken from their
users, `swap.touched` that another tool changed the row a swap has read, `seps`
where a path has its @, `dirty` that a MAIL could not be parsed. No guard of the program reads them.

*Mutants.* A definition whose comment begins with "Mutant of" is the
definition of that name with a plausible bug. No action uses it. It is there to
show that a property notices the bug.

## 3. The modules

| module | models | main code |
|---|---|---|
| `MaildropService` | what popd promises: at most one holder per maildrop, deletion at QUIT only and all at once | abstract |
| `Maildrop` | cmail-popd | `client.c`, `popstatemachine.c`, `popfunctions.c`, `maildrop.c` |
| `MaildropLoop`, `MCMaildropLoop` | `Maildrop` with answers that are not read, the fairness of the loop, and an instance | `lib/client.c`, `coreloop.c` |
| `MaildropProofs` | theorems about `Maildrop`: types and locks | |
| `MaildropRefinement` | theorems about `Maildrop`: listings, marks, TLS, and that it implements `MaildropService` | |
| `MCMaildrop` | instances for TLC | |
| `SmtpService` | what smtpd promises about a transaction: recipients never mix, a complete mail goes to those that were accepted | abstract |
| `SmtpRouting` | path resolution and the routers, as operators | `path.c`, `route.c`, `mail.c` |
| `SmtpSession` | cmail-smtpd, extends `SmtpRouting` | `client.c`, `smtpstatemachine.c`, `pathpool.c`, `mail.c` |
| `SmtpLoop`, `MCSmtpLoop` | `SmtpSession` with answers that are not read, the fairness of the loop, and an instance | `lib/client.c`, `coreloop.c` |
| `SmtpProofs` | theorems about `SmtpSession` | |
| `MCSmtpSession` | instances for TLC | |
| `DispatchService` | what dispatchd promises: a mail leaves the queue taken or reported | abstract |
| `Dispatch` | cmail-dispatchd | `logic.c`, `mail.c`, `smtp.c`, `protocol.c`, `remote.c` |
| `DispatchProofs` | theorems about `Dispatch` | |
| `MCDispatch` | instances for TLC | |
| `AdminTools` | the tables of users, rights and addresses and the tools that edit them | `cmail-admin/*`, `install_master.sql` |
| `UserDatabases` | extends `AdminTools` by smtpd's storing of mail in the master and user databases and popd's listing | `database.c`, `route.c`, `mail.c`, `maildrop.c` |
| `HostProofs` | theorems about `UserDatabases` | |
| `MCHost` | instances for TLC | |
| `LineService` | what sessions expect of their input: the lines of the stream, in order | abstract |
| `LineBuffer` | `common_next_line` and the loops around it | `common.c`, `client.c` |
| `LineProofs` | theorems about `LineBuffer` | |
| `PathParser` | `path_parse`, the arrays it writes to, the variables of redirects | `path.c`, `route.c` |
| `PathProofs` | theorems about `PathParser` | |
| `Daemon` | main of the daemons: configuration, sockets, pidfile, user, fork, signals | `smtpd.c`, `popd.c`, `dispatchd.c`, `config.c`, `lib/*` |
| `DaemonProofs` | theorems about `Daemon` | |
| `MCDaemon` | instances for TLC | |

`AdminTools`: `users` is the table of that name, with the columns the daemons
read; `acl` holds the rows of the tables that give a user a right (`smtpd`,
`popd`, `api_access`, the delegations), and a user's alias is a right as well
(`Aliases`). `addrs` maps an `address_order` to its row, `seq` is what SQLite
keeps for AUTOINCREMENT. `DeleteUser` does what the foreign keys do (`Cascade`).

`UserDatabases` composes three programs over these tables: the tools, smtpd from
RCPT to the INSERT, and what popd lists. `attached` are the user databases
smtpd has open. `Refreshed` is `database_refresh` with its two peculiarities:
it detaches all it has not attached itself, and the first database that can not
be opened ends it. `path` is the user of a mail under way, `retry` the one of
a mail that could not be stored at first. The statement that reads the user is
open while the mail is stored, so the tools can not come between the two
(`Store`), but they can before the last try (`StoreAgain`).

`LineBuffer`: `buf` and `off` are `recv_buffer` and `recv_offset`; the bytes
behind `off` are new. It implements `LineService`, where a stream is cut into
lines at once: the mapping is `Rest`, the bytes that belong to no line yet. What
the code does not do as one would expect is in the abstract module too, since
sessions have to live with it: a CR and LF in two reads ("cut"), and two NULs at
the end of a read (`Forget`).

`PathParser`: a path is its array of cells and `delimiter_position`. Each cell
knows whether an earlier command wrote it (`old`), so that leftovers can be seen.
`Feed` is one pass through the loop of `path_parse`; a skipped route is several.
`ToLocal` to `FromDomain` are what a redirect route reads when the mail is
complete. `FromDomain` may begin behind the array, where the structure goes on
with the pointer to the router: `behind` is its first byte, zero before
`path_resolve` has answered and anything afterwards. `SmtpSession` has the same
parser by its outcome.

`Daemon`: `proc` maps a process to what main has done so far; processes over one
configuration share the sockets of the host (`bound`) and the pidfile. `Order`
is the order of initialisation, which smtpd does not share with the other two.
`network_listener` goes on to the next address of a host when one can not be
bound (`Candidates`), and leaves `errno` set, which makes `config_parse` fail at
the end of the file unless a `user` or `group` line comes later (`EndConfig`). A
pass of the loops has four stages: the look at the flag (`Check`), the sets of
descriptors (`Select`), the wait in `select` or `sleep` (`Woken`), and the round
(`Serve`). A signal in the second sets the flag, and `select` waits all the same.

`Maildrop`: `lock` is the column `popd.pop_lock`, `box` the rows of `mailbox`
in both databases (a mail is `unsent`, `stored` or `expunged`), `marks` the
temporary table `temp.deletions` of the daemon's master connection, `sess` the
`CLIENT` structures with the maildrop and its own database's marks in them. A
mail is an element of `Mails` with an owner; `UserDbMails` are those smtpd puts
into a user database. The lines of a session are the actions `UserCmd` to
`Quit`; `Deliver` is smtpd, `AdminUnlock` the tool `cmail-admin-popd unlock`.

`SmtpSession`: `pool` is the path pool with the address and router of each
path, `sess` the `CLIENT` structures; `fwd` is `forward_paths`, a sequence of
paths, `max`, `size`, `hops`, `head` are `data_max`, `data_offset`,
`hop_count` and whether `header_offset` is 0. The pool of the program grows
until it has `CMAIL_MAX_POOLED_PATHS` entries; that a new entry is allocated
only when no free one is left makes it the same as a pool of that size.
Addresses are model values; the tables `addresses` and `smtpd` are the
constants `InRouter`, `StoreUsers` and `OutRouter`.

`mail_route` and `mail_originate` look for a NULL behind the last recipient
(`mail.c:16`, `mail.c:66`), and a mail with `SMTP_MAX_RECIPIENTS` recipients has
none: `data_allocated` behind the array is taken for a path when all of them
have been dealt with. `Ends` gives the outcomes: any answer, or the end of the
program (`Overrun`), whose pool and sessions are gone and which is started again.
What the rows are that such a path may make is not kept track of.

Refinement: `Maildrop` implements `MaildropService` with the holder of a user
being the session that is logged in as that user; `SmtpSession` implements
`SmtpService` with the recipients of a session being the addresses in the paths
it refers to, so a path that were handed out twice would show as a recipient
changing under another client's feet.

`Dispatch`: `outbox` is the set of rows, `fails`, `fatal` and `waiting` are
what the view `outbound` says of the faillog: the number of entries (up to
`Retries`, no query looks further), a permanent one, and one younger than the
retry interval. `notice` is the text of the bounces that were inserted: whom
they are to and which mails they report. `Elsewhere` is another dispatchd at
work on a row: it delivers it, logs a failure, or bounces it, each with the
statements that may fail in it. A transaction is the set of rows with
one text and one sender (`Letter`), as the queries group them. The rows of
recipients have a status in `st` as in `MAIL_RCPT`. `perm` is what mail_dispatch
and logic_handle_remote find out about the rows they have not reached. The
array of transactions is cleared wrongly when it grows (`Transactions`): of more
than `CMAIL_REALLOC_CHUNK` transactions the first ones are emptied, which the
loop still runs through (`blank`), and the later ones are never initialised,
so that the missing sender of a notice is undefined there and may kill the
program (`Undefined`). `DispatchService` is implemented with `queue` being the
outbox, `taken` what servers took and `told` what notices to the sender report.

## 4. The runs

| run | shows |
|---|---|
| `popd_clean` | two clients, two users, mails in two databases, a `tls_require` listener with STLS, silent clients, answers that are not read for a while, no failures: no login in the clear, listings are one's own, QUIT expunges what is flagged, locks are given back if nobody leaves his answers unread for ever, and the whole implements `MaildropService` (which has mutual exclusion) |
| `popd_faults` | a TLS listener, two users, a mail in each database; reads, attaching, marks, deletions and unlocks may fail, the daemon crashes, operators unlock with care: still one session per maildrop, and nothing is expunged that its session did not show as deleted, be it listed to the wrong user |
| `smtpd_pool` | two clients share the pool, which is all the recipients a mail may have, and may leave answers unread for a while: no path shared, none lost, every one back if nobody leaves his answers unread for ever, `SmtpService` implemented |
| `smtpd_routes` | all recipient routers and all outbound routes on a strict listener, under failing lookups of routes and failing stores: 250 means kept for every recipient, `defined` users send from their own paths |
| `smtpd_session` | one client in all orders of its lines, STARTTLS and QUIT in the middle of a batch, AUTH offered in TLS only, failing lookups, a size limit: nothing leaves without a user, the early exit of `path_resolve` is never reached, no name without a user, AUTH only in TLS, truncation goes unnoticed only exactly at the limit |
| `smtpd_toobig` | a violation: the finding of section 7 |
| `dispatch_rounds` | two recipients in one transaction, one failure of any kind at any point, a second dispatchd that delivers, logs or bounces among them, recipients taken with 250 or 251, one answer that comes late: no mail is lost, a mail is delivered twice or bounced after delivery only in doubt, every row that was read leaves a trace, one attempt counts once, content goes to a server that waits for it, `DispatchService` implemented |
| `dispatch_live` | two mails for a handoff server, an array chunk of one, servers that refuse and break off: every mail leaves the outbox |
| `host_tables` | two users with databases of their own, two calls of any tools, two mails, a database that breaks, failing statements, restarts of smtpd: mail answered with 250 is once in a mailbox that popd shows its user, it is in the master database for a reason only, a deleted user leaves nothing behind, a swap of addresses loses no row |
| `lines` | all streams over four kinds of bytes, in all divisions into reads: the lines handled are those of `LineService`, and the buffer is never overrun |
| `paths` | all arguments of MAIL and RCPT over eleven kinds of characters, one after the other: arrays stay terminated, redirects read the parts of the paths of this mail |
| `daemon_start` | processes of each daemon started, told to stop and killed at any point: in the loop they are what their configuration says, the pidfile names the one that serves, and they stop when told |

Some properties hold under a restriction that matters.

* `LockReleased`, `BusyIsReferred` and, with failures, `ExpungeOnlyFlagged` are
  checked for clients that send nothing behind the line that closes their
  connection (`LinesAfterClose = FALSE`). With such lines the first fails:
  `client_process` hands the lines behind QUIT to the handlers, one of them logs
  in on the closed connection, and the lock stays until an operator removes it.
  The second fails because RCPT takes a path on a closed connection and
  `client_accept` overwrites the reference. The last fails in a long way round:
  a login behind QUIT, a DELE, and the slot taken by another client leave a mark
  nobody clears; an operator unlocks the maildrop, and the QUIT of the next
  session expunges a mail that session never flagged.
* `LockReleased` and `PathsReturned` have the premise `AnswersAreRead`, and
  `StopsWhenTold` has `RoundsEnd` for each process: a client that never reads
  holds the loop, and then no lock and no path comes back and no signal is
  noticed. The code has no bound for that wait, so without the premise all three
  fail. `EventuallyLeaves` has the same assumption about servers in its fairness.
* `OwnMailOnly` and `QuitExpunges` are checked without database failures: the
  code gives them up when a statement fails, as section 7 and the hazards say.
* `ExpungeOnlyFlagged` is checked with a failing attach, which lets a session see
  and expunge the mail of another user: the property says that it was shown there
  and flagged there. It is checked without the fault "unmark": if
  `maildrop_unmark` fails at login or at RSET, a mark that the session does not
  know of is in the table when it ends with QUIT, and a mail it shows as not
  deleted is expunged.
* `AcceptedIsKept` and `ImplementsService` of smtpd are about recipients the mail
  has. For a mail with a full array they say what was stored when an answer is
  given, not that one is given.
* `ImplementsService` of popd is checked without failures and crashes.
* `CutOnlyAtLimit` allows what the code does: `mail_line` drops every line once
  the limit is reached, the check behind it refuses only a mail above it, so a
  mail whose lines fill the limit exactly is cut and accepted.
* `NothingLost` and `TwiceOnlyInDoubt` are checked for one late answer that is
  read in a piece of its own (`MaxLate = 1`, `Coalesce = FALSE`). When it arrives
  in one piece with the next one (`Coalesce = TRUE`), `protocol_read` drops what
  is behind the first, later answers move up, and an answer about one recipient is
  taken for that of another: a mail nobody took is deleted.
* `TwiceOnlyInDoubt` takes for doubt what the client can not know, and two things
  it could: that the server answered 251, where the mail is delivered and bounced,
  and that another dispatchd is running, which nothing in the
  code looks for.
* `NoRowSkipped` is checked with all transactions in one chunk. With `Chunk = 1`
  and two transactions it fails; `dispatch_live` shows that the rows that were
  forgotten come to their turn in a later round.
* `EventuallyLeaves` is about mails for a remote with a name of at least two
  characters whose name servers answer in the end. Rows for others stay for
  ever, without an entry: the notice to the empty sender, which smtpd stores as
  an empty text and dispatchd does not take for the NULL of a bounce, is one.
  The run keeps notices and mails on different remotes: a notice that is read
  behind the first `Chunk` transactions of its remote has an undefined sender,
  which may kill the program in every round.
* `KeptIsListed` leaves out what an administrator takes away: a user who is
  deleted, and one who is given another database, whose mail stays in the old
  one. `NothingInherited` is about the master database: user databases have no
  foreign keys, so the mail of a deleted user stays in his, and addresses that
  store to him stay as well.
* `SwapKeepsRows` excepts a row another tool has changed between the two steps
  of a swap: the swap writes back what it had read.
* `NothingStale` and `PartsOfPaths` are about transactions without a MAIL that
  could not be parsed. Such a MAIL leaves its text in the reverse path, and the
  next one is read over it. `PartsOfPaths` claims the domain of the sender for
  recipients with a domain only, because `route.c:185` looks at the recipient to
  see whether the sender has an @, and not for a sender without a domain who fills
  the array (`Full`), where it reads behind it.
* `PidfileNamesServer` is about smtpd and popd, and wants a bind line whose host
  has one address. If all hosts have two, a second daemon takes what the first
  has left, and the pidfile; a second dispatchd always does.

## 5. Bounds and fairness

Two connections are enough for every property about two actors, and one for
those about the order of one client's lines. Two users and three mails give a
stranger's mail, a mail in each database, and a mailbox with nothing of one's
own. Two paths and two recipients let one client exhaust the pool, both share
it, and a mail fail at its first and second recipient. The fail limit is -1
instead of -5 and -10, so that the second failed command kicks.
dispatchd has two rows in one transaction, so that one can be taken and the
other refused, or two in two transactions, so that one can follow the other. One
retry or two tell the first failure from the last. One failure (`MaxMishaps`)
at any of the places is enough for each property to need all the code that deals
with it; the ids of notices are enough for those of every mail, once more after
a failure. No run has copies of notices (`BounceTo`): they multiply the states and
no run's property speaks of them; the theorems hold for any. The two recipients differ in nothing (`MCSame`), so TLC
looks at one of two symmetric states. Notices live in a domain of their own: one whose name
is too short, where they stay, or one where they are delivered or given up.
`host_tables` allows two calls of tools (`MaxEdits`), which suffices to delete
and create a user again, or to come between the steps of a swap; each property
needs two actors and at most two edits. Three orders leave one of them free, two
mails tell one mail stored twice from two. `lines` has six bytes for the buffer
and a line of five with its end, so that a line may be too long and still end in
the buffer; reads have all lengths. `paths` has arrays of six cells: a domain,
a delimiter and a local part, and one more than that. `daemon_start` gives out
four process numbers, of which three run at once for smtpd (a detached daemon,
its parent, and a second start), two for the others; the installations have two
sockets, a host with two addresses, no log file, the group before the user and
behind it, and files main refuses.
`MaxScore` caps the connection score from above and `MaxData` the size of a
mail that has no limit; a limit of 5 bytes with a header of 1 and lines of 1
and 2 reaches it from below, exactly, and from above (`smtpd_toobig` is the
finding about the size). `smtpd_session` has one path more than a mail may have
recipients, so that the count and not the pool stops the third.

Fairness of the loops is in `LoopSpec` of `MaildropLoop` and `SmtpLoop`:
`EndBatch`, and `Timeout` or, in smtpd, `HangUp`, all strong, since they are
possible only while no answer is waiting to get out. The buffer is finite, so the
loop over its lines ends, and each pass of `core_loop` looks at every connection
and closes those silent for 300 seconds, which the batches of other clients
interrupt but cannot prevent. Both are true of passes that end, and nothing but
the clients makes them end: that is the premise of the properties, no part of the
fairness, and `Unblock` is not fair. That no client sends complete lines forever
is an assumption about clients, who are not fair otherwise. In dispatchd the program goes on with its round (weak
fairness of everything it does next); a server answers or the connection breaks
(weak: `protocol_read` gives up otherwise); the retry interval passes; and a
round begins again and again (strong, since a call with "genbounces" may take its
place between two rounds but not forever). Processes of `Daemon` are scheduled,
and `select` and `sleep` come back (weak fairness of each process): the timeout
of `select` is a constant of the code. The round itself is not fair, see
`RoundsEnd`. A server that stops reading holds dispatchd as well; for
`EventuallyLeaves` it is assumed that servers do not, they answer or break off.

## 6. What is proved

Everything below holds for any numbers of connections, users, mails, paths,
recipients and addresses, and any contents of the tables; the only assumptions
on the constants are the `ASSUME`s of the modules and those a theorem names.

`MaildropProofs`:

* `TypeCorrect`: every reachable state is well typed.
* `LockSafety`: if the lock statement does not fail (`"lock" \notin Faults`)
  and operators unlock with care (`Unlocks # "any"`), no maildrop has two
  sessions and whoever has one holds its lock, under every other failure, lines
  behind QUIT, and crashes.

Mutual exclusion is not inductive by itself: a login is safe only because the
row is locked whenever somebody has the maildrop. The invariant is `TypeOK`
with `MutualExclusion`, `HolderHasLock`, and the fact that a session that has a
user is logged in and named, which is what makes `client_close` release the
right lock and `AuthReset` give up the claim. The proof has one lemma per
kind of step (a session reset, a close, a login) and one step per action.

`MaildropRefinement`, about what the sessions do to mail:

* `TlsBeforeLogin`: on a listener with `tls_require` nobody is logged in in the
  clear, without further assumptions.
* `OwnMail`: a session lists its own user's mail, if user databases can be
  attached and read (`"attach" \notin Faults`).
* `QuitDeletes`: QUIT expunges all that is flagged, if reads and unlocks are all
  that fails (`Faults \subseteq {"read", "unlock"}`) and operators unlock with care.
* `OnlyFlaggedExpunged`: only the session that flagged a mail expunges it. Marks,
  deletions, reads, attaching and unlocks may fail here and the daemon may crash; lines
  behind QUIT, a failing reset of the marks ("unmark") and operators without
  care may not be.
* `Implements`: every step is one of `MaildropService`, if no statement but the
  unlock fails, nothing comes behind QUIT, operators unlock with care, and the
  daemon crashes only where all mail is in one database: the two DELETEs of
  QUIT are two steps, which the service does not have.

Each of these assumptions is needed, as TLC shows when it is dropped (sections 4
and 7). The handlers come down to a few moves of a session (`StepMoves`): it
stays as it is for the maildrop, it is reset, it logs in, flags, takes back its
flags, or leaves. `ListingsOK` says that what is listed is the user's and that a
session without a user lists nothing, which is where a failing attach would come
in. The marks in the database belong to no session, so the proofs of the last
three need both directions: what is flagged is marked (`FlagsMarked`), and what
is marked was flagged by the session that holds the maildrop (`MarksFlagged`),
which rests on `LockInv`.

`SmtpProofs`:

* `TypeCorrect`: every reachable state is well typed, and no mail has more than
  `SMTP_MAX_RECIPIENTS` recipients.
* `NothingLeftBehind`: no session has a name without a user or waits in AUTH for
  a negotiation that is over.
* `RoutesForgotten`: no path keeps the route of an earlier use, so that the early
  exit of `path_resolve` is never taken.
* `PoolSafety`: no path is a recipient twice, and paths in use are not free.
* `PoolComplete`: if clients send nothing behind the line that closes their
  connection, every path in use is a recipient of some mail.
* `RelaySafety`: mail for recipients that are not local is on behalf of users.
* `AcceptedSafety`: a mail answered with 250 was kept for every recipient, also
  when the array of recipients is full and the program survives what it reads
  behind it.
* `LoginsInTls`: where AUTH is offered in TLS only, users are logged in in TLS.
* `SendersChecked`: `defined` users submit from paths that store for them.
* `CutsAreRefused`: a mail that was cut is accepted at the limit exactly.
* `Implements`: every step is one of `SmtpService`, in which the program may die
  of a full array when all recipients have the mail.

All but `PoolComplete` hold whatever clients send behind QUIT. The proof has four
parts. `SInv` strengthens `TypeOK` by what a session never leaves undone
(`SessionOK`) and by the fact that a free path is as good as new
(`PoolReset`). From it, `StepShape` shows that every step of a connection changes
one session, and either leaves all paths alone, gives the session's paths back,
begins a session, or takes one path: this part has one step per action. The
second part shows that none of these four disturbs `PathInv`. Neither
`NoSharedPath` nor `RefsAreBusy` is inductive without the other: RCPT takes a
path nobody refers to because all that are referred to are busy, and they stay
busy because nobody else can give them back. `RelaySafety` adds that the paths
of a session without a user have a router (`UserForRemote`), which needs both,
since a path handed out twice could get another recipient. `AcceptedSafety`
follows the recipients through `InOrder` and needs that a session's outbound
route is its user's, or none when the lookup failed.

The third part is about what a session has found out before its mail is complete
(`Prepared`): that it is encrypted where it has to be, how much of the mail was
cut, whose reverse path it has, and that there are recipients when DATA begins. A
slot whose client hung up in the middle of a mail keeps its state, and none of
this need hold there; `PreparedInv` therefore speaks of the slots a line can
still reach: those that are open, and the one the loop over a batch is at. The
refinement needs the second part, because the service has no pool: a mail's
recipients are what the session's references point to as long as nobody else
writes there.

`DispatchProofs`:

* `TypeCorrect`: every reachable state is well typed.
* `NothingLostInTime`: if at most three answers come after the client has given
  them up, and each in a piece of its own (`Patient`), no mail is lost, under
  every failure of statements, connections and the program, and with other
  processes on the tables.
* `Implements`: under the same assumption dispatchd implements `DispatchService`,
  whatever a second dispatchd does besides.
* `ContentSafety`: the content of a mail reaches a server that waits for it.
* `OneFailure`: no row is logged that the same delivery has already dealt with;
  another dispatchd logs for itself.
* `NoRowForgotten`: as long as the transactions of a remote fit the array without
  growing it (`FitsArray`), every row that was read leaves a trace. Beyond it the
  code does forget rows, see section 4.
* `OnceOrInDoubt`: under the same assumption a mail is delivered twice, or
  delivered and reported, only in doubt: an answer about it did not come, its row
  could not be deleted, the daemon died, another dispatchd had it too, or the
  server took the recipient with 251.

The others hold for any number of late answers, in any pieces. `Patient` is as
weak as the code allows. Section 4 tells what happens to answers that share a
piece. With `MaxLate = 4` TLC finds a mail lost in half a minute (two mails for
one remote, no failing statement): the client gives up on everything about the
first mail but goes on, and when it waits for the answer to the DATA of the
second, the 354 that comes is the one to the DATA of the first. The content goes
behind it, to the recipients of the first mail, with RSET, MAIL, RCPT and DATA
as its first lines; the row of the second mail is deleted.

`NothingLost` is about rows that are deleted, and those are deleted because of
an answer; the proof has to show that the answer is about these rows, without
knowing which answer is which: late ones are read as answers to later commands,
and a RCPT may be taken for accepted that was refused. Its invariant `LInv` has
four parts. `Channel` bounds what is on the way and says that the last command
on it is the one `pc` waits for. `Distances` is the argument of the paragraph
above: between two DATA there are three other commands at least, so with three
answers late a 354 is still not read as the answer to another DATA, and the one
that is read as the answer to DATA is all there is on the way. `Agreement` says
that the client and the server agree when nothing is late (`Sync`): the server
has the recipients the client takes for accepted (`Kept`), so that they are all
taken when the final dot is (`HasTaken`); a 354 read by the client shows that
nothing is. `Reported` says that the sender of the mail to be bounced has been
told once the first copy is written. The refinement adds `Known`, that only rows
smtpd has inserted are offered, taken or reported. For `ContentSafety` the invariant is that one 354 or
one content is on the way at most, and the server is waiting from the one to the
other; a 354 read as the answer to something else is lost, and no content
follows. `OnceInv` relates the loops of a delivery: transactions are disjoint
because they are classes of `Letter`, and a row whose status is not "failed"
has not been dealt with. `CoverInv` goes the other way: it says where every row is
that was read and not dealt with yet; it needs that the outbox is finite, for
otherwise the number of transactions would not say whether any was cleared.
`OnceOrInDoubt` follows each mail by its `Fate`: while its row is in the outbox
the mail was neither taken nor reported, but between the answer to the final dot
and the DELETE (`Settling`), and between the notice and the DELETE (`Bounces`),
and a server that is about to take the mail, or will be when it reads the RCPTs
on their way (`Offering`), is offered a mail nobody has taken before. For that
`Answered` has to know the server's recipients from the other side than `Kept`:
when nothing is late it has none of which the client does not know, or doubts,
and content the client has given up on goes to recipients in doubt only.

`HostProofs`:

* `TypeCorrect`: every reachable state is well typed.
* `NothingInheritedIsSafe`: a deleted user leaves no right and no mail in the
  master database to the next one of his name.
* `KeptIsListedIsSafe`: a mail answered with 250 is in one mailbox, which popd
  lists to its user, unless a tool has taken it from him.
* `SwapKeepsRowsHolds`: no swap of two addresses loses a row, whichever of its
  statements fail.
* `MasterForCauseHolds`: if smtpd can read the table (`"select" \notin
  StoreFaults`), mail of a user with a database goes to the master database only
  for a cause.

They hold for any tables, calls of tools, mails and failures of files. Rights
are followed through tools and cascades separately (`RightsGiven`), since the
mails do not touch them. `KeptIsListed` needs that the mail that is on its way
has an identity of its own (`Pending`, `Distinct`), which is why it can not be
stored twice, by the first and the second try. For the swap `SwapRead` says that
what was read is still in the table, unless it was touched; `SwappedRows` then
goes through the outcomes of the transaction.

`PathProofs`, for arrays of any length and arguments of any characters:

* `TypeCorrect`: the arrays stay terminated by their last cell at least.
* `NothingStaleIsSafe` and `PartsOfPathsIsSafe`: a redirect route makes its
  addresses of the text of this mail's paths, split where the parser has put the
  delimiter, unless a MAIL before could not be parsed; the domain of the sender
  only where section 4 claims it.

The invariant `PInv` says what the parser has to work with: the cells in front of
`out` are text of this command and those behind it are empty, and the delimiter
is where the separator was written, or not set. It begins with an empty array,
because paths are reset whenever a parse ends without success, but for the MAIL
that `dirty` remembers. From there the end of every string is known (`EndOfText`),
and `PathIsWhole` puts the pieces together again.

`LineProofs`, for buffers and limits of any size:

* `TypeCorrect`: the buffer is never overrun, and no line that is handled reaches
  the limit.
* `Implements`: `LineBuffer` implements `LineService`, each line of the stream
  being handed out once, whole, and in order.

`common_next_line` looks for the end of a line among the new bytes only. `OldDone`
says why that is enough: there is no end of a line among the old bytes, and they
do not end in a CR. `NewMarked` says that a CR at the end of a read is the one
the service takes for cut.

`DaemonProofs`, for any number of processes and any configuration files:

* `Serves`: a daemon in its loop holds what its configuration asks for.
* `PidfileRight`: when the parents are done the pidfile names the one that serves.

What one process holds follows from the lines it has read (`Followed`) and from
where it is in main (`Placed`). Between processes the invariant has two parts.
Only a parent and its child share an address (`Related`): this is why a second
start ends at its bind lines. And the child a parent is about to write is its own
(`Parents`), with the same files open. `DaemonAssumption` says that bind lines name
hosts that have addresses, which the code finds out by asking the resolver.

What is only model-checked is liveness: `LockReleased`, `PathsReturned`,
`EventuallyLeaves` and `StopsWhenTold`. Every other property of a passing run is a
theorem, under the assumptions named above. The proofs of dispatchd rest on
`NoticeAssumption` (no text of a notice is the value that stands for none)
besides the assumptions on tables and bounds.

## 7. Findings

`smtpd_toobig`: `mail_reset` drops `data_max`; the limit holds for the first
mail of a connection only.

More of what the modules show has no run of its own, because it is what the
code does and the actions say so; each can be seen with the change named here.

* `maildrop_lock` answers 1 when its statement fails and `maildrop_acquire`
  tests for `< 0`: the login goes on without the lock. With "lock" among the
  `Faults` of `popd_faults`, `MutualExclusion` fails.
* A login that fails behind the listing of the master database keeps the
  listing; the next user of the session is shown both, and can expunge both. With
  "attach" among the `Faults` of `popd_clean`, `OwnMailOnly` fails.
* `maildrop_unmark` may fail without anybody looking at it. With "unmark" among
  the `Faults` of `popd_faults`, `ExpungeOnlyFlagged` fails.
* A mail with `SMTP_MAX_RECIPIENTS` recipients is stored for all of them, and what
  is behind the array is then used as a path (`Ends`, `Overrun`): the client gets
  no answer, or any, and sends the mail again.
* One client that does not read its answers stops a daemon (`Block`). With
  `AnswersAreRead` removed from `LockReleased` or `PathsReturned`, or `RoundsEnd`
  from `StopsWhenTold`, TLC shows it.
* `smtp_rcpt` takes 250 for accepted, 4xx for a temporary failure and everything
  else for a permanent one, 251 included: "retn 0 -> accepted, 1 -> fail temp, -1
  -> fail perm" (`smtp.c:100`). The row is bounced, and if another recipient of
  the transaction was taken with 250, the mail is delivered to both. With
  `doubt` left alone by "moved" in `RcptAnswered`, `TwiceOnlyInDoubt` fails.
* Whether `route.c:185` skips the @ of the sender is decided by the path of the
  recipient. If only the recipient has a domain, one byte too many is skipped: for
  a sender that fills its array this is the first byte of the pointer behind it,
  where `route.c:166` says "this ensures that the variable always gets replaced,
  with an empty string if need be". With `Full` left out of `PartsOfPaths` it
  fails. If only the sender has a domain, the @ is left in the address, where the
  manual says "will be replaced with the domain part of the reverse path"
  (`cmail-admin-address.8:123`): `PartsOfPaths` fails without `Forward.seps # {}`.
* `logic_generate_bounces` appends the text of a notice to the texts of all
  notices before it in the same round, so each sender is sent the reports of
  others: `notice` grows from one candidate to the next (`Dispatch`).
* `cmail-admin-permissions revoke <user>` "revokes ... all permissions if no
  permission is given" (`cmail-admin-permissions.c:23`), but
  `sqlite_delete_permissions` never runs its statement: action `TakeAll` changes
  nothing.
* `path_resolve` answers 1 when the reverse path of a client without login has a
  reject router, which the caller comments with "should not be able to happen
  anymore" (`smtpstatemachine.c:366`) and goes on to 250. `MailFrom` does so too.
* The comment of `common_next_line` asks to call it "until it returns 0"; it
  returns 0 for an empty line and -1 at the end, which is what the callers wait
  for.
* Notices of bounces have a NULL sender, and dispatchd looks for NULL, but smtpd
  stores the empty sender of other hosts as an empty text: the notice to it has
  no remote and stays in the outbox.

## 8. What is not modelled, and why

The formats of mail, headers and answers, logging and the directives of the
configuration that have no part in starting are wording, not behaviour. The TLS
handshake and SQLite are outside the repository and appear by what they can
answer. Password checks are a choice: no property depends on which password is
right, so base64 and the salted hash are left out. Of the tools, the commands
that list are left out, and an address is stored to a user or not: which of the
other routers a row has matters in `SmtpRouting` only. Migrations of the schema
run once, with the daemons stopped. The API is PHP, in requests that begin and
end with a statement like the tools'; the user interfaces keep no state of the
mail system, and cmail-imapd is a makefile without code. The growth of the
connection pool is memory management. dispatchd's negotiation with a server is
its outcome, `Connect` or `Unreachable`; a signal to stop makes later reads give
up, which the model has as answers that do not come.

## 9. The plan

1. `Maildrop` and `MaildropService` with proofs: done.
2. `SmtpRouting`, `SmtpSession`, `SmtpService` with proofs: done.
3. `DispatchService` and `Dispatch` with proofs: done, late answers included.
4. `AdminTools` and `UserDatabases`, `LineBuffer` and `LineService`,
   `PathParser`, `Daemon`: done, with proofs.
5. The API over the tables of `AdminTools`, with permissions and delegation.
6. `MailSystem`: smtpd, dispatchd and popd composed over the database, a mail's
   way from 250 to the reader, on top of `DispatchService` and `MaildropService`.
7. Theorems about popd's listings, marks and the service: done.
