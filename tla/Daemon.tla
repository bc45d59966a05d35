-------------------------------- MODULE Daemon --------------------------------
(***************************************************************************)
(* Starting, detaching and stopping the daemons: main of cmail-smtpd,      *)
(* cmail-popd and cmail-dispatchd up to their loops, with the reading of   *)
(* the configuration, the listening sockets, the pidfile, the change of    *)
(* user, the fork, SIGTERM and crashes.                                    *)
(*                                                                         *)
(* Any number of processes may be started over the same configuration.     *)
(* What the loops do for clients and mails is in the other modules; here a *)
(* round of a loop is one step.                                            *)
(***************************************************************************)
EXTENDS Naturals, Sequences, FiniteSets

CONSTANTS Pids,           \* identifiers of processes, given out in order
          Installations,  \* a daemon and its configuration file, a sequence of lines
          Options,        \* nodrop, nodetach and deliver or genbounces, as given
          Starters,       \* who starts daemons
          Accounts,       \* names getpwnam and getgrnam find; the group of an
                          \* account has its name
          AddressesOf,    \* the addresses each host of a bind line resolves to
          MaxAlive,       \* bound on the processes of each daemon that run at once
          None

Directives == {"bind", "user", "group", "database", "logfile", "pidfile"}
Addresses == UNION {{AddressesOf[h][i] : i \in DOMAIN AddressesOf[h]} : h \in DOMAIN AddressesOf}
Ids == Accounts \cup {"root"}

ASSUME DaemonAssumption ==
    /\ Pids \subseteq Nat /\ None \notin Pids
    /\ Options \subseteq [drop : BOOLEAN, detach : BOOLEAN, once : BOOLEAN]
    /\ "root" \notin Accounts /\ Starters \subseteq Ids
    /\ AddressesOf \in [DOMAIN AddressesOf -> Seq(STRING)]
    /\ \A d \in Installations :
         /\ d.program \in {"smtpd", "popd", "dispatchd"}
         /\ d.config \in Seq([directive : STRING, param : STRING])
         /\ \A i \in DOMAIN d.config :
              d.config[i].directive = "bind" => d.config[i].param \in DOMAIN AddressesOf

VARIABLES program, \* which daemon this is
          config,  \* its configuration file
          proc,    \* the processes
          pidfile  \* what the pidfile holds: a process, or None when empty

vars == <<program, config, proc, pidfile>>

NoProcess ==
    [stage |-> "none", drop |-> FALSE, detach |-> FALSE, once |-> FALSE,
     starter |-> "root", uid |-> "root", gid |-> "root", priv |-> [uid |-> "root", gid |-> "root"],
     line |-> 0, errno |-> FALSE, bound |-> {}, database |-> FALSE, log |-> FALSE,
     named |-> FALSE, handle |-> FALSE, opened |-> FALSE, abort |-> FALSE,
     parent |-> None, child |-> None]

Listens == program # "dispatchd"

\* cmail-smtpd sets its handlers up before it opens the user databases.
Order == IF program = "smtpd"
         THEN <<"config", "signals", "database", "pidfile", "privileges", "detach">>
         ELSE <<"config", "database", "signals", "pidfile", "privileges", "detach">>
After(s) == LET i == CHOOSE i \in DOMAIN Order : Order[i] = s IN Order[i + 1]

\* Where the loop is entered: dispatchd runs a round before it looks at the flag.
Entry == IF Listens THEN "check" ELSE "serve"

Looping == {"check", "arm", "wait", "serve"}
Alive(p) == proc[p].stage \notin {"none", "exited", "killed"}
Unused(p) ==
    /\ proc[p].stage = "none"
    /\ \A q \in Pids : q < p => proc[q].stage # "none"
    /\ Cardinality({q \in Pids : Alive(q)}) < MaxAlive[program]

\* After signal_init
Handling(p) == ~ proc[p].stage \in {"none", "config", "exited", "killed"}
               /\ \/ proc[p].stage # "signals" /\ program = "smtpd"
                  \/ proc[p].stage \notin {"database", "signals"}

-------------------------------------------------------------------------------
Set(p, r) == proc' = [proc EXCEPT ![p] = r]
Go(p, s) == Set(p, [proc[p] EXCEPT !.stage = s])

\* The end of a process closes its sockets and files and frees the rest.
Ended(p, s) == [NoProcess EXCEPT !.stage = s]
Exit(p) == Set(p, Ended(p, "exited")) /\ UNCHANGED pidfile

(* The command line *)

\* arguments_parse: nodrop, nodetach, and for dispatchd deliver, handoff and
\* genbounces, which make it run once.
Start(p) ==
    /\ Unused(p)
    /\ \E o \in Options, u \in Starters :
                  /\ Set(p, [NoProcess EXCEPT !.stage = "config", !.drop = o.drop, !.detach = o.detach,
                                     !.once = o.once /\ ~Listens, !.starter = u,
                                     !.uid = u, !.gid = u])
    /\ UNCHANGED pidfile

(* config_parse *)

InUse(a) == \E q \in Pids : a \in proc[q].bound

\* network_listener takes the first address of the host that can be bound, and
\* goes on to the next when one can not.
Candidates(h) ==
    {i \in DOMAIN AddressesOf[h] : ~InUse(AddressesOf[h][i])}

\* config_bind; dispatchd only notes the host to send from.
BindLine(p, h) ==
    \/ /\ Listens
       /\ \E i \in Candidates(h) :
            Set(p, [proc[p] EXCEPT !.line = @ + 1, !.bound = @ \cup {AddressesOf[h][i]},
                                   !.errno = @ \/ i > 1])
       /\ UNCHANGED pidfile
    \/ ~Listens /\ Set(p, [proc[p] EXCEPT !.line = @ + 1]) /\ UNCHANGED pidfile
    \/ Listens /\ Exit(p)

Unknown(a) == a \notin Accounts \cup {"root"}

\* config_privileges clears errno.
PrivilegeLine(p, l) ==
    IF Unknown(l.param) THEN Exit(p)
    ELSE /\ Set(p, [proc[p] EXCEPT !.line = @ + 1, !.errno = FALSE, !.priv.gid = l.param,
                      !.priv.uid = IF l.directive = "user" THEN l.param ELSE @])
         /\ UNCHANGED pidfile

\* config_database: only one master database, and it has to open.
DatabaseLine(p) ==
    \/ /\ ~proc[p].database
       /\ Set(p, [proc[p] EXCEPT !.line = @ + 1, !.database = TRUE])
       /\ UNCHANGED pidfile
    \/ Exit(p)

\* config_logger
LogLine(p) ==
    \/ /\ Set(p, [proc[p] EXCEPT !.line = @ + 1, !.log = TRUE])
       /\ UNCHANGED pidfile
    \/ Exit(p)

\* config_pidfile
PidfileLine(p) ==
    IF proc[p].named THEN Exit(p)
    ELSE Set(p, [proc[p] EXCEPT !.line = @ + 1, !.named = TRUE]) /\ UNCHANGED pidfile

\* config_line
ReadLine(p) ==
    /\ proc[p].stage = "config"
    /\ proc[p].line < Len(config)
    /\ LET l == config[proc[p].line + 1]
       IN \/ l.directive = "bind" /\ BindLine(p, l.param)
          \/ l.directive \in {"user", "group"} /\ PrivilegeLine(p, l)
          \/ l.directive = "database" /\ DatabaseLine(p)
          \/ l.directive = "logfile" /\ LogLine(p)
          \/ l.directive = "pidfile" /\ PidfileLine(p)
          \/ l.directive \notin Directives /\ Exit(p)

\* The end of the file.  errno is left from a socket that could not be bound, or
\* from any library call since it was cleared, which need not have failed.
EndConfig(p) ==
    /\ proc[p].stage = "config"
    /\ proc[p].line = Len(config)
    /\ \/ ~proc[p].errno /\ Go(p, After("config")) /\ UNCHANGED pidfile
       \/ Exit(p)

(* From there to the loop *)

InitializeDatabase(p) ==
    /\ proc[p].stage = "database"
    /\ \/ proc[p].database /\ Go(p, After("database")) /\ UNCHANGED pidfile
       \/ Exit(p)

InitializeSignals(p) ==
    /\ proc[p].stage = "signals"
    /\ Go(p, After("signals"))
    /\ UNCHANGED pidfile

\* fopen for writing empties the file; a failure is logged.
OpenPidfile(p) ==
    /\ proc[p].stage = "pidfile"
    /\ \/ /\ proc[p].named
          /\ Set(p, [proc[p] EXCEPT !.stage = After("pidfile"), !.handle = TRUE, !.opened = TRUE])
          /\ pidfile' = None
       \/ Go(p, After("pidfile")) /\ UNCHANGED pidfile

\* Mutant of Dropped: the result of setuid is not looked at.
DroppedUnchecked(p) ==
    {[proc[p] EXCEPT !.stage = "detach", !.uid = u, !.gid = proc[p].priv.gid] :
        u \in {proc[p].uid, proc[p].priv.uid}}

\* privileges_drop, when every one of its calls works
Dropped(p) ==
    {[proc[p] EXCEPT !.stage = "detach", !.uid = proc[p].priv.uid, !.gid = proc[p].priv.gid]}

DropPrivileges(p) ==
    /\ proc[p].stage = "privileges"
    /\ IF proc[p].uid = "root" /\ proc[p].drop
       THEN \/ (\E r \in Dropped(p) : Set(p, r)) /\ UNCHANGED pidfile
            \/ Exit(p)
       ELSE Go(p, "detach") /\ UNCHANGED pidfile

\* Mutant of AfterFork: the parent closes its sockets at once.
AfterForkClosed(p, c) == [proc[p] EXCEPT !.stage = "write", !.child = c, !.bound = {}]

AfterFork(p, c) == [proc[p] EXCEPT !.stage = "write", !.child = c]

\* daemonize
Fork(p, c) ==
    /\ Unused(c)
    /\ proc' = [proc EXCEPT ![c] = [proc[p] EXCEPT !.stage = Entry, !.handle = FALSE, !.parent = p],
                            ![p] = AfterFork(p, c)]
    /\ UNCHANGED pidfile

Detach(p) ==
    /\ proc[p].stage = "detach"
    /\ IF proc[p].detach /\ proc[p].log
       THEN (\E c \in Pids \ {p} : Fork(p, c)) \/ Exit(p)
       ELSE Set(p, [proc[p] EXCEPT !.stage = Entry, !.handle = FALSE]) /\ UNCHANGED pidfile

\* The parent frees its configuration, sockets included, once it has written.
WritePid(p) ==
    /\ proc[p].stage = "write"
    /\ Set(p, [proc[p] EXCEPT !.stage = "leave", !.handle = FALSE])
    /\ pidfile' = IF proc[p].handle THEN proc[p].child ELSE pidfile

Leave(p) == proc[p].stage \in {"leave", "closing"} /\ Exit(p)

(* The loops *)

\* while(!abort_signaled)
Check(p) ==
    /\ proc[p].stage = "check"
    /\ Go(p, IF proc[p].abort THEN "closing" ELSE IF Listens THEN "arm" ELSE "serve")
    /\ UNCHANGED pidfile

\* The sets of descriptors are filled, and select is entered: it does not look
\* at the flag.
Select(p) ==
    /\ proc[p].stage = "arm"
    /\ Go(p, "wait")
    /\ UNCHANGED pidfile

\* Mutant of Woken: select has no timeout, and no client comes any more.
WokenByClients(p) ==
    /\ proc[p].stage = "wait" /\ (Listens => ~proc[p].abort)
    /\ Go(p, IF Listens THEN "serve" ELSE "check")
    /\ UNCHANGED pidfile

\* select comes back with data or at its timeout, sleep after its interval.
Woken(p) ==
    /\ proc[p].stage = "wait"
    /\ Go(p, IF Listens THEN "serve" ELSE "check")
    /\ UNCHANGED pidfile

\* The round of the loop over clients or mails comes to its end.
Serve(p) ==
    /\ proc[p].stage = "serve"
    /\ Go(p, IF Listens THEN "check" ELSE IF proc[p].once THEN "closing" ELSE "wait")
    /\ UNCHANGED pidfile

(* What happens to processes *)

\* SIGTERM or SIGINT: the handler sets the flag, and a select or sleep that waits
\* comes back at once.  One that is entered later waits all the same.
Signal(p) ==
    /\ Alive(p) /\ ~proc[p].abort
    /\ Set(p, IF ~Handling(p) THEN Ended(p, "killed")
              ELSE [proc[p] EXCEPT !.abort = TRUE,
                      !.stage = IF @ # "wait" THEN @ ELSE IF Listens THEN "closing" ELSE "check"])
    /\ UNCHANGED pidfile

Crash(p) == Alive(p) /\ Set(p, Ended(p, "killed")) /\ UNCHANGED pidfile

-------------------------------------------------------------------------------
Init ==
    /\ \E d \in Installations : program = d.program /\ config = d.config
    /\ proc = [p \in Pids |-> NoProcess]
    /\ pidfile = None

Step(p) ==
    \/ ReadLine(p) \/ EndConfig(p) \/ InitializeDatabase(p) \/ InitializeSignals(p)
    \/ OpenPidfile(p) \/ DropPrivileges(p) \/ Detach(p) \/ WritePid(p) \/ Leave(p)
    \/ Check(p) \/ Select(p) \/ Woken(p)

Next ==
    /\ \E p \in Pids : Step(p) \/ Serve(p) \/ Start(p) \/ Signal(p) \/ Crash(p)
    /\ UNCHANGED <<program, config>>

Spec == Init /\ [][Next]_vars

\* A process is scheduled, and select and sleep come back in the end.  Nothing is
\* assumed of a round: client_send_raw has no timeout and does not look at the flag.
FairSpec == Spec /\ \A p \in Pids : WF_vars(Step(p) /\ UNCHANGED <<program, config>>)

-------------------------------------------------------------------------------
(* Properties *)

Stages == {"none", "config", "signals", "database", "pidfile", "privileges", "detach",
           "write", "leave", "check", "arm", "wait", "serve", "closing", "exited", "killed"}

\* Processes are what the code makes of them; a process that ended holds nothing.
TypeOK ==
    /\ \A p \in Pids :
         /\ proc[p].stage \in Stages
         /\ {proc[p].uid, proc[p].gid, proc[p].priv.uid, proc[p].priv.gid} \subseteq Ids
         /\ proc[p].line \in 0 .. Len(config)
         /\ proc[p].bound \subseteq Addresses
         /\ {proc[p].parent, proc[p].child} \subseteq Pids \cup {None}
         /\ ~Alive(p) => proc[p].bound = {} /\ ~proc[p].handle
    /\ pidfile \in Pids \cup {None}

Lines(ds) == {i \in DOMAIN config : config[i].directive \in ds}
LastOf(ds) == IF Lines(ds) = {} THEN "root"
              ELSE config[CHOOSE i \in Lines(ds) : \A j \in Lines(ds) : j <= i].param

\* A daemon in its loop is what its configuration says: it listens for every bind
\* line, has a master database, and when root started it and it was not told
\* otherwise it runs as the account of the last user line and the group of the
\* last user or group line (main, config_parse, privileges_drop).
ServesAsConfigured ==
    \A p \in Pids : proc[p].stage \in Looping =>
        /\ Listens => /\ \A i \in Lines({"bind"}) :
                           \E a \in proc[p].bound : \E j \in DOMAIN AddressesOf[config[i].param] :
                               a = AddressesOf[config[i].param][j]
                      /\ Cardinality(proc[p].bound) = Cardinality(Lines({"bind"}))
        /\ Lines({"database"}) # {}
        /\ proc[p].starter = "root" /\ proc[p].drop =>
             /\ proc[p].uid = LastOf({"user"})
             /\ proc[p].gid = LastOf({"user", "group"})

\* Some host of a bind line has no second address to fall back to.
Exclusive == \E i \in Lines({"bind"}) : Len(AddressesOf[config[i].param]) = 1

\* The pidfile names the daemon that serves, once its parent is done: a second
\* start ends at a bind line, before it can open the pidfile, and the parent keeps
\* the sockets until it has written, so that nobody else starts in between
\* (smtpd.c 63-131, daemonize).  Only smtpd and popd have a socket.
PidfileNamesServer ==
    Listens /\ Exclusive =>
        \A p \in Pids :
            /\ proc[p].stage \in Looping
            /\ proc[p].opened
            /\ proc[p].parent # None
            /\ proc[proc[p].parent].stage \in {"leave", "exited"}
            => pidfile = p

\* Every round of p's loop ends: no peer leaves what it is sent unread for ever
\* while its connection holds.
RoundsEnd(p) == []<>(proc[p].stage # "serve")

\* A daemon whose rounds end stops when it was told to, also when the signal came
\* before it looked at the flag, between the look and select, inside a round, or
\* before the fork (coreloop.c 17-51, logic_loop_hosts).
StopsWhenTold ==
    \A p \in Pids : RoundsEnd(p) => (proc[p].abort ~> ~Alive(p))
===============================================================================
