------------------------------ MODULE DaemonProofs ------------------------------
(***************************************************************************)
(* Proofs about Daemon for any number of processes, any configuration      *)
(* files, hosts and addresses.                                             *)
(*                                                                         *)
(* What a process holds is what the lines it has read ask for (Followed),  *)
(* and where it is in main says how far it has read and whose it is        *)
(* (Placed).  Between processes: only a parent and its child share an      *)
(* address (Related), and the child a parent is about to write is its own, *)
(* with the same sockets and the same pidfile (Parents).                   *)
(***************************************************************************)
EXTENDS Daemon, FiniteSetTheorems, TLAPS

\* The lines of the file f with one of the directives ds, among the first n.
LinesTo(f, ds, n) == {i \in DOMAIN f : f[i].directive \in ds /\ i <= n}
LastIn(f, S) == IF S = {} THEN "root" ELSE f[CHOOSE i \in S : \A j \in S : j <= i].param
LastTo(f, ds, n) == LastIn(f, LinesTo(f, ds, n))
AddressesAt(f, i) == {AddressesOf[f[i].param][j] : j \in DOMAIN AddressesOf[f[i].param]}

Early == {"config", "signals", "database", "pidfile", "privileges"}
Late == {"detach", "write", "leave", "check", "arm", "wait", "serve", "closing"}
Over == {"none", "exited", "killed"}
WithDatabase == {"pidfile", "privileges"} \cup Late

Process ==
    [stage : Stages, drop : BOOLEAN, detach : BOOLEAN, once : BOOLEAN,
     starter : Ids, uid : Ids, gid : Ids, priv : [uid : Ids, gid : Ids],
     line : Nat, errno : BOOLEAN, bound : SUBSET Addresses, database : BOOLEAN, log : BOOLEAN,
     named : BOOLEAN, handle : BOOLEAN, opened : BOOLEAN, abort : BOOLEAN,
     parent : Pids \cup {None}, child : Pids \cup {None}]

\* An address for each bind line that was read, a database for a database line,
\* and the account and group of the last lines about them.
Bound(g, f, r) ==
    g # "dispatchd" =>
        /\ \A i \in LinesTo(f, {"bind"}, r.line) : r.bound \cap AddressesAt(f, i) # {}
        /\ IsFiniteSet(r.bound)
        /\ Cardinality(r.bound) = Cardinality(LinesTo(f, {"bind"}, r.line))

Followed(g, f, r) ==
    /\ Bound(g, f, r)
    /\ r.database => LinesTo(f, {"database"}, r.line) # {}
    /\ r.priv.uid = LastTo(f, {"user"}, r.line)
    /\ r.priv.gid = LastTo(f, {"user", "group"}, r.line)

\* Who a process is.
Identity(r) ==
    /\ r.stage \in Early => r.uid = r.starter /\ r.gid = r.starter
    /\ r.stage \in Late /\ r.starter = "root" /\ r.drop =>
         r.uid = r.priv.uid /\ r.gid = r.priv.gid

Placed(g, f, r) ==
    /\ r.line <= Len(f)
    /\ r.stage \notin Over \cup {"config"} => r.line = Len(f)
    /\ r.stage \in WithDatabase => r.database
    /\ g # "smtpd" /\ r.stage = "signals" => r.database
    /\ r.parent # None => r.stage \in Looping \cup {"closing"}
    /\ r.stage \in Early \cup {"detach", "write"} => (r.opened <=> r.handle)
    /\ r.stage \in Over => r.bound = {} /\ ~r.handle

Local(g, f, r) == r \in Process /\ Followed(g, f, r) /\ Identity(r) /\ Placed(g, f, r)

\* A process that has a child has forked; the child it is about to write is that one.
Parents ==
    \A p \in Pids : proc[p].parent # None =>
        LET q == proc[p].parent
        IN /\ q \in Pids /\ q # p
           /\ proc[q].stage \in {"write", "leave", "exited", "killed"}
           /\ proc[q].stage \in {"write", "leave"} => proc[q].child = p
           /\ proc[q].stage = "write" => (proc[p].opened <=> proc[q].opened)

\* Only a parent and its child share an address.
Related ==
    \A p, q \in Pids : p # q /\ proc[p].bound \cap proc[q].bound # {} =>
        proc[p].parent = q \/ proc[q].parent = p

\* The file is one of the installations'.
FileOK ==
    /\ program \in {"smtpd", "popd", "dispatchd"}
    /\ config \in Seq([directive : STRING, param : STRING])
    /\ \A i \in DOMAIN config :
         config[i].directive = "bind" => config[i].param \in DOMAIN AddressesOf

DInv ==
    /\ FileOK
    /\ proc \in [Pids -> Process] /\ pidfile \in Pids \cup {None}
    /\ \A p \in Pids : Local(program, config, proc[p])
    /\ Parents
    /\ Related

-------------------------------------------------------------------------------
(* Lines of the configuration *)

FileOf == Seq([directive : STRING, param : STRING])

LEMMA NoLines ==
    ASSUME NEW f \in FileOf, NEW ds
    PROVE  LinesTo(f, ds, 0) = {} /\ LastTo(f, ds, 0) = "root"
  BY DEF FileOf, LinesTo, LastTo, LastIn

LEMMA AllLines ==
    ASSUME config \in FileOf, NEW ds
    PROVE  LinesTo(config, ds, Len(config)) = Lines(ds) /\ LastTo(config, ds, Len(config)) = LastOf(ds)
  <1>1. LinesTo(config, ds, Len(config)) = Lines(ds)
    BY DEF FileOf, LinesTo, Lines
  <1> QED BY <1>1 DEF LastTo, LastIn, LastOf

LEMMA LineIn ==
    ASSUME NEW f \in FileOf, NEW ds, NEW n \in Nat, n < Len(f), f[n + 1].directive \in ds
    PROVE  /\ LinesTo(f, ds, n + 1) = LinesTo(f, ds, n) \cup {n + 1}
           /\ n + 1 \notin LinesTo(f, ds, n)
           /\ LastTo(f, ds, n + 1) = f[n + 1].param
  <1> DEFINE S == LinesTo(f, ds, n + 1)
             m == CHOOSE i \in S : \A j \in S : j <= i
  <1>1. S = LinesTo(f, ds, n) \cup {n + 1} /\ n + 1 \notin LinesTo(f, ds, n)
    BY DEF FileOf, LinesTo
  <1>2. S \subseteq Nat /\ \A j \in S : j <= n + 1
    BY DEF FileOf, LinesTo
  <1>3. m = n + 1
    <2> HIDE DEF S
    <2>1. n + 1 \in S /\ \A j \in S : j <= n + 1
      BY <1>1, <1>2
    <2>2. \A i \in S : (\A j \in S : j <= i) => i = n + 1
      BY <2>1, <1>2
    <2> QED BY <2>1, <2>2
  <1>4. S # {}
    BY <1>1
  <1>5. LastTo(f, ds, n + 1) = f[m].param
    BY <1>4 DEF LastTo, LastIn
  <1> HIDE DEF m
  <1> QED BY <1>1, <1>3, <1>5

LEMMA LineOut ==
    ASSUME NEW f \in FileOf, NEW ds, NEW n \in Nat, n < Len(f), f[n + 1].directive \notin ds
    PROVE  /\ LinesTo(f, ds, n + 1) = LinesTo(f, ds, n)
           /\ LastTo(f, ds, n + 1) = LastTo(f, ds, n)
  <1>1. LinesTo(f, ds, n + 1) = LinesTo(f, ds, n)
    BY DEF FileOf, LinesTo
  <1> QED BY <1>1 DEF LastTo

LEMMA LinesFinite ==
    ASSUME NEW f \in FileOf, NEW ds, NEW n
    PROVE  IsFiniteSet(LinesTo(f, ds, n)) /\ Cardinality(LinesTo(f, ds, n)) \in Nat
  <1>1. Len(f) \in Nat /\ DOMAIN f = 1 .. Len(f)
    BY DEF FileOf
  <1>2. IsFiniteSet(1 .. Len(f))
    BY <1>1, FS_Interval
  <1>3. LinesTo(f, ds, n) \subseteq 1 .. Len(f)
    BY <1>1 DEF LinesTo
  <1> QED BY <1>2, <1>3, FS_Subset, FS_CardinalityType

-------------------------------------------------------------------------------
(* The order of main *)

LEMMA OrderSteps ==
    ASSUME program \in {"smtpd", "popd", "dispatchd"}
    PROVE  /\ After("config") = IF program = "smtpd" THEN "signals" ELSE "database"
           /\ After("signals") = IF program = "smtpd" THEN "database" ELSE "pidfile"
           /\ After("database") = IF program = "smtpd" THEN "pidfile" ELSE "signals"
           /\ After("pidfile") = "privileges"
  <1>1. DOMAIN Order = 1 .. 6
    BY DEF Order
  <1>2. CASE program = "smtpd"
    <2>1. /\ Order[1] = "config" /\ Order[2] = "signals" /\ Order[3] = "database"
          /\ Order[4] = "pidfile" /\ Order[5] = "privileges" /\ Order[6] = "detach"
      BY <1>2 DEF Order
    <2>2. After("config") = "signals"
      BY <1>1, <2>1 DEF After
    <2>3. After("signals") = "database"
      BY <1>1, <2>1 DEF After
    <2>4. After("database") = "pidfile"
      BY <1>1, <2>1 DEF After
    <2>5. After("pidfile") = "privileges"
      BY <1>1, <2>1 DEF After
    <2> QED BY <1>2, <2>2, <2>3, <2>4, <2>5
  <1>3. CASE program # "smtpd"
    <2>1. /\ Order[1] = "config" /\ Order[2] = "database" /\ Order[3] = "signals"
          /\ Order[4] = "pidfile" /\ Order[5] = "privileges" /\ Order[6] = "detach"
      BY <1>3 DEF Order
    <2>2. After("config") = "database"
      BY <1>1, <2>1 DEF After
    <2>3. After("database") = "signals"
      BY <1>1, <2>1 DEF After
    <2>4. After("signals") = "pidfile"
      BY <1>1, <2>1 DEF After
    <2>5. After("pidfile") = "privileges"
      BY <1>1, <2>1 DEF After
    <2> QED BY <1>3, <2>2, <2>3, <2>4, <2>5
  <1> QED BY <1>2, <1>3

-------------------------------------------------------------------------------
(* One process *)

Programs == {"smtpd", "popd", "dispatchd"}

LEMMA NothingHeld ==
    ASSUME NEW g \in Programs, NEW f \in FileOf, NEW r \in Process, r.stage \in Over,
           r.bound = {}, r.line = 0, r.priv.uid = "root", r.priv.gid = "root",
           ~r.database, ~r.handle, r.parent = None
    PROVE  Local(g, f, r)
  <1>1. Bound(g, f, r)
    BY NoLines, FS_EmptySet DEF Bound
  <1>2. Followed(g, f, r)
    BY <1>1, NoLines DEF Followed
  <1>3. Identity(r)
    BY DEF Identity, Early, Late, Over
  <1>4. Placed(g, f, r)
    BY DEF Placed, Early, Late, Over, WithDatabase, Looping, FileOf
  <1> QED BY <1>2, <1>3, <1>4 DEF Local

LEMMA EndedLocal ==
    ASSUME NEW g \in Programs, NEW f \in FileOf, NEW s \in Over
    PROVE  Local(g, f, [NoProcess EXCEPT !.stage = s])
  <1> DEFINE r == [NoProcess EXCEPT !.stage = s]
  <1>1. /\ r.bound = {} /\ r.line = 0 /\ r.stage = s /\ r.priv.uid = "root" /\ r.priv.gid = "root"
        /\ ~r.database /\ ~r.handle /\ r.parent = None
    BY DEF NoProcess
  <1>2. r \in Process
    BY DEF NoProcess, Process, Over, Stages, Ids
  <1> HIDE DEF r
  <1>3. r.stage \in Over
    BY <1>1
  <1>4. Local(g, f, r)
    BY <1>1, <1>2, <1>3, NothingHeld
  <1> QED BY <1>4 DEF r

\* What a process holds does not depend on where it is.
LEMMA SameFollowed ==
    ASSUME NEW g, NEW f, NEW r, NEW s, Followed(g, f, r), s.line = r.line, s.bound = r.bound,
           s.database = r.database, s.priv = r.priv
    PROVE  Followed(g, f, s)
  BY DEF Followed, Bound

-------------------------------------------------------------------------------
(* The steps of one process *)

\* What a step that makes r of the process p leaves true between processes.
Family(p, r) ==
    /\ r.parent # None => r.parent = proc[p].parent /\ r.opened = proc[p].opened
    /\ r.bound # {} => r.parent = proc[p].parent
    /\ \A a \in r.bound : a \in proc[p].bound \/ ~InUse(a)
    /\ proc[p].stage \in {"write", "leave", "exited", "killed"} =>
         /\ r.stage \in {"write", "leave", "exited", "killed"}
         /\ r.stage \in {"write", "leave"} =>
              proc[p].stage \in {"write", "leave"} /\ r.child = proc[p].child
         /\ r.stage = "write" => proc[p].stage = "write" /\ r.opened = proc[p].opened

Moves(p, r) ==
    /\ proc' = [proc EXCEPT ![p] = r]
    /\ Local(program, config, r)
    /\ Family(p, r)

\* A step that leaves the pidfile alone and ends no parent's writing.
Quiet(p, r) ==
    /\ pidfile' = pidfile
    /\ proc[p].stage \in {"write", "leave", "exited", "killed"} /\ r.stage \in {"leave", "exited"} =>
         proc[p].stage \in {"leave", "exited"}
    /\ Listens /\ r.stage \in Looping /\ r.parent # None => proc[p].stage \in Looping

QuietlyMoves(p) == \E r : Moves(p, r) /\ Quiet(p, r)

LEMMA Ends ==
    ASSUME DInv, NEW p \in Pids, NEW s \in {"exited", "killed"}, Set(p, Ended(p, s)),
           pidfile' = pidfile, s = "exited" => proc[p].stage \notin {"write", "killed"}
    PROVE  QuietlyMoves(p)
  <1> DEFINE r == [NoProcess EXCEPT !.stage = s]
  <1>0. program \in Programs /\ config \in FileOf /\ s \in Over
    BY DEF DInv, FileOK, FileOf, Programs, Over
  <1>1. Local(program, config, r)
    BY <1>0, EndedLocal
  <1>2. r.parent = None /\ r.bound = {} /\ r.stage = s
    BY DEF NoProcess
  <1>3. proc' = [proc EXCEPT ![p] = r]
    BY DEF Set, Ended
  <1> HIDE DEF r
  <1>4. Family(p, r)
    BY <1>2 DEF Family
  <1>5. Quiet(p, r)
    BY <1>2 DEF Quiet, Looping
  <1> QED BY <1>1, <1>3, <1>4, <1>5 DEF Moves, QuietlyMoves

LEMMA Exits ==
    ASSUME DInv, NEW p \in Pids, Exit(p), proc[p].stage \notin {"write", "killed"}
    PROVE  QuietlyMoves(p)
  BY Ends DEF Exit

\* A step that changes neither what the process holds nor who it is.
LEMMA GoesOn ==
    ASSUME DInv, NEW p \in Pids, NEW r \in Process, proc' = [proc EXCEPT ![p] = r],
           pidfile' = pidfile,
           r.line = proc[p].line, r.bound = proc[p].bound, r.database = proc[p].database,
           r.priv = proc[p].priv, r.opened = proc[p].opened, r.parent = proc[p].parent,
           r.child = proc[p].child, Identity(r), Placed(program, config, r),
           proc[p].stage \in {"write", "leave", "exited", "killed"} => r.stage = proc[p].stage,
           Listens /\ r.stage \in Looping /\ r.parent # None => proc[p].stage \in Looping
    PROVE  QuietlyMoves(p)
  <1>1. Local(program, config, r)
    BY SameFollowed DEF DInv, Local
  <1>2. Family(p, r)
    BY DEF Family
  <1>3. Quiet(p, r)
    BY DEF Quiet
  <1> QED BY <1>1, <1>2, <1>3 DEF Moves, QuietlyMoves

LEMMA GoStep ==
    ASSUME DInv, NEW p \in Pids, NEW s \in Stages, Go(p, s), pidfile' = pidfile,
           s \in Early <=> proc[p].stage \in Early, s \notin Over \cup {"config"},
           s \in {"write", "leave"} => s = proc[p].stage,
           proc[p].stage \notin {"write", "leave"} \cup Over,
           proc[p].stage = "config" => proc[p].line = Len(config),
           s = "detach" => proc[p].stage = "detach",
           s \in WithDatabase \/ (s = "signals" /\ program # "smtpd") => proc[p].database,
           proc[p].parent # None => s \in Looping \cup {"closing"},
           Listens /\ s \in Looping => proc[p].stage \in Looping
    PROVE  QuietlyMoves(p)
  <1> DEFINE r == [proc[p] EXCEPT !.stage = s]
  <1>1. proc[p] \in Process /\ Local(program, config, proc[p])
    BY DEF DInv
  <1>2. r \in Process
    BY <1>1 DEF Process
  <1>3. /\ r.line = proc[p].line /\ r.bound = proc[p].bound /\ r.database = proc[p].database
        /\ r.priv = proc[p].priv /\ r.opened = proc[p].opened /\ r.parent = proc[p].parent
        /\ r.child = proc[p].child /\ r.stage = s /\ r.handle = proc[p].handle
        /\ r.uid = proc[p].uid /\ r.gid = proc[p].gid /\ r.starter = proc[p].starter
        /\ r.drop = proc[p].drop
    BY <1>1 DEF Process
  <1>4. proc' = [proc EXCEPT ![p] = r]
    BY DEF Go, Set
  <1> HIDE DEF r
  <1>5. Identity(r)
    <2>1. Identity(proc[p]) /\ proc[p].stage \in Stages
      BY <1>1 DEF Local, Process
    <2>2. s \in Late => proc[p].stage \in Late
      BY <2>1 DEF Early, Late, Over, Stages
    <2> QED BY <1>3, <2>1, <2>2 DEF Identity
  <1>6. Placed(program, config, r)
    <2>1. Placed(program, config, proc[p]) /\ proc[p].stage \in Stages
      BY <1>1 DEF Local, Process
    <2>2. r.stage \notin Over \cup {"config"} => r.line = Len(config)
      BY <1>3, <2>1 DEF Placed
    <2>3. r.stage \in Early \cup {"detach", "write"} => (r.opened <=> r.handle)
      BY <1>3, <2>1 DEF Placed, Early
    <2> QED BY <1>3, <2>1, <2>2, <2>3 DEF Placed
  <1> QED
    <2>1. proc[p].stage \in {"write", "leave", "exited", "killed"} => r.stage = proc[p].stage
      BY DEF Over
    <2>2. Listens /\ r.stage \in Looping /\ r.parent # None => proc[p].stage \in Looping
      BY <1>3
    <2> QED BY <1>2, <1>3, <1>4, <1>5, <1>6, <2>1, <2>2, GoesOn

LEMMA StartMoves ==
    ASSUME DInv, NEW p \in Pids, Start(p)
    PROVE  QuietlyMoves(p)
  <1>1. PICK o \in Options, u \in Starters :
          Set(p, [NoProcess EXCEPT !.stage = "config", !.drop = o.drop, !.detach = o.detach,
                    !.once = o.once /\ ~Listens, !.starter = u, !.uid = u, !.gid = u])
    BY DEF Start
  <1> DEFINE r == [NoProcess EXCEPT !.stage = "config", !.drop = o.drop, !.detach = o.detach,
                    !.once = o.once /\ ~Listens, !.starter = u, !.uid = u, !.gid = u]
  <1>2. o.drop \in BOOLEAN /\ o.detach \in BOOLEAN /\ o.once \in BOOLEAN /\ u \in Ids
    BY DaemonAssumption
  <1>3. r \in Process
    <2> DEFINE b == o.once /\ ~Listens
    <2>1. b \in BOOLEAN
      OBVIOUS
    <2> HIDE DEF b
    <2> DEFINE q == [NoProcess EXCEPT !.stage = "config", !.drop = o.drop, !.detach = o.detach]
    <2>2. NoProcess \in Process /\ "config" \in Stages
      BY DEF Process, NoProcess, Stages, Ids
    <2>3. q \in Process
      BY <1>2, <2>2 DEF Process
    <2> HIDE DEF q
    <2>4. [q EXCEPT !.once = b, !.starter = u, !.uid = u, !.gid = u] \in Process
      BY <1>2, <2>1, <2>3 DEF Process
    <2> QED BY <2>4 DEF b, q
  <1>4. /\ r.line = 0 /\ r.bound = {} /\ ~r.database /\ r.priv = [uid |-> "root", gid |-> "root"]
        /\ r.stage = "config" /\ r.uid = u /\ r.gid = u /\ r.starter = u /\ r.parent = None
        /\ ~r.opened /\ ~r.handle
    BY DEF NoProcess
  <1>5. proc' = [proc EXCEPT ![p] = r] /\ pidfile' = pidfile /\ proc[p].stage = "none"
    BY <1>1 DEF Set, Start, Unused
  <1> HIDE DEF r
  <1>6. program \in Programs /\ config \in FileOf
    BY DEF DInv, FileOK, Programs, FileOf
  <1>7. Followed(program, config, r)
    <2>1. LinesTo(config, {"bind"}, r.line) = {}
      BY <1>4, <1>6, NoLines
    <2>2. Bound(program, config, r)
      BY <1>4, <2>1, FS_EmptySet DEF Bound
    <2>3. /\ LastTo(config, {"user"}, r.line) = "root"
          /\ LastTo(config, {"user", "group"}, r.line) = "root"
      BY <1>4, <1>6, NoLines
    <2> QED BY <1>4, <2>2, <2>3 DEF Followed
  <1>8. Identity(r)
    BY <1>4 DEF Identity, Late
  <1>9. Placed(program, config, r)
    BY <1>4, <1>6 DEF Placed, WithDatabase, Late, Over, FileOf
  <1>10. Family(p, r)
    BY <1>4, <1>5 DEF Family
  <1>11. Quiet(p, r)
    BY <1>4, <1>5 DEF Quiet
  <1> QED BY <1>3, <1>5, <1>7, <1>8, <1>9, <1>10, <1>11 DEF Local, Moves, QuietlyMoves

LEMMA EndConfigMoves ==
    ASSUME DInv, NEW p \in Pids, EndConfig(p)
    PROVE  QuietlyMoves(p)
  <1>1. CASE Go(p, After("config")) /\ pidfile' = pidfile
    <2>1. proc[p].stage = "config" /\ proc[p].line = Len(config) /\ program \in Programs
      BY DEF EndConfig, DInv, FileOK, Programs
    <2>2. After("config") \in {"signals", "database"} /\ (After("config") = "signals" => program = "smtpd")
      BY <2>1, OrderSteps DEF Programs
    <2>3. proc[p].parent = None
      BY <2>1 DEF DInv, Local, Placed, Looping
    <2> DEFINE s == After("config")
    <2>4. Go(p, s) /\ s \in {"signals", "database"} /\ (s = "signals" => program = "smtpd")
      BY <1>1, <2>2
    <2> HIDE DEF s
    <2> QED BY <1>1, <2>1, <2>3, <2>4, GoStep DEF Early, Late, Over, WithDatabase, Stages, Looping
  <1>2. CASE Exit(p)
    BY <1>2, Exits DEF EndConfig
  <1> QED BY <1>1, <1>2 DEF EndConfig

LEMMA InitializeDatabaseMoves ==
    ASSUME DInv, NEW p \in Pids, InitializeDatabase(p)
    PROVE  QuietlyMoves(p)
  <1>1. CASE proc[p].database /\ Go(p, After("database")) /\ pidfile' = pidfile
    <2>1. proc[p].stage = "database" /\ program \in Programs
      BY DEF InitializeDatabase, DInv, FileOK, Programs
    <2> DEFINE s == After("database")
    <2>2. Go(p, s) /\ s \in {"signals", "pidfile"}
      BY <1>1, <2>1, OrderSteps DEF Programs
    <2>3. proc[p].parent = None
      BY <2>1 DEF DInv, Local, Placed, Looping
    <2> HIDE DEF s
    <2> QED BY <1>1, <2>1, <2>2, <2>3, GoStep DEF Early, Late, Over, WithDatabase, Stages, Looping
  <1>2. CASE Exit(p)
    BY <1>2, Exits DEF InitializeDatabase
  <1> QED BY <1>1, <1>2 DEF InitializeDatabase

LEMMA InitializeSignalsMoves ==
    ASSUME DInv, NEW p \in Pids, InitializeSignals(p)
    PROVE  QuietlyMoves(p)
  <1>1. proc[p].stage = "signals" /\ program \in Programs /\ pidfile' = pidfile
    BY DEF InitializeSignals, DInv, FileOK, Programs
  <1> DEFINE s == After("signals")
  <1>2. Go(p, s) /\ s \in {"database", "pidfile"} /\ (s = "pidfile" => program # "smtpd")
    BY <1>1, OrderSteps DEF Programs, InitializeSignals
  <1>3. proc[p].parent = None /\ (program # "smtpd" => proc[p].database)
    BY <1>1 DEF DInv, Local, Placed, Looping
  <1> HIDE DEF s
  <1> QED BY <1>1, <1>2, <1>3, GoStep DEF Early, Late, Over, WithDatabase, Stages, Looping

\* The pidfile is emptied on the way to the change of user.
Empties(p) ==
    /\ proc[p].stage = "pidfile" /\ pidfile' = None
    /\ \E r : Moves(p, r) /\ r.stage = "privileges" /\ r.parent = None

LEMMA OpenPidfileMoves ==
    ASSUME DInv, NEW p \in Pids, OpenPidfile(p)
    PROVE  QuietlyMoves(p) \/ Empties(p)
  <1>1. /\ proc[p].stage = "pidfile" /\ program \in Programs /\ proc[p] \in Process
        /\ Local(program, config, proc[p])
    BY DEF OpenPidfile, DInv, FileOK, Programs
  <1>2. After("pidfile") = "privileges"
    BY <1>1, OrderSteps DEF Programs
  <1>3. proc[p].parent = None /\ proc[p].database
    BY <1>1 DEF Local, Placed, Looping, WithDatabase
  <1>4. CASE Go(p, After("pidfile")) /\ pidfile' = pidfile
    <2>1. Go(p, "privileges")
      BY <1>2, <1>4
    <2>2. QuietlyMoves(p)
      BY <1>1, <1>3, <1>4, <2>1, GoStep DEF Early, Late, Over, WithDatabase, Stages, Looping
    <2> QED BY <2>2
  <1>5. CASE /\ Set(p, [proc[p] EXCEPT !.stage = After("pidfile"), !.handle = TRUE, !.opened = TRUE])
             /\ pidfile' = None
    <2> DEFINE r == [proc[p] EXCEPT !.stage = "privileges", !.handle = TRUE, !.opened = TRUE]
    <2>1. proc' = [proc EXCEPT ![p] = r]
      BY <1>2, <1>5 DEF Set
    <2>2. r \in Process
      BY <1>1 DEF Process, Stages
    <2>3. /\ r.line = proc[p].line /\ r.bound = proc[p].bound /\ r.database = proc[p].database
          /\ r.priv = proc[p].priv /\ r.opened /\ r.parent = proc[p].parent
          /\ r.stage = "privileges" /\ r.handle /\ r.uid = proc[p].uid /\ r.gid = proc[p].gid
          /\ r.starter = proc[p].starter
      BY <1>1 DEF Process
    <2> HIDE DEF r
    <2>4. Followed(program, config, r)
      BY <1>1, <2>3, SameFollowed DEF Local
    <2>5. Identity(r)
      BY <1>1, <2>3 DEF Local, Identity, Early, Late
    <2>6. Placed(program, config, r)
      BY <1>1, <1>3, <2>3 DEF Local, Placed, Over
    <2>7. Family(p, r)
      BY <1>1, <1>3, <2>3 DEF Family
    <2> QED BY <1>1, <1>3, <1>5, <2>1, <2>2, <2>3, <2>4, <2>5, <2>6, <2>7 DEF Local, Moves, Empties
  <1> QED BY <1>4, <1>5 DEF OpenPidfile

LEMMA DropPrivilegesMoves ==
    ASSUME DInv, NEW p \in Pids, DropPrivileges(p)
    PROVE  QuietlyMoves(p)
  <1>1. /\ proc[p].stage = "privileges" /\ program \in Programs /\ proc[p] \in Process
        /\ Local(program, config, proc[p])
    BY DEF DropPrivileges, DInv, FileOK, Programs
  <1>2. CASE Exit(p)
    BY <1>1, <1>2, Exits
  <1>3. ASSUME NEW r \in Process, Set(p, r), pidfile' = pidfile,
               r.line = proc[p].line, r.bound = proc[p].bound, r.database = proc[p].database,
               r.priv = proc[p].priv, r.opened = proc[p].opened, r.parent = proc[p].parent,
               r.child = proc[p].child, r.handle = proc[p].handle, r.stage = "detach",
               r.starter = "root" /\ r.drop => r.uid = r.priv.uid /\ r.gid = r.priv.gid
        PROVE  QuietlyMoves(p)
    <2>1. proc[p].parent = None /\ proc[p].database /\ proc[p].line = Len(config)
          /\ proc[p].line <= Len(config) /\ (proc[p].opened <=> proc[p].handle)
      BY <1>1 DEF Local, Placed, Looping, WithDatabase, Over, Early
    <2>2. Identity(r)
      BY <1>3 DEF Identity, Early
    <2>3. Placed(program, config, r)
      BY <1>3, <2>1 DEF Placed, Over
    <2>4. proc' = [proc EXCEPT ![p] = r]
      BY <1>3 DEF Set
    <2>5. Listens /\ r.stage \in Looping /\ r.parent # None => proc[p].stage \in Looping
      BY <1>3 DEF Looping
    <2>6. proc[p].stage \in {"write", "leave", "exited", "killed"} => r.stage = proc[p].stage
      BY <1>1
    <2> QED BY <1>3, <2>2, <2>3, <2>4, <2>5, <2>6, GoesOn
  <1>4. CASE /\ proc[p].uid = "root" /\ proc[p].drop /\ pidfile' = pidfile
             /\ \E r \in Dropped(p) : Set(p, r)
    <2> DEFINE r == [proc[p] EXCEPT !.stage = "detach", !.uid = proc[p].priv.uid,
                                    !.gid = proc[p].priv.gid]
    <2>1. Set(p, r)
      BY <1>4 DEF Dropped
    <2>2. r \in Process
      BY <1>1 DEF Process, Stages
    <2>3. /\ r.line = proc[p].line /\ r.bound = proc[p].bound /\ r.database = proc[p].database
          /\ r.priv = proc[p].priv /\ r.opened = proc[p].opened /\ r.parent = proc[p].parent
          /\ r.child = proc[p].child /\ r.handle = proc[p].handle /\ r.stage = "detach"
          /\ r.uid = r.priv.uid /\ r.gid = r.priv.gid
      BY <1>1 DEF Process
    <2> HIDE DEF r
    <2> QED BY <1>3, <1>4, <2>1, <2>2, <2>3
  <1>5. CASE ~(proc[p].uid = "root" /\ proc[p].drop) /\ Go(p, "detach") /\ pidfile' = pidfile
    <2> DEFINE r == [proc[p] EXCEPT !.stage = "detach"]
    <2>1. Set(p, r)
      BY <1>5 DEF Go
    <2>2. r \in Process
      BY <1>1 DEF Process, Stages
    <2>3. /\ r.line = proc[p].line /\ r.bound = proc[p].bound /\ r.database = proc[p].database
          /\ r.priv = proc[p].priv /\ r.opened = proc[p].opened /\ r.parent = proc[p].parent
          /\ r.child = proc[p].child /\ r.handle = proc[p].handle /\ r.stage = "detach"
          /\ r.starter = proc[p].starter /\ r.drop = proc[p].drop
      BY <1>1 DEF Process
    <2> HIDE DEF r
    <2>4. proc[p].uid = proc[p].starter
      BY <1>1 DEF Local, Identity, Early
    <2> QED BY <1>3, <1>5, <2>1, <2>2, <2>3, <2>4
  <1> QED BY <1>2, <1>4, <1>5 DEF DropPrivileges

\* The parent writes its child's number when it has the file.
Writes(p) ==
    /\ proc[p].stage = "write"
    /\ pidfile' = IF proc[p].handle THEN proc[p].child ELSE pidfile
    /\ \E r : Moves(p, r) /\ r.stage = "leave" /\ r.parent = None

LEMMA WritePidMoves ==
    ASSUME DInv, NEW p \in Pids, WritePid(p)
    PROVE  Writes(p)
  <1>1. proc[p].stage = "write" /\ proc[p] \in Process /\ Local(program, config, proc[p])
    BY DEF WritePid, DInv
  <1> DEFINE r == [proc[p] EXCEPT !.stage = "leave", !.handle = FALSE]
  <1>2. proc' = [proc EXCEPT ![p] = r]
    BY DEF WritePid, Set
  <1>3. r \in Process
    BY <1>1 DEF Process, Stages
  <1>4. /\ r.line = proc[p].line /\ r.bound = proc[p].bound /\ r.database = proc[p].database
        /\ r.priv = proc[p].priv /\ r.opened = proc[p].opened /\ r.parent = proc[p].parent
        /\ r.child = proc[p].child /\ r.stage = "leave" /\ r.uid = proc[p].uid
        /\ r.gid = proc[p].gid /\ r.starter = proc[p].starter /\ r.drop = proc[p].drop
    BY <1>1 DEF Process
  <1> HIDE DEF r
  <1>5. proc[p].parent = None
    BY <1>1 DEF Local, Placed, Looping
  <1>6. Followed(program, config, r)
    BY <1>1, <1>4, SameFollowed DEF Local
  <1>7. Identity(r)
    BY <1>1, <1>4 DEF Local, Identity, Early, Late
  <1>8. Placed(program, config, r)
    BY <1>1, <1>4, <1>5 DEF Local, Placed, Over, WithDatabase, Late, Early
  <1>9. Family(p, r)
    BY <1>1, <1>4, <1>5 DEF Family
  <1> QED BY <1>1, <1>2, <1>3, <1>4, <1>5, <1>6, <1>7, <1>8, <1>9 DEF WritePid, Local, Moves, Writes

LEMMA LeaveMoves ==
    ASSUME DInv, NEW p \in Pids, Leave(p)
    PROVE  QuietlyMoves(p)
  BY Exits DEF Leave

LEMMA CrashMoves ==
    ASSUME DInv, NEW p \in Pids, Crash(p)
    PROVE  QuietlyMoves(p)
  <1>1. Set(p, Ended(p, "killed")) /\ pidfile' = pidfile /\ "killed" \in {"exited", "killed"}
    BY DEF Crash
  <1> QED BY <1>1, Ends

LEMMA LoopMoves ==
    ASSUME DInv, NEW p \in Pids, Check(p) \/ Select(p) \/ Woken(p) \/ Serve(p)
    PROVE  QuietlyMoves(p)
  <1>1. proc[p].stage \in Looping /\ pidfile' = pidfile /\ proc[p].database
    BY DEF Check, Select, Woken, Serve, Looping, DInv, Local, Placed, WithDatabase, Late
  <1>2. PICK s \in Looping \cup {"closing"} : Go(p, s)
    <2>1. CASE Check(p)
      BY <2>1 DEF Check, Looping
    <2>2. CASE Woken(p)
      BY <2>2 DEF Woken, Looping
    <2>3. CASE Serve(p)
      BY <2>3 DEF Serve, Looping
    <2>4. CASE Select(p)
      BY <2>4 DEF Select, Looping
    <2> QED BY <2>1, <2>2, <2>3, <2>4
  <1> QED BY <1>1, <1>2, GoStep DEF Early, Late, Over, WithDatabase, Stages, Looping

LEMMA SignalMoves ==
    ASSUME DInv, NEW p \in Pids, Signal(p)
    PROVE  QuietlyMoves(p)
  <1>1. proc[p] \in Process /\ Local(program, config, proc[p]) /\ pidfile' = pidfile
    BY DEF Signal, DInv
  <1>2. CASE ~Handling(p)
    <2>1. Set(p, Ended(p, "killed")) /\ "killed" \in {"exited", "killed"}
      BY <1>2 DEF Signal
    <2> QED BY <1>1, <2>1, Ends
  <1>3. CASE Handling(p)
    <2> DEFINE s == IF proc[p].stage # "wait" THEN proc[p].stage
                    ELSE IF Listens THEN "closing" ELSE "check"
               r == [proc[p] EXCEPT !.abort = TRUE, !.stage = s]
    <2>1. Set(p, r)
      <3>1. r = [proc[p] EXCEPT !.abort = TRUE,
                   !.stage = IF @ # "wait" THEN @ ELSE IF Listens THEN "closing" ELSE "check"]
        BY <1>1 DEF Process
      <3> QED BY <1>3, <3>1 DEF Signal
    <2>2. s \in Stages /\ (proc[p].stage # "wait" => s = proc[p].stage)
          /\ (proc[p].stage = "wait" => s \in {"closing", "check"})
      BY <1>1 DEF Process, Stages
    <2> HIDE DEF s
    <2>3. r \in Process
      BY <1>1, <2>2 DEF Process
    <2>4. /\ r.line = proc[p].line /\ r.bound = proc[p].bound /\ r.database = proc[p].database
          /\ r.priv = proc[p].priv /\ r.opened = proc[p].opened /\ r.parent = proc[p].parent
          /\ r.child = proc[p].child /\ r.handle = proc[p].handle /\ r.stage = s
          /\ r.uid = proc[p].uid /\ r.gid = proc[p].gid /\ r.starter = proc[p].starter
          /\ r.drop = proc[p].drop
      BY <1>1 DEF Process
    <2>5. proc' = [proc EXCEPT ![p] = r]
      BY <2>1 DEF Set
    <2> HIDE DEF r
    <2>6. Identity(r)
      BY <1>1, <2>2, <2>4 DEF Local, Identity, Early, Late
    <2>7. Placed(program, config, r)
      <3>1. CASE proc[p].stage = "wait"
        BY <1>1, <2>2, <2>4, <3>1 DEF Local, Placed, Over, WithDatabase, Late, Early, Looping
      <3>2. CASE proc[p].stage # "wait"
        BY <1>1, <2>2, <2>4, <3>2 DEF Local, Placed
      <3> QED BY <3>1, <3>2
    <2>8. proc[p].stage \in {"write", "leave", "exited", "killed"} => r.stage = proc[p].stage
      BY <2>2, <2>4
    <2>9. Listens /\ r.stage \in Looping /\ r.parent # None => proc[p].stage \in Looping
      BY <2>2, <2>4 DEF Looping
    <2> QED BY <1>1, <2>3, <2>4, <2>5, <2>6, <2>7, <2>8, <2>9, GoesOn
  <1> QED BY <1>2, <1>3

\* A step over one more line.
LEMMA ReadsOn ==
    ASSUME DInv, NEW p \in Pids, NEW r \in Process, proc[p].stage = "config",
           Set(p, r), pidfile' = pidfile, r.line = proc[p].line + 1,
           r.stage = "config", r.uid = proc[p].uid, r.gid = proc[p].gid,
           r.starter = proc[p].starter, r.opened = proc[p].opened, r.handle = proc[p].handle,
           r.parent = proc[p].parent, r.line <= Len(config), Followed(program, config, r),
           \A a \in r.bound : a \in proc[p].bound \/ ~InUse(a)
    PROVE  QuietlyMoves(p)
  <1>1. Local(program, config, proc[p])
    BY DEF DInv
  <1>2. proc[p].parent = None
    BY <1>1 DEF Local, Placed, Looping
  <1>3. Identity(r)
    BY <1>1 DEF Local, Identity, Early, Late
  <1>4. Placed(program, config, r)
    BY <1>1, <1>2 DEF Local, Placed, Over, WithDatabase, Late, Early
  <1>5. Family(p, r)
    BY <1>2 DEF Family
  <1>6. Quiet(p, r)
    BY DEF Quiet, Looping
  <1> QED BY <1>3, <1>4, <1>5, <1>6 DEF Set, Local, Moves, QuietlyMoves

\* Reading a line that is not about sockets keeps the sockets right.
LEMMA SameBound ==
    ASSUME NEW g \in Programs, NEW f \in FileOf, NEW r \in Process, NEW s \in Process,
           r.line < Len(f), Bound(g, f, r), s.bound = r.bound, s.line = r.line + 1,
           f[r.line + 1].directive # "bind" \/ g = "dispatchd"
    PROVE  Bound(g, f, s)
  <1>1. CASE g = "dispatchd"
    BY <1>1 DEF Bound
  <1>2. CASE f[r.line + 1].directive # "bind"
    <2>1. LinesTo(f, {"bind"}, s.line) = LinesTo(f, {"bind"}, r.line)
      BY <1>2, LineOut DEF Process
    <2> QED BY <2>1 DEF Bound
  <1> QED BY <1>1, <1>2

LEMMA MoreBound ==
    ASSUME NEW g \in Programs, NEW f \in FileOf, NEW r \in Process, NEW s \in Process,
           r.line < Len(f), Bound(g, f, r), s.line = r.line + 1,
           f[r.line + 1].directive = "bind",
           NEW a \in AddressesAt(f, r.line + 1), a \notin r.bound, s.bound = r.bound \cup {a}
    PROVE  Bound(g, f, s)
  <1>1. SUFFICES ASSUME g # "dispatchd" PROVE Bound(g, f, s)
    BY DEF Bound
  <1> DEFINE old == LinesTo(f, {"bind"}, r.line)
             n == r.line + 1
  <1>2. LinesTo(f, {"bind"}, s.line) = old \cup {n} /\ n \notin old
    <2>1. r.line \in Nat /\ f[r.line + 1].directive \in {"bind"}
      BY DEF Process
    <2> QED BY <2>1, LineIn
  <1>3. IsFiniteSet(old) /\ IsFiniteSet(r.bound) /\ Cardinality(r.bound) = Cardinality(old)
    BY <1>1, LinesFinite DEF Bound
  <1>4. IsFiniteSet(s.bound) /\ Cardinality(s.bound) = Cardinality(r.bound) + 1
    <2> DEFINE b == r.bound
    <2>1. IsFiniteSet(b) /\ a \notin b /\ s.bound = b \cup {a}
      BY <1>3
    <2> HIDE DEF b
    <2>2. IsFiniteSet(b \cup {a}) /\ Cardinality(b \cup {a}) = Cardinality(b) + 1
      BY <2>1, FS_AddElement
    <2> QED BY <2>1, <2>2 DEF b
  <1>5. Cardinality(old \cup {n}) = Cardinality(old) + 1
    BY <1>2, <1>3, FS_AddElement
  <1>6. \A i \in old \cup {n} : s.bound \cap AddressesAt(f, i) # {}
    BY <1>1 DEF Bound
  <1> HIDE DEF old, n
  <1> QED BY <1>2, <1>3, <1>4, <1>5, <1>6 DEF Bound

\* The flag and the account that a line leaves as they were.
LEMMA SameRest ==
    ASSUME NEW g \in Programs, NEW f \in FileOf, NEW r \in Process, NEW s \in Process,
           r.line < Len(f), Followed(g, f, r), s.line = r.line + 1, Bound(g, f, s),
           s.database = r.database \/ f[r.line + 1].directive = "database",
           s.priv = r.priv, f[r.line + 1].directive \notin {"user", "group"}
    PROVE  Followed(g, f, s)
  <1>1. r.line \in Nat
    BY DEF Process
  <1>2. s.database => LinesTo(f, {"database"}, s.line) # {}
    <2>1. CASE f[r.line + 1].directive = "database"
      <3>1. f[r.line + 1].directive \in {"database"}
        BY <2>1
      <3>2. LinesTo(f, {"database"}, r.line + 1) = LinesTo(f, {"database"}, r.line) \cup {r.line + 1}
        BY <1>1, <3>1, LineIn
      <3> QED BY <3>2
    <2>2. CASE f[r.line + 1].directive # "database"
      <3>1. f[r.line + 1].directive \notin {"database"} /\ (s.database => r.database)
        BY <2>2
      <3>2. LinesTo(f, {"database"}, s.line) = LinesTo(f, {"database"}, r.line)
        BY <1>1, <3>1, LineOut
      <3> QED BY <3>1, <3>2 DEF Followed
    <2> QED BY <2>1, <2>2
  <1>3. LastTo(f, {"user"}, s.line) = LastTo(f, {"user"}, r.line)
    BY <1>1, LineOut
  <1>4. LastTo(f, {"user", "group"}, s.line) = LastTo(f, {"user", "group"}, r.line)
    BY <1>1, LineOut
  <1> QED BY <1>2, <1>3, <1>4 DEF Followed

LEMMA NewAccount ==
    ASSUME NEW g \in Programs, NEW f \in FileOf, NEW r \in Process, NEW s \in Process,
           r.line < Len(f), Followed(g, f, r), s.line = r.line + 1, Bound(g, f, s),
           s.database = r.database, f[r.line + 1].directive \in {"user", "group"},
           s.priv.gid = f[r.line + 1].param,
           s.priv.uid = IF f[r.line + 1].directive = "user" THEN f[r.line + 1].param ELSE r.priv.uid
    PROVE  Followed(g, f, s)
  <1>1. r.line \in Nat
    BY DEF Process
  <1>2. LinesTo(f, {"database"}, s.line) = LinesTo(f, {"database"}, r.line)
    BY <1>1, LineOut
  <1>3. LastTo(f, {"user", "group"}, s.line) = s.priv.gid
    <2>1. LastTo(f, {"user", "group"}, r.line + 1) = f[r.line + 1].param
      BY <1>1, LineIn
    <2> QED BY <2>1
  <1>4. LastTo(f, {"user"}, s.line) = s.priv.uid
    <2>1. CASE f[r.line + 1].directive = "user"
      <3> DEFINE n == r.line
                 ds == {"user"}
      <3>1. n \in Nat /\ n < Len(f) /\ f[n + 1].directive \in ds
        BY <1>1, <2>1
      <3> HIDE DEF n, ds
      <3>2. LastTo(f, ds, n + 1) = f[n + 1].param
        BY <3>1, LineIn
      <3> QED BY <2>1, <3>2 DEF n, ds
    <2>2. CASE f[r.line + 1].directive # "user"
      <3>1. f[r.line + 1].directive \notin {"user"}
        BY <2>2
      <3>2. LastTo(f, {"user"}, r.line + 1) = LastTo(f, {"user"}, r.line)
        BY <1>1, <3>1, LineOut
      <3> QED BY <2>2, <3>2 DEF Followed
    <2> QED BY <2>1, <2>2
  <1> QED BY <1>2, <1>3, <1>4 DEF Followed

LEMMA ReadLineMoves ==
    ASSUME DInv, NEW p \in Pids, ReadLine(p)
    PROVE  QuietlyMoves(p)
  <1>1. /\ proc[p].stage = "config" /\ proc[p] \in Process /\ proc[p].line < Len(config)
        /\ proc[p].line \in Nat
    BY DEF ReadLine, DInv, Process
  <1>10. PICK n \in Nat : n = proc[p].line + 1
    BY <1>1
  <1> DEFINE l == config[n]
  <1>2. program \in Programs /\ config \in FileOf
    BY DEF DInv, FileOK, Programs, FileOf
  <1>11. n \in DOMAIN config
    <2>1. DOMAIN config = 1 .. Len(config) /\ Len(config) \in Nat
      BY <1>2 DEF FileOf
    <2> QED BY <1>1, <1>10, <2>1
  <1>12. l.directive = "bind" => l.param \in DOMAIN AddressesOf
    BY <1>11 DEF DInv, FileOK
  <1>3. Followed(program, config, proc[p]) /\ Bound(program, config, proc[p])
    BY DEF DInv, Local, Followed
  <1>4. CASE Exit(p)
    BY <1>1, <1>4, Exits
  <1>5. ASSUME NEW r \in Process, Set(p, r), pidfile' = pidfile, r.line = n,
               r.stage = "config", r.uid = proc[p].uid, r.gid = proc[p].gid,
               r.starter = proc[p].starter, r.opened = proc[p].opened,
               r.handle = proc[p].handle, r.parent = proc[p].parent,
               Followed(program, config, r),
               \A a \in r.bound : a \in proc[p].bound \/ ~InUse(a)
        PROVE  QuietlyMoves(p)
    <2>1. r.line <= Len(config)
      BY <1>1, <1>5, <1>10 DEF FileOf, DInv, FileOK
    <2> QED BY <1>1, <1>5, <1>10, <2>1, ReadsOn
  <1>6. CASE l.directive = "bind" /\ BindLine(p, l.param)
    <2>1. CASE ~Listens
      <3> DEFINE r == [proc[p] EXCEPT !.line = n]
      <3>1. Exit(p) \/ (Set(p, r) /\ pidfile' = pidfile)
        BY <1>6, <1>10, <2>1 DEF BindLine
      <3>2. r \in Process
        BY <1>1 DEF Process
      <3>3. /\ r.line = n /\ r.stage = "config" /\ r.uid = proc[p].uid /\ r.gid = proc[p].gid
            /\ r.starter = proc[p].starter /\ r.opened = proc[p].opened
            /\ r.handle = proc[p].handle /\ r.parent = proc[p].parent
            /\ r.bound = proc[p].bound /\ r.database = proc[p].database /\ r.priv = proc[p].priv
        BY <1>1 DEF Process
      <3> HIDE DEF r
      <3>4. Bound(program, config, r)
        BY <2>1 DEF Bound, Listens
      <3>5. Followed(program, config, r)
        BY <1>1, <1>2, <1>3, <1>10, <1>6, <3>2, <3>3, <3>4, SameRest
      <3> QED BY <1>4, <1>5, <3>1, <3>2, <3>3, <3>5
    <2>2. ASSUME Listens, NEW i \in Candidates(l.param),
                 Set(p, [proc[p] EXCEPT !.line = @ + 1, !.bound = @ \cup {AddressesOf[l.param][i]},
                                        !.errno = @ \/ i > 1]),
                 pidfile' = pidfile
          PROVE  QuietlyMoves(p)
      <3> DEFINE a == AddressesOf[l.param][i]
                 b == proc[p].errno \/ i > 1
                 r == [proc[p] EXCEPT !.line = n, !.bound = @ \cup {a}, !.errno = b]
      <3>1. a \in AddressesAt(config, n) /\ ~InUse(a) /\ a \in Addresses
        BY <1>2, <1>6, <1>11, <1>12, <2>2 DEF Candidates, AddressesAt, Addresses
      <3>2. Set(p, r)
        BY <1>10, <2>2
      <3>3. b \in BOOLEAN
        BY <1>1 DEF Process
      <3> HIDE DEF a, b
      <3>4. r \in Process
        BY <1>1, <3>1, <3>3 DEF Process
      <3>5. /\ r.line = n /\ r.stage = "config" /\ r.uid = proc[p].uid /\ r.gid = proc[p].gid
            /\ r.starter = proc[p].starter /\ r.opened = proc[p].opened
            /\ r.handle = proc[p].handle /\ r.parent = proc[p].parent
            /\ r.bound = proc[p].bound \cup {a} /\ r.database = proc[p].database
            /\ r.priv = proc[p].priv
        BY <1>1 DEF Process
      <3> HIDE DEF r
      <3>6. a \notin proc[p].bound
        BY <3>1 DEF InUse
      <3>7. Bound(program, config, r)
        BY <1>1, <1>2, <1>3, <1>10, <1>6, <3>1, <3>4, <3>5, <3>6, MoreBound
      <3>8. Followed(program, config, r)
        BY <1>1, <1>2, <1>3, <1>10, <1>6, <3>4, <3>5, <3>7, SameRest
      <3>9. \A x \in r.bound : x \in proc[p].bound \/ ~InUse(x)
        BY <3>1, <3>5
      <3> QED BY <1>5, <2>2, <3>2, <3>4, <3>5, <3>8, <3>9
    <2> QED BY <1>4, <1>6, <2>1, <2>2 DEF BindLine
  <1>7. CASE l.directive \in {"user", "group"} /\ PrivilegeLine(p, l)
    <2> DEFINE u == IF l.directive = "user" THEN l.param ELSE proc[p].priv.uid
               r == [proc[p] EXCEPT !.line = n, !.errno = FALSE, !.priv.gid = l.param,
                                    !.priv.uid = u]
    <2>1. CASE ~Unknown(l.param)
      <3>1. Set(p, r) /\ pidfile' = pidfile
        BY <1>1, <1>7, <1>10, <2>1 DEF PrivilegeLine, Process
      <3>2. l.param \in Ids
        BY <2>1 DEF Unknown, Ids
      <3>3. u \in Ids
        BY <1>1, <3>2 DEF Process
      <3> HIDE DEF u
      <3>4. r \in Process
        BY <1>1, <3>2, <3>3 DEF Process
      <3>5. /\ r.line = n /\ r.stage = "config" /\ r.uid = proc[p].uid /\ r.gid = proc[p].gid
            /\ r.starter = proc[p].starter /\ r.opened = proc[p].opened
            /\ r.handle = proc[p].handle /\ r.parent = proc[p].parent
            /\ r.bound = proc[p].bound /\ r.database = proc[p].database
            /\ r.priv.gid = l.param /\ r.priv.uid = u
        BY <1>1 DEF Process
      <3> HIDE DEF r
      <3>6. Bound(program, config, r)
        BY <1>1, <1>2, <1>3, <1>10, <1>7, <3>4, <3>5, SameBound
      <3>7. Followed(program, config, r)
        BY <1>1, <1>2, <1>3, <1>10, <1>7, <3>4, <3>5, <3>6, NewAccount DEF u
      <3> QED BY <1>5, <3>1, <3>4, <3>5, <3>7
    <2> QED BY <1>4, <1>7, <2>1 DEF PrivilegeLine
  <1>8. CASE l.directive = "database" /\ DatabaseLine(p)
    <2> DEFINE r == [proc[p] EXCEPT !.line = n, !.database = TRUE]
    <2>1. Exit(p) \/ (Set(p, r) /\ pidfile' = pidfile)
      BY <1>8, <1>10 DEF DatabaseLine
    <2>2. r \in Process
      BY <1>1 DEF Process
    <2>3. /\ r.line = n /\ r.stage = "config" /\ r.uid = proc[p].uid /\ r.gid = proc[p].gid
          /\ r.starter = proc[p].starter /\ r.opened = proc[p].opened
          /\ r.handle = proc[p].handle /\ r.parent = proc[p].parent
          /\ r.bound = proc[p].bound /\ r.priv = proc[p].priv
      BY <1>1 DEF Process
    <2> HIDE DEF r
    <2>4. Bound(program, config, r)
      BY <1>1, <1>2, <1>3, <1>10, <1>8, <2>2, <2>3, SameBound
    <2>5. Followed(program, config, r)
      BY <1>1, <1>2, <1>3, <1>10, <1>8, <2>2, <2>3, <2>4, SameRest
    <2> QED BY <1>4, <1>5, <2>1, <2>2, <2>3, <2>5
  <1>9. CASE \/ l.directive = "logfile" /\ LogLine(p)
             \/ l.directive = "pidfile" /\ PidfileLine(p)
    <2>1. ASSUME NEW r \in Process, Set(p, r), pidfile' = pidfile, r.line = n,
                 r.stage = "config", r.uid = proc[p].uid, r.gid = proc[p].gid,
                 r.starter = proc[p].starter, r.opened = proc[p].opened,
                 r.handle = proc[p].handle, r.parent = proc[p].parent,
                 r.bound = proc[p].bound, r.database = proc[p].database, r.priv = proc[p].priv
          PROVE  QuietlyMoves(p)
      <3>1. Bound(program, config, r)
        BY <1>1, <1>2, <1>3, <1>10, <1>9, <2>1, SameBound
      <3>2. Followed(program, config, r)
        BY <1>1, <1>2, <1>3, <1>10, <1>9, <2>1, <3>1, SameRest
      <3> QED BY <1>5, <2>1, <3>2
    <2>2. CASE Set(p, [proc[p] EXCEPT !.line = @ + 1, !.log = TRUE]) /\ pidfile' = pidfile
      <3> DEFINE r == [proc[p] EXCEPT !.line = n, !.log = TRUE]
      <3>1. /\ r \in Process /\ r.line = n /\ r.stage = "config" /\ r.uid = proc[p].uid
            /\ r.gid = proc[p].gid /\ r.starter = proc[p].starter /\ r.opened = proc[p].opened
            /\ r.handle = proc[p].handle /\ r.parent = proc[p].parent
            /\ r.bound = proc[p].bound /\ r.database = proc[p].database /\ r.priv = proc[p].priv
        BY <1>1 DEF Process
      <3> HIDE DEF r
      <3> QED BY <1>10, <2>1, <2>2, <3>1 DEF r
    <2>3. CASE Set(p, [proc[p] EXCEPT !.line = @ + 1, !.named = TRUE]) /\ pidfile' = pidfile
      <3> DEFINE r == [proc[p] EXCEPT !.line = n, !.named = TRUE]
      <3>1. /\ r \in Process /\ r.line = n /\ r.stage = "config" /\ r.uid = proc[p].uid
            /\ r.gid = proc[p].gid /\ r.starter = proc[p].starter /\ r.opened = proc[p].opened
            /\ r.handle = proc[p].handle /\ r.parent = proc[p].parent
            /\ r.bound = proc[p].bound /\ r.database = proc[p].database /\ r.priv = proc[p].priv
        BY <1>1 DEF Process
      <3> HIDE DEF r
      <3> QED BY <1>10, <2>1, <2>3, <3>1 DEF r
    <2> QED BY <1>4, <1>9, <2>2, <2>3 DEF LogLine, PidfileLine
  <1> QED BY <1>4, <1>6, <1>7, <1>8, <1>9, <1>10 DEF ReadLine

-------------------------------------------------------------------------------
(* All processes *)

LEMMA MovesKeep ==
    ASSUME DInv, NEW p \in Pids, NEW r, Moves(p, r), UNCHANGED <<program, config>>,
           pidfile' \in Pids \cup {None}
    PROVE  DInv'
  <1>1. r \in Process /\ Local(program, config, r) /\ Family(p, r)
    BY DEF Moves, Local
  <1>2. /\ proc \in [Pids -> Process] /\ proc' \in [Pids -> Process] /\ proc'[p] = r
        /\ \A x \in Pids : x # p => proc'[x] = proc[x]
    BY <1>1 DEF DInv, Moves
  <1>3. FileOK'
    BY DEF DInv, FileOK
  <1>4. \A x \in Pids : Local(program', config', proc'[x])
    BY <1>1, <1>2 DEF DInv
  <1>5. Parents'
    <2>1. SUFFICES ASSUME NEW x \in Pids, proc'[x].parent # None
                   PROVE  LET q == proc'[x].parent
                          IN /\ q \in Pids /\ q # x
                             /\ proc'[q].stage \in {"write", "leave", "exited", "killed"}
                             /\ proc'[q].stage \in {"write", "leave"} => proc'[q].child = x
                             /\ proc'[q].stage = "write" => (proc'[x].opened <=> proc'[q].opened)
      BY DEF Parents
    <2>2. PICK q : q = proc[x].parent
      OBVIOUS
    <2>3. proc'[x].parent = q /\ proc'[x].opened = proc[x].opened /\ q # None
      BY <1>1, <1>2, <2>1, <2>2 DEF Family
    <2>4. /\ q \in Pids /\ q # x
          /\ proc[q].stage \in {"write", "leave", "exited", "killed"}
          /\ proc[q].stage \in {"write", "leave"} => proc[q].child = x
          /\ proc[q].stage = "write" => (proc[x].opened <=> proc[q].opened)
      BY <2>2, <2>3 DEF DInv, Parents
    <2>5. CASE q # p
      <3>1. proc'[q] = proc[q]
        BY <1>2, <2>4, <2>5
      <3> QED BY <2>3, <2>4, <3>1
    <2>6. CASE q = p
      <3>1. proc'[q] = r
        BY <1>2, <2>6
      <3>2. /\ r.stage \in {"write", "leave", "exited", "killed"}
            /\ r.stage \in {"write", "leave"} => r.child = proc[q].child
            /\ r.stage = "write" => proc[q].stage = "write" /\ r.opened = proc[q].opened
        BY <1>1, <2>4, <2>6 DEF Family
      <3>3. r.stage \in {"write", "leave"} => proc[q].stage \in {"write", "leave"}
        BY <1>1, <2>4, <2>6 DEF Family
      <3> QED BY <2>3, <2>4, <3>1, <3>2, <3>3
    <2> QED BY <2>5, <2>6
  <1>6. Related'
    <2>1. SUFFICES ASSUME NEW x \in Pids, NEW y \in Pids, x # y,
                          proc'[x].bound \cap proc'[y].bound # {}
                   PROVE  proc'[x].parent = y \/ proc'[y].parent = x
      BY DEF Related
    <2>2. PICK a : a \in proc'[x].bound /\ a \in proc'[y].bound
      BY <2>1
    <2>3. a \in proc[x].bound /\ a \in proc[y].bound
      BY <1>1, <1>2, <2>1, <2>2 DEF Family, InUse
    <2>4. proc[x].parent = y \/ proc[y].parent = x
      BY <2>1, <2>3 DEF DInv, Related
    <2>5. proc'[x].parent = proc[x].parent /\ proc'[y].parent = proc[y].parent
      BY <1>1, <1>2, <2>2 DEF Family
    <2> QED BY <2>4, <2>5
  <1> QED BY <1>2, <1>3, <1>4, <1>5, <1>6 DEF DInv

LEMMA ForkKeeps ==
    ASSUME DInv, NEW p \in Pids, NEW c \in Pids \ {p}, proc[p].stage = "detach", Fork(p, c),
           UNCHANGED <<program, config>>
    PROVE  DInv'
  <1> DEFINE k == [proc[p] EXCEPT !.stage = Entry, !.handle = FALSE, !.parent = p]
             r == AfterFork(p, c)
  <1>1. /\ proc[p] \in Process /\ Local(program, config, proc[p]) /\ proc[c].stage = "none"
        /\ pidfile' = pidfile
    BY DEF DInv, Fork, Unused
  <1>2. proc[p].parent = None /\ proc[p].database /\ proc[p].line = Len(config)
        /\ proc[p].line <= Len(config) /\ (proc[p].opened <=> proc[p].handle)
    BY <1>1 DEF Local, Placed, Looping, WithDatabase, Late, Over
  <1>3. Entry \in {"check", "serve"}
    BY DEF Entry
  <1>4. k \in Process /\ r \in Process
    <2>1. Entry \in Stages /\ "write" \in Stages
      BY <1>3 DEF Stages
    <2>2. k \in Process
      BY <1>1, <2>1 DEF Process
    <2>3. r \in Process
      BY <1>1, <2>1 DEF Process, AfterFork
    <2> QED BY <2>2, <2>3
  <1>5. /\ k.line = proc[p].line /\ k.bound = proc[p].bound /\ k.database = proc[p].database
        /\ k.priv = proc[p].priv /\ k.opened = proc[p].opened /\ k.parent = p
        /\ k.stage = Entry /\ k.uid = proc[p].uid /\ k.gid = proc[p].gid
        /\ k.starter = proc[p].starter /\ k.drop = proc[p].drop
    BY <1>1 DEF Process
  <1>6. /\ r.line = proc[p].line /\ r.bound = proc[p].bound /\ r.database = proc[p].database
        /\ r.priv = proc[p].priv /\ r.opened = proc[p].opened /\ r.parent = None
        /\ r.child = c /\ r.handle = proc[p].handle
        /\ r.stage = "write" /\ r.uid = proc[p].uid /\ r.gid = proc[p].gid
        /\ r.starter = proc[p].starter /\ r.drop = proc[p].drop
    BY <1>1, <1>2 DEF Process, AfterFork
  <1>7. proc' = [proc EXCEPT ![c] = k, ![p] = r]
    BY DEF Fork
  <1> HIDE DEF k, r
  <1>8. /\ proc' \in [Pids -> Process] /\ proc'[c] = k /\ proc'[p] = r
        /\ \A x \in Pids : x \notin {p, c} => proc'[x] = proc[x]
    BY <1>4, <1>7 DEF DInv
  <1>9. Local(program, config, k) /\ Local(program, config, r)
    <2>1. Followed(program, config, k) /\ Followed(program, config, r)
      BY <1>1, <1>5, <1>6, SameFollowed DEF Local
    <2>2. Identity(proc[p])
      BY <1>1 DEF Local
    <2>3. Identity(k)
      BY <1>1, <1>3, <1>5, <2>2 DEF Identity, Early, Late
    <2>4. Identity(r)
      BY <1>1, <1>6, <2>2 DEF Identity, Early, Late
    <2>5. Placed(program, config, k)
      BY <1>2, <1>3, <1>5 DEF Placed, Looping, Early, Over
    <2>6. Placed(program, config, r)
      BY <1>2, <1>6 DEF Placed, Over
    <2> QED BY <1>4, <2>1, <2>3, <2>4, <2>5, <2>6 DEF Local
  <1>10. FileOK' /\ pidfile' \in Pids \cup {None}
    BY <1>1 DEF DInv, FileOK
  <1>11. \A x \in Pids : Local(program', config', proc'[x])
    BY <1>8, <1>9 DEF DInv
  <1>12. \A x \in Pids : x \notin {p, c} => proc[x].parent \notin {p, c}
    <2>1. None \notin Pids
      BY DaemonAssumption
    <2> QED BY <1>1, <2>1 DEF DInv, Parents
  <1>13. None \notin Pids
    BY DaemonAssumption
  <1>14. Parents'
    <2>1. SUFFICES ASSUME NEW x \in Pids, proc'[x].parent # None
                   PROVE  LET q == proc'[x].parent
                          IN /\ q \in Pids /\ q # x
                             /\ proc'[q].stage \in {"write", "leave", "exited", "killed"}
                             /\ proc'[q].stage \in {"write", "leave"} => proc'[q].child = x
                             /\ proc'[q].stage = "write" => (proc'[x].opened <=> proc'[q].opened)
      BY DEF Parents
    <2>2. CASE x = c
      BY <1>5, <1>6, <1>8, <2>2
    <2>3. CASE x \notin {p, c}
      <3>1. PICK q : q = proc[x].parent
        OBVIOUS
      <3>2. proc'[x] = proc[x] /\ q \notin {p, c} /\ q # None
        BY <1>8, <1>12, <2>1, <2>3, <3>1
      <3>3. /\ q \in Pids /\ q # x
            /\ proc[q].stage \in {"write", "leave", "exited", "killed"}
            /\ proc[q].stage \in {"write", "leave"} => proc[q].child = x
            /\ proc[q].stage = "write" => (proc[x].opened <=> proc[q].opened)
        BY <3>1, <3>2 DEF DInv, Parents
      <3>4. proc'[q] = proc[q]
        BY <1>8, <3>2, <3>3
      <3> QED BY <3>1, <3>2, <3>3, <3>4
    <2> QED BY <1>6, <1>8, <2>1, <2>2, <2>3
  <1>15. Related'
    <2>1. SUFFICES ASSUME NEW x \in Pids, NEW y \in Pids, x # y,
                          proc'[x].bound \cap proc'[y].bound # {}
                   PROVE  proc'[x].parent = y \/ proc'[y].parent = x
      BY DEF Related
    <2>2. \A z \in Pids : z \notin {p, c} => proc[z].bound \cap proc[p].bound = {}
      BY <1>2, <1>12, <1>13 DEF DInv, Related
    <2>3. CASE x \in {p, c} /\ y \in {p, c}
      BY <1>5, <1>8, <2>1, <2>3
    <2>4. CASE x \notin {p, c} /\ y \notin {p, c}
      BY <1>8, <2>1, <2>4 DEF DInv, Related
    <2>5. CASE x \in {p, c} /\ y \notin {p, c}
      BY <1>5, <1>6, <1>8, <2>1, <2>2, <2>5
    <2>6. CASE x \notin {p, c} /\ y \in {p, c}
      BY <1>5, <1>6, <1>8, <2>1, <2>2, <2>6
    <2> QED BY <2>3, <2>4, <2>5, <2>6
  <1> QED BY <1>8, <1>10, <1>11, <1>14, <1>15 DEF DInv

\* What one step of the daemons does.
LEMMA StepKinds ==
    ASSUME DInv, Next
    PROVE  \E p \in Pids : \/ QuietlyMoves(p) \/ Empties(p) \/ Writes(p)
                           \/ \E c \in Pids \ {p} : proc[p].stage = "detach" /\ Fork(p, c)
  <1>1. PICK p \in Pids : Step(p) \/ Serve(p) \/ Start(p) \/ Signal(p) \/ Crash(p)
    BY DEF Next
  <1>2. CASE Detach(p)
    <2>1. CASE Exit(p)
      BY <1>2, <2>1, Exits DEF Detach
    <2>2. CASE Set(p, [proc[p] EXCEPT !.stage = Entry, !.handle = FALSE]) /\ pidfile' = pidfile
      <3> DEFINE r == [proc[p] EXCEPT !.stage = Entry, !.handle = FALSE]
      <3>1. proc[p] \in Process /\ Local(program, config, proc[p]) /\ proc[p].stage = "detach"
        BY <1>2 DEF DInv, Detach
      <3>2. Entry \in {"check", "serve"}
        BY DEF Entry
      <3>3. r \in Process
        BY <3>1, <3>2 DEF Process, Stages
      <3>4. /\ r.line = proc[p].line /\ r.bound = proc[p].bound /\ r.database = proc[p].database
            /\ r.priv = proc[p].priv /\ r.opened = proc[p].opened /\ r.parent = proc[p].parent
            /\ r.child = proc[p].child /\ r.stage = Entry /\ r.uid = proc[p].uid
            /\ r.gid = proc[p].gid /\ r.starter = proc[p].starter /\ r.drop = proc[p].drop
        BY <3>1 DEF Process
      <3>5. proc' = [proc EXCEPT ![p] = r]
        BY <2>2 DEF Set
      <3> HIDE DEF r
      <3>6. proc[p].parent = None
        BY <3>1 DEF Local, Placed, Looping
      <3>7. Identity(r)
        BY <3>1, <3>2, <3>4 DEF Local, Identity, Early, Late
      <3>8. Placed(program, config, r)
        BY <3>1, <3>2, <3>4, <3>6 DEF Local, Placed, Looping, WithDatabase, Late, Early, Over
      <3> QED BY <2>2, <3>1, <3>3, <3>4, <3>5, <3>6, <3>7, <3>8, GoesOn
    <2> QED BY <1>2, <2>1, <2>2 DEF Detach
  <1>3. CASE ReadLine(p) \/ EndConfig(p) \/ InitializeDatabase(p) \/ InitializeSignals(p)
    BY <1>3, ReadLineMoves, EndConfigMoves, InitializeDatabaseMoves, InitializeSignalsMoves
  <1>4. CASE OpenPidfile(p) \/ DropPrivileges(p) \/ WritePid(p) \/ Leave(p)
    BY <1>4, OpenPidfileMoves, DropPrivilegesMoves, WritePidMoves, LeaveMoves
  <1>5. CASE Check(p) \/ Select(p) \/ Woken(p) \/ Serve(p)
    BY <1>5, LoopMoves
  <1>6. CASE Start(p) \/ Signal(p) \/ Crash(p)
    BY <1>6, StartMoves, SignalMoves, CrashMoves
  <1> QED BY <1>1, <1>2, <1>3, <1>4, <1>5, <1>6 DEF Step

LEMMA Inductive == DInv /\ [Next]_vars => DInv'
  <1>1. SUFFICES ASSUME DInv, [Next]_vars PROVE DInv'
    OBVIOUS
  <1>2. CASE UNCHANGED vars
    BY <1>1, <1>2 DEF vars, DInv, FileOK, Parents, Related
  <1>3. CASE Next
    <2>1. UNCHANGED <<program, config>>
      BY <1>3 DEF Next
    <2>2. PICK p \in Pids : \/ QuietlyMoves(p) \/ Empties(p) \/ Writes(p)
                            \/ \E c \in Pids \ {p} : proc[p].stage = "detach" /\ Fork(p, c)
      BY <1>1, <1>3, StepKinds
    <2>3. proc[p].child \in Pids \cup {None} /\ pidfile \in Pids \cup {None}
      BY <1>1 DEF DInv, Process
    <2>4. CASE QuietlyMoves(p)
      <3>1. PICK r : Moves(p, r) /\ Quiet(p, r)
        BY <2>4 DEF QuietlyMoves
      <3>2. pidfile' \in Pids \cup {None}
        BY <2>3, <3>1 DEF Quiet
      <3> QED BY <1>1, <2>1, <3>1, <3>2, MovesKeep
    <2>5. CASE Empties(p)
      <3>1. pidfile' \in Pids \cup {None} /\ \E r : Moves(p, r)
        BY <2>5 DEF Empties
      <3> QED BY <1>1, <2>1, <3>1, MovesKeep
    <2>6. CASE Writes(p)
      <3>1. pidfile' \in Pids \cup {None} /\ \E r : Moves(p, r)
        BY <2>3, <2>6 DEF Writes
      <3> QED BY <1>1, <2>1, <3>1, MovesKeep
    <2> QED BY <1>1, <2>1, <2>2, <2>4, <2>5, <2>6, ForkKeeps
  <1> QED BY <1>1, <1>2, <1>3

LEMMA Initially == Init => DInv
  <1>1. SUFFICES ASSUME Init PROVE DInv
    OBVIOUS
  <1>2. FileOK
    BY <1>1, DaemonAssumption DEF Init, FileOK
  <1>3. proc = [p \in Pids |-> NoProcess] /\ pidfile = None
    BY <1>1 DEF Init
  <1>4. NoProcess \in Process
    BY DEF NoProcess, Process, Stages, Ids
  <1>5. NoProcess.parent = None /\ NoProcess.bound = {} /\ Local(program, config, NoProcess)
    <2>1. program \in Programs /\ config \in FileOf
      BY <1>2 DEF FileOK, Programs, FileOf
    <2>2. /\ NoProcess.bound = {} /\ NoProcess.line = 0 /\ NoProcess.stage \in Over
          /\ NoProcess.priv.uid = "root" /\ NoProcess.priv.gid = "root"
          /\ ~NoProcess.database /\ ~NoProcess.handle /\ NoProcess.parent = None
      BY DEF NoProcess, Over
    <2> QED BY <1>4, <2>1, <2>2, NothingHeld
  <1> QED BY <1>2, <1>3, <1>4, <1>5 DEF DInv, Parents, Related

LEMMA Always == Spec => []DInv
  BY Initially, Inductive, PTL DEF Spec

\* Processes are what the code makes of them, and one that ended holds no socket
\* and no file.
THEOREM TypeCorrect == Spec => []TypeOK
  <1>1. DInv => TypeOK
    <2>1. SUFFICES ASSUME DInv PROVE TypeOK
      OBVIOUS
    <2>2. ASSUME NEW p \in Pids
          PROVE  /\ proc[p].stage \in Stages
                 /\ {proc[p].uid, proc[p].gid, proc[p].priv.uid, proc[p].priv.gid} \subseteq Ids
                 /\ proc[p].line \in 0 .. Len(config)
                 /\ proc[p].bound \subseteq Addresses
                 /\ {proc[p].parent, proc[p].child} \subseteq Pids \cup {None}
                 /\ ~Alive(p) => proc[p].bound = {} /\ ~proc[p].handle
      <3>1. proc[p] \in Process /\ Placed(program, config, proc[p])
        BY <2>1 DEF DInv, Local
      <3>2. proc[p].line \in 0 .. Len(config)
        <4>1. Len(config) \in Nat /\ proc[p].line \in Nat /\ proc[p].line <= Len(config)
          BY <2>1, <3>1 DEF DInv, FileOK, Placed, Process
        <4> QED BY <4>1
      <3>3. ~Alive(p) => proc[p].bound = {} /\ ~proc[p].handle
        BY <3>1 DEF Placed, Alive, Over
      <3>4. /\ proc[p].stage \in Stages
            /\ {proc[p].uid, proc[p].gid, proc[p].priv.uid, proc[p].priv.gid} \subseteq Ids
            /\ proc[p].bound \subseteq Addresses
            /\ {proc[p].parent, proc[p].child} \subseteq Pids \cup {None}
        BY <3>1 DEF Process
      <3> QED BY <3>2, <3>3, <3>4
    <2> QED BY <2>1, <2>2 DEF TypeOK, DInv
  <1> QED BY <1>1, Always, PTL

\* A daemon in its loop listens for every bind line, has a master database, and
\* when root started it runs as the account and group its configuration names
\* last (main, config_parse, privileges_drop).
THEOREM Serves == Spec => []ServesAsConfigured
  <1>1. DInv => ServesAsConfigured
    <2>1. SUFFICES ASSUME DInv, NEW p \in Pids, proc[p].stage \in Looping
                   PROVE  /\ Listens =>
                               /\ \A i \in Lines({"bind"}) :
                                    \E a \in proc[p].bound :
                                      \E j \in DOMAIN AddressesOf[config[i].param] :
                                        a = AddressesOf[config[i].param][j]
                               /\ Cardinality(proc[p].bound) = Cardinality(Lines({"bind"}))
                          /\ Lines({"database"}) # {}
                          /\ proc[p].starter = "root" /\ proc[p].drop =>
                               /\ proc[p].uid = LastOf({"user"})
                               /\ proc[p].gid = LastOf({"user", "group"})
      BY DEF ServesAsConfigured
    <2>2. /\ Followed(program, config, proc[p]) /\ Identity(proc[p])
          /\ Placed(program, config, proc[p]) /\ config \in FileOf
      BY <2>1 DEF DInv, Local, FileOK, FileOf
    <2>3. /\ proc[p].stage \notin Over \cup {"config"} /\ proc[p].stage \in WithDatabase
          /\ proc[p].stage \in Late
      BY <2>1 DEF Looping, Over, WithDatabase, Late
    <2>4. proc[p].line = Len(config) /\ proc[p].database
      BY <2>2, <2>3 DEF Placed
    <2>5. /\ LinesTo(config, {"bind"}, proc[p].line) = Lines({"bind"})
          /\ LinesTo(config, {"database"}, proc[p].line) = Lines({"database"})
          /\ LastTo(config, {"user"}, proc[p].line) = LastOf({"user"})
          /\ LastTo(config, {"user", "group"}, proc[p].line) = LastOf({"user", "group"})
      BY <2>2, <2>4, AllLines
    <2>6. Lines({"database"}) # {}
      BY <2>2, <2>4, <2>5 DEF Followed
    <2>7. proc[p].starter = "root" /\ proc[p].drop =>
            proc[p].uid = LastOf({"user"}) /\ proc[p].gid = LastOf({"user", "group"})
      BY <2>2, <2>3, <2>5 DEF Followed, Identity
    <2>8. ASSUME Listens
          PROVE  /\ \A i \in Lines({"bind"}) :
                      \E a \in proc[p].bound : \E j \in DOMAIN AddressesOf[config[i].param] :
                        a = AddressesOf[config[i].param][j]
                 /\ Cardinality(proc[p].bound) = Cardinality(Lines({"bind"}))
      <3>1. /\ \A i \in Lines({"bind"}) : proc[p].bound \cap AddressesAt(config, i) # {}
            /\ Cardinality(proc[p].bound) = Cardinality(Lines({"bind"}))
        BY <2>2, <2>5, <2>8 DEF Followed, Bound, Listens
      <3> QED BY <3>1 DEF AddressesAt
    <2> QED BY <2>6, <2>7, <2>8
  <1> QED BY <1>1, Always, PTL

\* All daemons that have read their configuration have the one address of such a line.
LEMMA SharedAddress ==
    ASSUME DInv, Listens, Exclusive, NEW p \in Pids, NEW q \in Pids, p # q,
           proc[p].stage \notin Over \cup {"config"}, proc[q].stage \notin Over \cup {"config"}
    PROVE  proc[p].parent = q \/ proc[q].parent = p
  <1>1. PICK i \in Lines({"bind"}) : Len(AddressesOf[config[i].param]) = 1
    BY DEF Exclusive
  <1>2. config \in FileOf /\ i \in DOMAIN config /\ config[i].directive = "bind"
    BY <1>1 DEF DInv, FileOK, FileOf, Lines
  <1>3. AddressesOf[config[i].param] \in Seq(STRING)
    <2>1. config[i].param \in DOMAIN AddressesOf
      BY <1>2 DEF DInv, FileOK
    <2> QED BY <2>1, DaemonAssumption
  <1>4. AddressesAt(config, i) = {AddressesOf[config[i].param][1]}
    <2>1. DOMAIN AddressesOf[config[i].param] = 1 .. 1
      BY <1>1, <1>3
    <2>2. \A j : j \in 1 .. 1 <=> j = 1
      OBVIOUS
    <2> QED BY <2>1, <2>2 DEF AddressesAt
  <1>5. ASSUME NEW x \in Pids, proc[x].stage \notin Over \cup {"config"}
        PROVE  AddressesOf[config[i].param][1] \in proc[x].bound
    <2>1. proc[x].line = Len(config) /\ Bound(program, config, proc[x])
      BY <1>5 DEF DInv, Local, Placed, Followed
    <2>2. i \in LinesTo(config, {"bind"}, proc[x].line)
      BY <1>1, <1>2, <2>1, AllLines
    <2>3. proc[x].bound \cap AddressesAt(config, i) # {}
      BY <2>1, <2>2 DEF Bound, Listens
    <2> QED BY <1>4, <2>3
  <1>6. proc[p].bound \cap proc[q].bound # {}
    BY <1>5
  <1> QED BY <1>6 DEF DInv, Related

LEMMA PidfileStep == DInv /\ PidfileNamesServer /\ [Next]_vars => PidfileNamesServer'
  <1>1. SUFFICES ASSUME DInv, PidfileNamesServer, [Next]_vars PROVE PidfileNamesServer'
    OBVIOUS
  <1>2. CASE UNCHANGED vars
    BY <1>1, <1>2 DEF vars, PidfileNamesServer, Exclusive, Lines, Listens
  <1>3. CASE Next
    <2>1. program' = program /\ config' = config
      BY <1>3 DEF Next
    <2>2. (Exclusive' <=> Exclusive) /\ (Listens' <=> Listens)
      BY <2>1 DEF Exclusive, Lines, Listens
    <2>3. SUFFICES ASSUME Listens, Exclusive, NEW x \in Pids, proc'[x].stage \in Looping,
                          proc'[x].opened, proc'[x].parent # None,
                          proc'[proc'[x].parent].stage \in {"leave", "exited"}
                   PROVE  pidfile' = x
      BY <2>2 DEF PidfileNamesServer
    <2>4. PICK q : q = proc'[x].parent
      OBVIOUS
    <2>5. DInv'
      BY <1>1, Inductive
    <2>6. q \in Pids /\ q # x /\ q # None
      BY <2>3, <2>4, <2>5 DEF DInv, Parents
    <2>7. PICK p \in Pids : \/ QuietlyMoves(p) \/ Empties(p) \/ Writes(p)
                            \/ \E c \in Pids \ {p} : proc[p].stage = "detach" /\ Fork(p, c)
      BY <1>1, <1>3, StepKinds
    <2>8. ASSUME NEW r, Moves(p, r), r.stage \in Looping /\ r.parent # None => proc[p].stage \in Looping
          PROVE  /\ proc[x].stage \in Looping /\ proc[x].opened /\ proc[x].parent = q
                 /\ p = q => proc'[q] = r
                 /\ p # q => proc'[q] = proc[q]
                 /\ proc[q].stage \in {"write", "leave", "exited", "killed"}
                 /\ proc[q].stage = "write" => proc[q].child = x /\ proc[q].opened
      <3>1. /\ Family(p, r)
            /\ proc'[p] = r /\ \A z \in Pids : z # p => proc'[z] = proc[z]
        BY <1>1, <2>8 DEF Moves, DInv
      <3>2. proc[x].stage \in Looping /\ proc[x].opened /\ proc[x].parent = q
        <4>1. CASE x = p
          BY <2>3, <2>4, <2>8, <3>1, <4>1 DEF Family
        <4>2. CASE x # p
          BY <2>3, <2>4, <3>1, <4>2
        <4> QED BY <4>1, <4>2
      <3>3. /\ proc[q].stage \in {"write", "leave", "exited", "killed"}
            /\ proc[q].stage = "write" => proc[q].child = x /\ proc[q].opened
        BY <1>1, <2>6, <3>2 DEF DInv, Parents
      <3> QED BY <2>6, <3>1, <3>2, <3>3
    <2>9. CASE QuietlyMoves(p)
      <3>1. PICK r : Moves(p, r) /\ Quiet(p, r)
        BY <2>9 DEF QuietlyMoves
      <3>2. r.stage \in Looping /\ r.parent # None => proc[p].stage \in Looping
        BY <2>3, <3>1 DEF Quiet
      <3>3. /\ proc[x].stage \in Looping /\ proc[x].opened /\ proc[x].parent = q
            /\ p = q => proc'[q] = r
            /\ p # q => proc'[q] = proc[q]
            /\ proc[q].stage \in {"write", "leave", "exited", "killed"}
        BY <2>8, <3>1, <3>2
      <3>4. proc[q].stage \in {"leave", "exited"}
        BY <2>3, <2>4, <3>1, <3>3 DEF Quiet
      <3> QED BY <1>1, <2>3, <2>6, <3>1, <3>3, <3>4 DEF PidfileNamesServer, Quiet
    <2>10. CASE Empties(p)
      <3>1. PICK r : Moves(p, r) /\ r.stage = "privileges" /\ r.parent = None
        BY <2>10 DEF Empties
      <3>2. proc[x].stage \in Looping /\ proc[x].parent = q
            /\ proc[q].stage \in {"write", "leave", "exited", "killed"}
        BY <2>8, <3>1 DEF Looping
      <3>3. proc[p].stage = "pidfile" /\ p # x /\ proc[p].parent = None
        <4>1. proc[p].stage = "pidfile"
          BY <2>10 DEF Empties
        <4>2. Placed(program, config, proc[p])
          BY <1>1 DEF DInv, Local
        <4> QED BY <3>2, <4>1, <4>2 DEF Placed, Looping
      <3>4. proc[x].parent = p \/ proc[p].parent = x
        BY <1>1, <2>3, <3>2, <3>3, SharedAddress DEF Looping, Over
      <3>5. None \notin Pids
        BY DaemonAssumption
      <3> QED BY <3>2, <3>3, <3>4, <3>5
    <2>11. CASE Writes(p)
      <3>1. PICK r : Moves(p, r) /\ r.stage = "leave" /\ r.parent = None
        BY <2>11 DEF Writes
      <3>2. /\ proc[x].stage \in Looping /\ proc[x].parent = q
            /\ proc[q].stage = "write" => proc[q].child = x /\ proc[q].opened
        BY <2>8, <3>1 DEF Looping
      <3>3. proc[p].stage = "write" /\ p # x /\ proc[p].parent = None
            /\ (proc[p].opened <=> proc[p].handle)
        <4>1. proc[p].stage = "write"
          BY <2>11 DEF Writes
        <4>2. Placed(program, config, proc[p])
          BY <1>1 DEF DInv, Local
        <4> QED BY <3>2, <4>1, <4>2 DEF Placed, Looping
      <3>4. proc[x].parent = p \/ proc[p].parent = x
        BY <1>1, <2>3, <3>2, <3>3, SharedAddress DEF Looping, Over
      <3>5. None \notin Pids
        BY DaemonAssumption
      <3>6. proc[p].child = x /\ proc[p].handle
        BY <3>2, <3>3, <3>4, <3>5
      <3> QED BY <2>11, <3>6 DEF Writes
    <2>12. ASSUME NEW c \in Pids \ {p}, proc[p].stage = "detach", Fork(p, c)
           PROVE  pidfile' = x
      <3>1. /\ \A z \in Pids : z \notin {p, c} => proc'[z] = proc[z]
            /\ proc'[p].stage = "write" /\ proc'[c].parent = p /\ proc'[p].parent = None
            /\ pidfile' = pidfile /\ proc[c].stage = "none"
        <4>1. proc[p] \in Process /\ proc[p].parent = None
          BY <1>1, <2>12 DEF DInv, Local, Placed, Looping
        <4>2. pidfile' = pidfile /\ proc[c].stage = "none"
          BY <2>12 DEF Fork, Unused
        <4> QED BY <1>1, <2>12, <4>1, <4>2 DEF Fork, AfterFork, DInv, Process
      <3>2. x \notin {p, c}
        BY <2>3, <2>4, <3>1
      <3>3. proc[x] = proc'[x]
        BY <3>1, <3>2
      <3>4. q \notin {p, c}
        BY <1>1, <2>3, <2>4, <2>6, <2>12, <3>1, <3>3 DEF DInv, Parents
      <3>5. proc[q] = proc'[q]
        BY <2>6, <3>1, <3>4
      <3> QED BY <1>1, <2>3, <2>4, <3>1, <3>3, <3>5 DEF PidfileNamesServer
    <2> QED BY <2>7, <2>9, <2>10, <2>11, <2>12
  <1> QED BY <1>1, <1>2, <1>3

\* Once its parent is done, the pidfile names the daemon that serves: a second
\* start ends at a bind line, before it can open the pidfile, and the parent keeps
\* the sockets until it has written (smtpd.c, daemonize).
THEOREM PidfileRight == Spec => []PidfileNamesServer
  <1>1. Init => PidfileNamesServer
    BY DEF Init, PidfileNamesServer, NoProcess, Looping
  <1> QED BY <1>1, PidfileStep, Always, PTL DEF Spec
===============================================================================
