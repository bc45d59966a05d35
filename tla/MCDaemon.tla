------------------------------- MODULE MCDaemon -------------------------------
(* Instances of Daemon for TLC. *)
EXTENDS Daemon

L(d, x) == [directive |-> d, param |-> x]

MCAddressesOf == [one |-> <<"a1">>, two |-> <<"a2">>, both |-> <<"a1", "a2">>]

Of(ps, c) == [program : ps, config : {c}]

\* Two sockets, detached; a host with two addresses that is bound last, and the
\* group before the user; the sender of mails; and files that config_line or main
\* refuses.
MCInstallations ==
    Of({"smtpd"}, <<L("bind", "one"), L("bind", "two"), L("user", "mail"), L("group", "post"),
                    L("database", "db"), L("logfile", "log"), L("pidfile", "pid")>>)
    \cup Of({"popd"}, <<L("pidfile", "pid"), L("database", "db"), L("bind", "both"),
                        L("group", "post"), L("user", "mail")>>)
    \cup Of({"dispatchd"}, <<L("database", "db"), L("logfile", "log"), L("pidfile", "pid")>>)
    \cup Of({"smtpd"}, <<L("bind", "one"), L("user", "nobody")>>)
    \cup Of({"popd"}, <<L("user", "mail"), L("pidfile", "pid")>>)
    \cup Of({"smtpd"}, <<L("pidfile", "pid"), L("pidfile", "pid")>>)
    \cup Of({"dispatchd"}, <<L("databank", "db")>>)

MCMaxAlive == [smtpd |-> 3, popd |-> 2, dispatchd |-> 2]

O(d, f, o) == [drop |-> d, detach |-> f, once |-> o]

MCOptions == {O(TRUE, TRUE, FALSE), O(FALSE, FALSE, TRUE)}
===============================================================================
