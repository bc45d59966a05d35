------------------------------ MODULE MCSmtpLoop ------------------------------
(***************************************************************************)
(* An instance of SmtpLoop for TLC: two clients, who may log in as u and   *)
(* send mail that is stored for u, share a pool of two paths.              *)
(***************************************************************************)
EXTENDS SmtpLoop

CONSTANTS u, local

MCUsers == {u}
MCAddrs == {local}
MCInRouter == [a \in Addrs |-> "store"]
MCStoreUsers == [a \in Addrs |-> {u}]
MCOutRouter == [x \in Users |-> "defined"]
MCNobody == {}
\* The second failed command kicks the client.
MCFailLimit == -1
===============================================================================
