---------------------------- MODULE MCSmtpSession ----------------------------
(***************************************************************************)
(* Instances of SmtpSession for TLC.  The users are u to x; the addresses  *)
(* are one that is stored for u (local), one that is redirected (moved),   *)
(* one that is handed off without an argument (bare), one that is rejected *)
(* (closed), one that is dropped (hole), one elsewhere (remote) and one    *)
(* elsewhere without a domain (nowhere).                                   *)
(***************************************************************************)
EXTENDS SmtpSession

CONSTANTS u, v, w, x, local, moved, bare, closed, hole, remote, nowhere

MCOneUser == {u}
MCUsers == {u, v, w, x}

MCKept == {local, moved, bare, hole}
MCRefused == {local, closed, remote, nowhere}
MCOneAddr == {local}

MCRouterOf(a) ==
    CASE a = local -> "store" [] a = moved -> "redirect" [] a = bare -> "handoff"
      [] a = closed -> "reject" [] a = hole -> "drop" [] OTHER -> "none"
MCInRouter == [a \in Addrs |-> MCRouterOf(a)]
MCBare == {bare} \cap Addrs
MCStoreUsers == [a \in Addrs |-> IF a = local THEN {u} ELSE {}]
MCHasDomain == Addrs \ {nowhere}

MCNobody == {}

\* What users may send: u from where mail is stored for u, v from anywhere,
\* w hands everything off, what x sends is dropped.
MCOutRouter == [user \in Users |->
    CASE user = u -> "defined" [] user = v -> "any" [] user = w -> "handoff"
      [] OTHER -> "drop"]

\* The second failed command kicks the client.
MCFailLimit == -1
==============================================================================
