-------------------------------- MODULE MCHost --------------------------------
(***************************************************************************)
(* Instances of UserDatabases for TLC: two users, two user databases, one  *)
(* exact address and one pattern that matches every address.               *)
(***************************************************************************)
EXTENDS UserDatabases

CONSTANTS alice, bob, f1, f2, exact, any, p1, p2

MCUsers == {alice, bob}
MCFiles == {f1, f2}
MCExprs == {exact, any}
MCPaths == {p1, p2}
MCRights ==
    {[table |-> "popd", user |-> bob, arg |-> None],
     [table |-> "smtpd", user |-> alice, arg |-> "any"],
     [table |-> "api_user_delegates", user |-> alice, arg |-> bob],
     [table |-> "api_access", user |-> bob, arg |-> "admin"]}
MCAddrs ==
    [o \in {1, 2, 3} |-> CASE o = 1 -> [expr |-> any, user |-> alice]
                          [] o = 2 -> [expr |-> exact, user |-> bob]
                          [] o = 3 -> None]
MCMatches == [p \in MCPaths |-> IF p = p1 THEN {exact, any} ELSE {any}]
===============================================================================
