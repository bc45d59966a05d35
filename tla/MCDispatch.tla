------------------------------ MODULE MCDispatch ------------------------------
(***************************************************************************)
(* Instances of Dispatch for TLC: a mail m1 of alice and m2, m3 of bob,    *)
(* for the domain d1; senders live in d2 or d3, h is a handoff server.     *)
(* m2 and m3 are one transaction.                                          *)
(***************************************************************************)
EXTENDS Dispatch, TLC

CONSTANTS m1, m2, m3, alice, bob, d1, d2, d3, h

MCAddresses == {alice, bob}
MCTwo == {m1, m2}
MCPair == {m2, m3}
\* m2 and m3 differ in nothing.
MCSame == Permutations(MCPair)

MCSender == [m \in Mails |-> IF m = m1 THEN alice ELSE bob]
MCRemote == [m \in Mails |-> d1]
MCHanded == [m \in Mails |-> h]
MCLetter == [m \in Mails |-> IF m = m1 THEN 1 ELSE 2]

MCNoCopy == <<>>
MCHandoffs == {h}
MCDomains == {d1, d2}
MCUnnamed == {d2}
MCHomeless == [x \in MCAddresses |-> d2]
\* a notice to alice can be delivered, one to bob cannot
MCHalfHome == [x \in MCAddresses |-> IF x = alice THEN d3 ELSE d2]
MCHandedOver == {d2, d3, h}
===============================================================================
