----------------------------- MODULE MCLogLines -----------------------------
(***************************************************************************)
(* Writers for TLC: a console writer of any width, and two for syslog.     *)
(***************************************************************************)
EXTENDS LogLines

CONSTANTS c1, s1, s2

MCConfigured == [w \in Writers |-> IF w = c1 THEN 0 .. MaxWidth ELSE {3}]
=============================================================================
