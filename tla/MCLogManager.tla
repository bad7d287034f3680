---------------------------- MODULE MCLogManager ----------------------------
(***************************************************************************)
(* Instances of LogManager for TLC: writers that answer level() in every   *)
(* way two levels and two loggers tell apart.                              *)
(***************************************************************************)
EXTENDS LogManager

CONSTANTS w1, w2, l1, l2

\* w1 wants less from l1 than from l2; w2 wants everything from l1 and is not
\* interested in l2.
MCLevelOf == [w \in Writers |->
               IF w = w1 THEN [l \in Loggers |-> IF l = l1 THEN 0 ELSE DEBUG]
                         ELSE [l \in Loggers |-> IF l = l1 THEN DEBUG ELSE NoLevel]]
=============================================================================
