--------------------------- MODULE MC_StatusTurns ---------------------------
(* StatusTurns with two turns in two rooms, and a session of each room.    *)
EXTENDS StatusTurns

CONSTANTS t1, t2, s1, s2, r1, r2

MCRoomOf   == [t \in Triggers |-> IF t = t1 THEN r1 ELSE r2]
MCHomeRoom == [s \in Sessions |-> IF s = s1 THEN r1 ELSE r2]
=============================================================================
