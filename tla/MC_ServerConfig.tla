-------------------------- MODULE MC_ServerConfig --------------------------
(* ServerConfig with two handlers that edit different sections.            *)
EXTENDS ServerConfig, TLC

CONSTANTS wake, instr, e1, e2

MCTouches == (e1 :> {wake}) @@ (e2 :> {instr})
=============================================================================
