------------------------------ MODULE MC_WakeGate ------------------------------
(* WakeGate with the symmetry of its agents.                               *)
EXTENDS WakeGate

AgentSymmetry == Permutations(Agents)
=============================================================================
