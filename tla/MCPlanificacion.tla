-------------------------- MODULE MCPlanificacion --------------------------
(* The instances of Planificacion that TLC checks. *)
EXTENDS Planificacion, TLC

Simetria == Permutations(Procesos)

\* nobody leaves
Ninguna == {}

\* a carpincho is killed, wherever it is
Cualquiera == Listas \ {"exit"}
=============================================================================
