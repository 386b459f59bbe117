---------------------------- MODULE CicloDeVida ----------------------------
(***************************************************************************)
(* What the scheduler of the kernel promises of a carpincho, whatever the  *)
(* seven lists, the flags and the counters do inside: at any time it is in *)
(* one state of the life cycle, it moves along the edges of the diagram of *)
(* states only, and no more carpinchos run than the configuration allows.  *)
(* Planificacion implements this specification.                            *)
(***************************************************************************)
EXTENDS Integers, FiniteSets

CONSTANTS Procesos, \* the carpinchos
          Grado     \* GRADO_MULTIPROCESAMIENTO

VARIABLE estado     \* the state of every carpincho

\* "fuera": not connected yet.  The others are the values of t_status
\* (S_READY, which the code writes as READY, has a list of its own).
Estados == {"fuera", "new", "ready", "exec", "blocked",
            "s_blocked", "s_ready", "exit"}

Transiciones ==
  {<<"fuera", "new">>, <<"new", "ready">>, <<"ready", "exec">>,
   <<"exec", "blocked">>, <<"blocked", "ready">>,
   <<"blocked", "s_blocked">>, <<"s_blocked", "s_ready">>,
   <<"s_ready", "ready">>}
  \cup ((Estados \ {"fuera", "exit"}) \X {"exit"})

EnEjecucion == {p \in Procesos : estado[p] = "exec"}

Init == estado = [p \in Procesos |-> "fuera"]

Siguientes(e) == {s \in Estados : <<e, s>> \in Transiciones}

Cambia(p, s) == /\ s = "exec" => Cardinality(EnEjecucion) < Grado
                /\ estado' = [estado EXCEPT ![p] = s]

Next == \E p \in Procesos : \E s \in Siguientes(estado[p]) : Cambia(p, s)

Spec == Init /\ [][Next]_estado
=============================================================================
