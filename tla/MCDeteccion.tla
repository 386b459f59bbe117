---------------------------- MODULE MCDeteccion ----------------------------
(* The instances of DeteccionDeadlock that TLC checks. *)
EXTENDS DeteccionDeadlock, TLC

CONSTANTS SEM1, SEM2, SEM3, p1, p2, p3, p4, p5

SoloIguales == {<<n, n>> : n \in Nombres}

\* two semaphores of value 1, used as mutexes; all but one may leave
Mutex == {[valor |-> 1, creados |-> <<SEM1, SEM2>>,
           operaciones |-> {"wait", "post"}, disciplinados |-> TRUE,
           salidas |-> Cardinality(Procesos) - 1, recursos |-> 4]}

\* three, and nobody has posted yet
SoloWaits == {[valor |-> 1, creados |-> <<SEM1, SEM2, SEM3>>,
               operaciones |-> {"wait"}, disciplinados |-> TRUE,
               salidas |-> 0, recursos |-> 3]}

\* deadlocks of two with others waiting, and of three
Cadenas == Mutex \cup SoloWaits

\* the numbers of the carpinchos; without exits they make no difference
Numero == [p \in Procesos |-> CASE p = p1 -> 1 [] p = p2 -> 2 [] p = p3 -> 3
                                 [] p = p4 -> 4 [] p = p5 -> 5]

Simetria == Permutations(Procesos)
=============================================================================
