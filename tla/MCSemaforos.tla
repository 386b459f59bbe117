---------------------------- MODULE MCSemaforos ----------------------------
(* The instances of Semaforos that TLC checks. *)
EXTENDS Semaforos, TLC

Simetria == Permutations(Procesos)

SoloIguales == {<<n, n>> : n \in Nombres}

Todas == {"init", "wait", "post", "destroy"}

\* anything, for semaphores without a unit, with an exit
Libres == [valor |-> 0, creados |-> <<>>, operaciones |-> Todas,
           disciplinados |-> FALSE, salidas |-> 1, recursos |-> 2]
\* semaphores of value 1, used as mutexes
Mutex  == [valor |-> 1, creados |-> <<>>, operaciones |-> Todas \ {"destroy"},
           disciplinados |-> TRUE, salidas |-> 1, recursos |-> 3]

Ambos == {Libres, Mutex}
=============================================================================
