---------------------------- MODULE AvisarCambio ----------------------------
(***************************************************************************)
(* The round by which the kernel tells every carpincho's thread that the   *)
(* lists changed: avisar_cambio, run by whoever moves a carpincho, and     *)
(* proceso, the thread of each carpincho, which looks at its new status,   *)
(* starts an exec thread when it is EXEC, and ends when it is EXIT.        *)
(*                                                                         *)
(* Three semaphores make the round: one post of actualizacion_de_listas_1  *)
(* for each carpincho, as many answers in ..._1_recibido, and one post of  *)
(* actualizacion_de_listas_2 for each to come back to the start.           *)
(*                                                                         *)
(* All the threads that move carpinchos under mutex_listas are one actor,  *)
(* "listas"; the medium term planner takes no mutex_listas and is another. *)
(***************************************************************************)
EXTENDS Integers, FiniteSets

CONSTANTS
  Procesos,   \* the carpinchos
  Escenarios  \* bounds: how often the medium term planner suspends, and how
              \* many carpinchos exit

ASSUME ConstantesOK ==
  Escenarios \subseteq [suspensiones : Nat, salidas : Nat]

VARIABLES
  escenario,        \* the one of this behaviour
  status,           \* the status of the struct t_proceso
  prev_status,      \* what the thread of the carpincho remembers of it
  hilo,             \* where that thread stands
  pendiente,        \* moved to EXEC and without an exec thread yet
  cantidad_de_procesos,
  actualizacion_de_listas_1,          \* the three semaphores
  actualizacion_de_listas_1_recibido,
  actualizacion_de_listas_2,
  mutex_cant_procesos, \* who holds it
  aviso,            \* where each actor stands in avisar_cambio
  interrumpida,     \* history: cantidad_de_procesos changed in a round
  suspensiones      \* history: how many there were

carpinchos == <<status, prev_status, hilo, pendiente>>
semaforos  == <<actualizacion_de_listas_1, actualizacion_de_listas_1_recibido,
                actualizacion_de_listas_2>>
cantidad   == <<cantidad_de_procesos, interrumpida>>
cambian == <<carpinchos, semaforos, cantidad, mutex_cant_procesos, aviso>>
vars == <<escenario, suspensiones, cambian>>

Actores == {"listas", "mediano"}

Estados == {"NEW", "READY", "EXEC", "BLOCKED", "S_BLOCKED", "EXIT"}

\* the moves under mutex_listas; S_READY has the status READY
Movidas == {<<"NEW", "READY">>, <<"READY", "READY">>, <<"READY", "EXEC">>,
            <<"EXEC", "BLOCKED">>, <<"BLOCKED", "READY">>,
            <<"S_BLOCKED", "READY">>}

Listo == [pc |-> "listo"]

Init ==
  /\ escenario \in Escenarios
  /\ status = [p \in Procesos |-> "NEW"]
  /\ prev_status = [p \in Procesos |-> "ninguno"]
  /\ hilo = [p \in Procesos |-> "sin_crear"]
  /\ pendiente = {}
  /\ cantidad_de_procesos = 0
  /\ actualizacion_de_listas_1 = 0
  /\ actualizacion_de_listas_1_recibido = 0
  /\ actualizacion_de_listas_2 = 0
  /\ mutex_cant_procesos = "libre"
  /\ aviso = [h \in Actores |-> Listo]
  /\ interrumpida = FALSE /\ suspensiones = 0
-----------------------------------------------------------------------------
(* The moves, each of which ends in one round or more *)

Vivos == {p \in Procesos : hilo[p] # "sin_crear" /\ status[p] # "EXIT"}

Salieron == {p \in Procesos : status[p] = "EXIT"}

CambiaCantidad(n) ==
  /\ cantidad_de_procesos' = cantidad_de_procesos + n
  /\ interrumpida' = (interrumpida \/ mutex_cant_procesos # "libre")

Empieza(h, rondas) ==
  /\ aviso[h] = Listo
  /\ aviso' = [aviso EXCEPT ![h] = [pc |-> "toma", rondas |-> rondas]]

\* nuevo_carpincho creates the thread, and the move to NEW counts it
Nuevo(p) ==
  /\ Empieza("listas", 1)
  /\ hilo[p] = "sin_crear"
  /\ hilo' = [hilo EXCEPT ![p] = "espera_1"]
  /\ CambiaCantidad(1)
  /\ UNCHANGED <<status, prev_status, pendiente, semaforos,
                 mutex_cant_procesos>>

\* mover_proceso_de_lista by a thread that holds mutex_listas; only the exec
\* thread of a carpincho asks to block it
Mueve(p, destino) ==
  /\ Empieza("listas", 1)
  /\ p \in Vivos
  /\ <<status[p], destino>> \in Movidas
  /\ destino = "BLOCKED" => p \notin pendiente
  /\ status' = [status EXCEPT ![p] = destino]
  /\ pendiente' = IF destino = "EXEC" THEN pendiente \cup {p} ELSE pendiente
  /\ UNCHANGED <<prev_status, hilo, semaforos, cantidad,
                 mutex_cant_procesos>>

\* hilo_salida_a_exit: the move to EXIT makes two rounds, and the exit ends
\* with a third
Sale(p) ==
  /\ Empieza("listas", 3)
  /\ p \in Vivos
  /\ Cardinality(Salieron) < escenario.salidas
  /\ status' = [status EXCEPT ![p] = "EXIT"]
  /\ pendiente' = pendiente \ {p}
  /\ UNCHANGED <<prev_status, hilo, semaforos, cantidad,
                 mutex_cant_procesos>>

\* planificador_mediano_plazo suspends without mutex_listas
Suspende(p) ==
  /\ suspensiones < escenario.suspensiones
  /\ Empieza("mediano", 1)
  /\ p \in Vivos /\ status[p] = "BLOCKED"
  /\ status' = [status EXCEPT ![p] = "S_BLOCKED"]
  /\ UNCHANGED <<prev_status, hilo, pendiente, semaforos,
                 cantidad, mutex_cant_procesos>>
-----------------------------------------------------------------------------
(* avisar_cambio, whose three loops read cantidad_de_procesos each time *)

TomaMutex(h) ==
  /\ aviso[h].pc = "toma"
  /\ mutex_cant_procesos = "libre"
  /\ mutex_cant_procesos' = h
  /\ aviso' = [aviso EXCEPT ![h] =
                 [pc |-> "avisa", i |-> 0, rondas |-> @.rondas]]
  /\ UNCHANGED <<carpinchos, semaforos, cantidad>>

Sigue(h) == aviso' = [aviso EXCEPT ![h].i = @ + 1]

PasaA(h, pc) == aviso' = [aviso EXCEPT ![h].pc = pc, ![h].i = 0]

\* one post for each carpincho
Avisa(h) ==
  /\ aviso[h].pc = "avisa"
  /\ IF aviso[h].i < cantidad_de_procesos
     THEN /\ actualizacion_de_listas_1' = actualizacion_de_listas_1 + 1
          /\ Sigue(h)
     ELSE /\ PasaA(h, "recibe")
          /\ UNCHANGED actualizacion_de_listas_1
  /\ UNCHANGED <<carpinchos, actualizacion_de_listas_1_recibido,
                 actualizacion_de_listas_2, cantidad,
                 mutex_cant_procesos>>

\* mutant: it waits for one answer less
RecibeMenosUno(h) ==
  /\ aviso[h].pc = "recibe"
  /\ IF aviso[h].i < cantidad_de_procesos - 1
     THEN /\ actualizacion_de_listas_1_recibido > 0
          /\ actualizacion_de_listas_1_recibido' =
               actualizacion_de_listas_1_recibido - 1
          /\ Sigue(h)
     ELSE /\ PasaA(h, "libera")
          /\ UNCHANGED actualizacion_de_listas_1_recibido
  /\ UNCHANGED <<carpinchos, actualizacion_de_listas_1,
                 actualizacion_de_listas_2, cantidad,
                 mutex_cant_procesos>>

\* one answer from each
Recibe(h) ==
  /\ aviso[h].pc = "recibe"
  /\ IF aviso[h].i < cantidad_de_procesos
     THEN /\ actualizacion_de_listas_1_recibido > 0
          /\ actualizacion_de_listas_1_recibido' =
               actualizacion_de_listas_1_recibido - 1
          /\ Sigue(h)
     ELSE /\ PasaA(h, "libera")
          /\ UNCHANGED actualizacion_de_listas_1_recibido
  /\ UNCHANGED <<carpinchos, actualizacion_de_listas_1,
                 actualizacion_de_listas_2, cantidad,
                 mutex_cant_procesos>>

\* mutant: the last of them is left without its post
LiberaMenosUno(h) ==
  /\ aviso[h].pc = "libera"
  /\ aviso[h].i < cantidad_de_procesos
  /\ actualizacion_de_listas_2' =
       actualizacion_de_listas_2
       + (IF aviso[h].i + 1 < cantidad_de_procesos THEN 1 ELSE 0)
  /\ Sigue(h)
  /\ UNCHANGED <<carpinchos, actualizacion_de_listas_1,
                 actualizacion_de_listas_1_recibido, cantidad,
                 mutex_cant_procesos>>

\* one post for each to come back
Libera(h) ==
  /\ aviso[h].pc = "libera"
  /\ aviso[h].i < cantidad_de_procesos
  /\ actualizacion_de_listas_2' = actualizacion_de_listas_2 + 1
  /\ Sigue(h)
  /\ UNCHANGED <<carpinchos, actualizacion_de_listas_1,
                 actualizacion_de_listas_1_recibido, cantidad,
                 mutex_cant_procesos>>

\* the end of the round
Termina(h) ==
  /\ aviso[h].pc = "libera"
  /\ aviso[h].i >= cantidad_de_procesos
  /\ mutex_cant_procesos' = "libre"
  /\ aviso' = [aviso EXCEPT ![h] =
                 IF @.rondas = 1 THEN Listo
                 ELSE [pc |-> IF @.rondas = 3 THEN "resta" ELSE "toma",
                       rondas |-> @.rondas - 1]]
  /\ UNCHANGED <<carpinchos, semaforos, cantidad>>

\* after the first round of an exit the carpincho is no longer counted; this
\* takes no mutex_cant_procesos
Resta(h) ==
  /\ aviso[h].pc = "resta"
  /\ CambiaCantidad(-1)
  /\ aviso' = [aviso EXCEPT ![h].pc = "toma"]
  /\ UNCHANGED <<carpinchos, semaforos, mutex_cant_procesos>>
-----------------------------------------------------------------------------
(* proceso, the thread of a carpincho *)

\* mutant: the thread does not wait for the notice
DespiertaHiloSinEsperar(p) ==
  /\ hilo[p] = "espera_1"
  /\ actualizacion_de_listas_1' = actualizacion_de_listas_1 - 1
  /\ hilo' = [hilo EXCEPT ![p] = "mira"]
  /\ UNCHANGED <<status, prev_status, pendiente,
                 actualizacion_de_listas_1_recibido, actualizacion_de_listas_2,
                 cantidad, mutex_cant_procesos, aviso>>

DespiertaHilo(p) ==
  /\ hilo[p] = "espera_1"
  /\ actualizacion_de_listas_1 > 0
  /\ actualizacion_de_listas_1' = actualizacion_de_listas_1 - 1
  /\ hilo' = [hilo EXCEPT ![p] = "mira"]
  /\ UNCHANGED <<status, prev_status, pendiente,
                 actualizacion_de_listas_1_recibido, actualizacion_de_listas_2,
                 cantidad, mutex_cant_procesos, aviso>>

Responde(p, siguiente) ==
  /\ actualizacion_de_listas_1_recibido' =
       actualizacion_de_listas_1_recibido + 1
  /\ hilo' = [hilo EXCEPT ![p] = siguiente]

\* the switch on the status, when it is not the one it remembers: with EXEC
\* it creates the exec thread, with EXIT it answers and goes to its end
Mira(p) ==
  /\ hilo[p] = "mira"
  /\ \/ /\ prev_status[p] = status[p]
        /\ Responde(p, "espera_2")
        /\ UNCHANGED pendiente
     \/ /\ prev_status[p] # status[p] /\ status[p] = "EXIT"
        /\ Responde(p, "espera_2_final")
        /\ UNCHANGED pendiente
     \/ /\ prev_status[p] # status[p] /\ status[p] # "EXIT"
        /\ pendiente' = IF status[p] = "EXEC" THEN pendiente \ {p}
                        ELSE pendiente
        /\ hilo' = [hilo EXCEPT ![p] = "anota"]
        /\ UNCHANGED actualizacion_de_listas_1_recibido
  /\ UNCHANGED <<status, prev_status, actualizacion_de_listas_1,
                 actualizacion_de_listas_2, cantidad,
                 mutex_cant_procesos, aviso>>

\* then it reads the status again, to remember it, and answers
Anota(p) ==
  /\ hilo[p] = "anota"
  /\ prev_status' = [prev_status EXCEPT ![p] = status[p]]
  /\ Responde(p, "espera_2")
  /\ UNCHANGED <<status, pendiente, actualizacion_de_listas_1,
                 actualizacion_de_listas_2, cantidad,
                 mutex_cant_procesos, aviso>>

\* mutant: the thread does not wait for the end of the round
VuelveSinEsperar(p) ==
  /\ hilo[p] \in {"espera_2", "espera_2_final"}
  /\ hilo' = [hilo EXCEPT ![p] = IF @ = "espera_2" THEN "espera_1" ELSE "fin"]
  /\ UNCHANGED <<status, prev_status, pendiente, semaforos,
                 cantidad, mutex_cant_procesos, aviso>>

\* any post of actualizacion_de_listas_2 lets it go, this round's or not
Vuelve(p) ==
  /\ hilo[p] \in {"espera_2", "espera_2_final"}
  /\ actualizacion_de_listas_2 > 0
  /\ actualizacion_de_listas_2' = actualizacion_de_listas_2 - 1
  /\ hilo' = [hilo EXCEPT ![p] = IF @ = "espera_2" THEN "espera_1" ELSE "fin"]
  /\ UNCHANGED <<status, prev_status, pendiente, actualizacion_de_listas_1,
                 actualizacion_de_listas_1_recibido, cantidad,
                 mutex_cant_procesos, aviso>>
-----------------------------------------------------------------------------
Ronda(h) == \/ TomaMutex(h) \/ Avisa(h) \/ Recibe(h) \/ Libera(h)
            \/ Termina(h) \/ Resta(h)

Paso ==
  \/ \E p \in Procesos :
       \/ Nuevo(p) \/ Sale(p) \/ Suspende(p)
       \/ \E destino \in Estados : Mueve(p, destino)
       \/ DespiertaHilo(p) \/ Mira(p) \/ Anota(p) \/ Vuelve(p)
  \/ \E h \in Actores : Ronda(h)

Next ==
  /\ Paso
  /\ suspensiones' = suspensiones + Cardinality({p \in Procesos :
       status[p] # "S_BLOCKED" /\ status'[p] = "S_BLOCKED"})
  /\ UNCHANGED escenario

Spec == Init /\ [][Next]_vars

\* Every thread is scheduled again and again, and one that waits for a
\* semaphore others take as well gets it sooner or later.
Justicia ==
  /\ \A h \in Actores :
       /\ SF_cambian(TomaMutex(h))
       /\ WF_cambian(\/ Avisa(h) \/ Recibe(h) \/ Libera(h) \/ Termina(h)
                     \/ Resta(h))
  /\ \A p \in Procesos :
       /\ SF_cambian(DespiertaHilo(p)) /\ SF_cambian(Vuelve(p))
       /\ WF_cambian(Mira(p) \/ Anota(p))

SpecJusta == Spec /\ Justicia
-----------------------------------------------------------------------------
(* Properties *)

EnHilo(lugares) == {p \in Procesos : hilo[p] \in lugares}

\* The type invariant of the module.
TypeOK ==
  /\ status \in [Procesos -> Estados]
  /\ prev_status \in [Procesos -> Estados \cup {"ninguno"}]
  /\ hilo \in [Procesos -> {"sin_crear", "espera_1", "mira", "anota",
                            "espera_2", "espera_2_final", "fin"}]
  /\ pendiente \subseteq Procesos
  /\ cantidad_de_procesos \in Nat /\ interrumpida \in BOOLEAN
  /\ actualizacion_de_listas_1 \in Nat
  /\ actualizacion_de_listas_1_recibido \in Nat
  /\ actualizacion_de_listas_2 \in Nat
  /\ mutex_cant_procesos \in Actores \cup {"libre"}
  /\ aviso \in [Actores ->
                  {Listo} \cup [pc : {"toma", "resta"}, rondas : 1..3]
                  \cup [pc : {"avisa", "recibe", "libera"}, i : Nat,
                        rondas : 1..3]]

EntreRondas == \A h \in Actores : aviso[h].pc \in {"listo", "toma", "resta"}

\* Between two rounds nothing of the last one is left but posts to come
\* back: no post to wake up, no answer, no thread that looks at its status.
\* And the posts to come back are exactly those that the threads that
\* answered have not taken: nobody comes back without one, and none is left
\* over.  The one thing that breaks it is an arrival or an exit that counts itself
\* while the medium term planner is in its round.
RondaCerrada ==
  EntreRondas /\ ~interrumpida =>
    /\ actualizacion_de_listas_1 = 0
    /\ actualizacion_de_listas_1_recibido = 0
    /\ EnHilo({"mira", "anota"}) = {}
    /\ actualizacion_de_listas_2 =
         Cardinality(EnHilo({"espera_2", "espera_2_final"}))

Tranquilo == escenario.suspensiones = 0 /\ escenario.salidas = 0

\* Without the medium term planner, a status is never changed while the
\* thread of the carpincho looks at it: what it acts on is what it
\* remembers.  mutex_listas alone does not give this, since the threads do
\* not take it: the round does.
LecturaEstable ==
  [][escenario.suspensiones = 0 =>
       \A p \in Procesos :
         status'[p] # status[p] => hilo[p] \notin {"mira", "anota"}]_vars

\* Each round ends, as long as nobody suspends and nobody exits.
RondaTermina ==
  (Tranquilo /\ aviso["listas"].pc # "listo") ~> (aviso["listas"].pc = "listo")

\* A carpincho that is moved to EXEC gets an exec thread.
DespachoEjecuta ==
  \A p \in Procesos : (p \in pendiente) ~> (p \notin pendiente)
=============================================================================
