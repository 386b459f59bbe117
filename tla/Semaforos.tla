----------------------------- MODULE Semaforos -----------------------------
(***************************************************************************)
(* The semaphores that the kernel gives to the carpinchos: lista_semaforos *)
(* with their queues, lista_recursos_asignados, and the threads that work  *)
(* on them: the exec threads, one per carpincho, and hilo_salida_a_exit,   *)
(* which takes the same two mutexes in the opposite order.                 *)
(*                                                                         *)
(* What a post writes down for the carpincho it wakes up is the pointer it *)
(* was given as a name; exec frees that name when the post is done.  Such  *)
(* an entry has the name Colgado, and a comparison with it may come out    *)
(* either way.                                                             *)
(*                                                                         *)
(* The way of a carpincho in and out of lista_blocked is one step here, so *)
(* nobody is ever on it and the busy wait of postear_semaforo for          *)
(* procesos_esperando_bloqueo = 0 never waits.  That way, its windows and  *)
(* the two busy waits, of the posts and of hilo_salida_a_exit, are module  *)
(* Planificacion.  Only safety is stated here.                             *)
(***************************************************************************)
EXTENDS Integers, Sequences, FiniteSets, SequencesExt, Listas

CONSTANTS
  Procesos,      \* the carpinchos
  Nombres,       \* the names of semaphores they use
  Colgado,       \* a name that was freed
  Contiene,      \* the pairs <<a, b>> of names such that b is within a
  Escenarios,    \* what they do: the value they ask for, the semaphores that
                 \* are there already, the operations they use, whether they
                 \* post only what they hold and wait only for what they do
                 \* not; and bounds: how many leave, and the length of
                 \* lista_recursos_asignados
  MaxValor       \* bound: the value of a semaphore that is posted

ASSUME ConstantesOK ==
  /\ Colgado \notin Nombres
  /\ Contiene \subseteq Nombres \X Nombres
  /\ \A n \in Nombres : <<n, n>> \in Contiene
  /\ Escenarios \subseteq
       [valor : Nat, creados : Seq(Nombres),
        operaciones : SUBSET {"init", "wait", "post", "destroy"},
        disciplinados : BOOLEAN, salidas : Nat, recursos : Nat]
  /\ MaxValor \in Nat

VARIABLES
  escenario,                \* the one of this behaviour
  lista_semaforos,          \* records nombre, value, solicitantes
  lista_recursos_asignados, \* records nombre_recurso, id_asignado
  estado,          \* "corre", "bloqueado" or "fuera" (in lista_exit)
  tarea,           \* the task in the hands of the exec thread of each
  mutex_semaforos, mutex_recursos_asignados, \* who holds them
  salida,          \* where hilo_salida_a_exit stands
  caido,           \* what ended the kernel, "no" while it runs
  tiene,           \* history: the semaphores each was granted
  sin_semaforo     \* history: blocked by a wait on a name nobody created

listas  == <<lista_semaforos, lista_recursos_asignados>>
mutexes == <<mutex_semaforos, mutex_recursos_asignados>>
cambian == <<listas, mutexes, estado, tarea, salida, caido, tiene,
             sin_semaforo>>
vars    == <<escenario, cambian>>

Ninguna == [op |-> "ninguna"]
Quieta  == [pc |-> "espera"]

Tareas == [op : {"init"} \cap escenario.operaciones, nombre : Nombres,
           value : {escenario.valor}]
          \cup [op : escenario.operaciones \ {"init"}, nombre : Nombres]

SemaforoNuevo(n, v) == [nombre |-> n, value |-> v, solicitantes |-> <<>>]

Init ==
  /\ escenario \in Escenarios
  /\ lista_semaforos = [k \in DOMAIN escenario.creados |->
                          SemaforoNuevo(escenario.creados[k], escenario.valor)]
  /\ lista_recursos_asignados = <<>>
  /\ estado = [p \in Procesos |-> "corre"]
  /\ tarea = [p \in Procesos |-> Ninguna]
  /\ mutex_semaforos = "libre" /\ mutex_recursos_asignados = "libre"
  /\ salida = Quieta /\ caido = "no"
  /\ tiene = [p \in Procesos |-> {}] /\ sin_semaforo = {}
-----------------------------------------------------------------------------
(* Operators of the actions *)

\* traer_semaforo: k is the place of the first semaphore of that name, or 0
Indices == 0..Len(lista_semaforos)

EsIndice(k, n) ==
  /\ k # 0 => lista_semaforos[k].nombre = n
  /\ \A j \in DOMAIN lista_semaforos :
       lista_semaforos[j].nombre = n => k # 0 /\ k <= j

\* a name that was freed may read as any name, or as none
Lee(nombre, n) == nombre \in {n, Colgado}

\* mutant: the name and the carpincho swapped
AsignadoAlReves(nombre, id) == [nombre_recurso |-> id, id_asignado |-> nombre]

\* the struct of a resource that was assigned
Asignado(nombre, id) == [nombre_recurso |-> nombre, id_asignado |-> id]

\* devolver_recurso: the first entry of id that reads as n goes away
Devuelve(recursos, id, n) ==
  LET suya(i) == recursos[i].id_asignado = id IN
  \/ \E i \in DOMAIN recursos :
       /\ suya(i) /\ Lee(recursos[i].nombre_recurso, n)
       /\ \A j \in 1..(i - 1) : ~(suya(j) /\ recursos[j].nombre_recurso = n)
       /\ lista_recursos_asignados' = RemoveAt(recursos, i)
  \/ /\ \A i \in DOMAIN recursos :
          ~(suya(i) /\ recursos[i].nombre_recurso = n)
     /\ lista_recursos_asignados' = recursos

\* mutant: a post counts the unit that it has just handed over
SumaDosVeces(k) ==
  [lista_semaforos EXCEPT ![k].value = @ + (IF @ = -1 THEN 2 ELSE 1)]

\* a post adds one to the value ...
Sumado(k) == [lista_semaforos EXCEPT ![k].value = @ + 1]

\* ... and takes the first of the queue out, if the value was negative
SumadoSinPrimero(k) == [Sumado(k) EXCEPT ![k].solicitantes = Tail(@)]

\* postear_semaforo: who asks for the post is id, n is what the name reads
\* as, nombre what a carpincho that is woken up gets written down.  With
\* nobody of that name it returns before devolver_recurso; a post for
\* somebody who is not blocked ends in the exit(1) of traer_proceso_bloqueado
Postear(recursos, n, nombre, id) ==
  \E k \in Indices :
    /\ EsIndice(k, n)
    /\ \/ /\ k = 0
          /\ lista_recursos_asignados' = recursos
          /\ UNCHANGED <<lista_semaforos, estado, caido, tiene>>
       \/ /\ k # 0 /\ lista_semaforos[k].value >= 0
          /\ lista_semaforos' = Sumado(k)
          /\ Devuelve(recursos, id, n)
          /\ tiene' = [tiene EXCEPT ![id] = @ \ {n}]
          /\ UNCHANGED <<estado, caido>>
       \/ /\ k # 0 /\ lista_semaforos[k].value < 0
          /\ LET q == Head(lista_semaforos[k].solicitantes) IN
             /\ lista_semaforos' = SumadoSinPrimero(k)
             /\ IF estado[q] = "bloqueado"
                THEN /\ estado' = [estado EXCEPT ![q] = "corre"]
                     /\ Devuelve(Append(recursos, Asignado(nombre, q)), id, n)
                     /\ tiene' = [tiene EXCEPT ![id] = @ \ {n},
                                              ![q] = @ \cup {n}]
                     /\ UNCHANGED caido
                ELSE /\ caido' = "traer_proceso_bloqueado"
                     /\ lista_recursos_asignados' = recursos
                     /\ UNCHANGED <<estado, tiene>>
-----------------------------------------------------------------------------
(* The exec threads *)

\* a carpincho waits for the answer of each request before the next one
TomaTarea(p, t) ==
  /\ caido = "no"
  /\ estado[p] = "corre" /\ tarea[p] = Ninguna
  /\ t.op = "wait" => Len(lista_recursos_asignados) < escenario.recursos
  /\ t.op = "post" => \A k \in DOMAIN lista_semaforos :
                        lista_semaforos[k].value < MaxValor
  /\ escenario.disciplinados =>
       /\ t.op = "wait" => t.nombre \notin tiene[p]
       /\ t.op = "post" => t.nombre \in tiene[p]
  /\ tarea' = [tarea EXCEPT ![p] = t]
  /\ UNCHANGED <<listas, mutexes, estado, salida, caido, tiene, sin_semaforo>>

\* iniciar_semaforo takes no mutex: it looks for a semaphore whose name
\* contains the new one ...
IniciaConsulta(p) ==
  /\ caido = "no"
  /\ tarea[p].op = "init"
  /\ tarea' = [tarea EXCEPT ![p] =
                 IF \E k \in DOMAIN lista_semaforos :
                      <<lista_semaforos[k].nombre, @.nombre>> \in Contiene
                 THEN Ninguna ELSE [@ EXCEPT !.op = "agrega"]]
  /\ UNCHANGED <<listas, mutexes, estado, salida, caido, tiene, sin_semaforo>>

\* ... and adds it if it found none
IniciaAgrega(p) ==
  /\ caido = "no"
  /\ tarea[p].op = "agrega"
  /\ lista_semaforos' = Append(lista_semaforos,
                               SemaforoNuevo(tarea[p].nombre, tarea[p].value))
  /\ tarea' = [tarea EXCEPT ![p] = Ninguna]
  /\ UNCHANGED <<lista_recursos_asignados, mutexes, estado, salida, caido,
                 tiene, sin_semaforo>>

\* the other three take mutex_semaforos and then mutex_recursos_asignados
TomaMutexSemaforos(p) ==
  /\ caido = "no"
  /\ tarea[p].op \in {"wait", "post", "destroy"}
  /\ mutex_semaforos = "libre"
  /\ mutex_semaforos' = p
  /\ UNCHANGED <<listas, mutex_recursos_asignados, estado, tarea, salida,
                 caido, tiene, sin_semaforo>>

TomaMutexRecursos(p) ==
  /\ caido = "no"
  /\ mutex_semaforos = p /\ mutex_recursos_asignados = "libre"
  /\ mutex_recursos_asignados' = p
  /\ UNCHANGED <<listas, mutex_semaforos, estado, tarea, salida, caido,
                 tiene, sin_semaforo>>

\* p holds both, does a task of that kind, and lets go of them
EnSeccion(p, op) ==
  /\ caido = "no"
  /\ mutex_recursos_asignados = p
  /\ tarea[p].op = op
  /\ tarea' = [tarea EXCEPT ![p] = Ninguna]
  /\ mutex_semaforos' = "libre" /\ mutex_recursos_asignados' = "libre"
  /\ UNCHANGED salida

Bloqueado(p) ==
  [estado EXCEPT ![p] = IF @ = "corre" THEN "bloqueado" ELSE @]

\* solicitar_semaforo: a unit of the semaphore, or a place in its queue; a
\* name that does not exist blocks as well, with an error for the client
Solicita(p) ==
  /\ EnSeccion(p, "wait")
  /\ \E k \in Indices :
       LET n == tarea[p].nombre IN
       /\ EsIndice(k, n)
       /\ \/ /\ k = 0
             /\ estado' = Bloqueado(p)
             /\ sin_semaforo' = sin_semaforo \cup {p}
             /\ UNCHANGED <<listas, tiene>>
          \/ /\ k # 0 /\ lista_semaforos[k].value > 0
             /\ lista_semaforos' = [lista_semaforos EXCEPT ![k].value = @ - 1]
             /\ lista_recursos_asignados' =
                  Append(lista_recursos_asignados, Asignado(n, p))
             /\ tiene' = [tiene EXCEPT ![p] = @ \cup {n}]
             /\ UNCHANGED <<estado, sin_semaforo>>
          \/ /\ k # 0 /\ lista_semaforos[k].value <= 0
             /\ lista_semaforos' = [lista_semaforos EXCEPT
                  ![k].value = @ - 1, ![k].solicitantes = Append(@, p)]
             /\ estado' = Bloqueado(p)
             /\ UNCHANGED <<lista_recursos_asignados, tiene, sin_semaforo>>
  /\ UNCHANGED caido

\* SEM_POST; the name that was handed over is freed at the end
Postea(p) ==
  /\ EnSeccion(p, "post")
  /\ Postear(lista_recursos_asignados, tarea[p].nombre, Colgado, p)
  /\ UNCHANGED sin_semaforo

\* mutant: the last of the queue is left out
EnColaMenosUno(k) ==
  LET cola == lista_semaforos[k].solicitantes
  IN  {cola[i] : i \in DOMAIN cola \ {Len(cola)}}

EnCola(k) ==
  {lista_semaforos[k].solicitantes[i] :
     i \in DOMAIN lista_semaforos[k].solicitantes}

\* destruir_semaforo: wakes all its queue up, drops the entries that read
\* as its name (those of the woken ones among them) and the semaphore; with
\* no semaphore of that name it reads through a NULL
Destruye(p) ==
  /\ EnSeccion(p, "destroy")
  /\ \E k \in Indices :
       LET n == tarea[p].nombre
           recursos == lista_recursos_asignados
           nombre(i) == recursos[i].nombre_recurso
       IN
       /\ EsIndice(k, n)
       /\ \/ /\ k = 0
             /\ caido' = "puntero_nulo"
             /\ UNCHANGED <<listas, estado, tiene>>
          \/ /\ k # 0 /\ \E q \in EnCola(k) : estado[q] # "bloqueado"
             /\ caido' = "traer_proceso_bloqueado"
             /\ UNCHANGED <<listas, estado, tiene>>
          \/ /\ k # 0 /\ \A q \in EnCola(k) : estado[q] = "bloqueado"
             /\ lista_semaforos' = RemoveAt(lista_semaforos, k)
             /\ \E borrados \in
                     SUBSET {i \in DOMAIN recursos : Lee(nombre(i), n)} :
                  /\ \A i \in DOMAIN recursos : nombre(i) = n => i \in borrados
                  /\ lista_recursos_asignados' =
                       Quedan(recursos, DOMAIN recursos \ borrados)
             /\ estado' = [q \in Procesos |-> IF q \in EnCola(k) THEN "corre"
                                              ELSE estado[q]]
             /\ tiene' = [q \in Procesos |-> tiene[q] \ {n}]
             /\ UNCHANGED caido
  /\ UNCHANGED sin_semaforo
-----------------------------------------------------------------------------
(* hilo_salida_a_exit *)

Fuera == {p \in Procesos : estado[p] = "fuera"}

\* it takes mutex_recursos_asignados and then mutex_semaforos ...
SalidaTomaRecursos ==
  /\ caido = "no"
  /\ salida = Quieta
  /\ Cardinality(Fuera) < escenario.salidas /\ Fuera # Procesos
  /\ mutex_recursos_asignados = "libre"
  /\ mutex_recursos_asignados' = "salida"
  /\ salida' = [pc |-> "toma_semaforos"]
  /\ UNCHANGED <<listas, mutex_semaforos, estado, tarea, caido, tiene,
                 sin_semaforo>>

\* ... and takes a carpincho out of its list, whatever it was doing: the
\* task in the hands of its exec thread will still be done
SalidaTomaSemaforos(p) ==
  /\ caido = "no"
  /\ salida.pc = "toma_semaforos"
  /\ mutex_semaforos = "libre"
  /\ estado[p] # "fuera"
  /\ mutex_semaforos' = "salida"
  /\ estado' = [estado EXCEPT ![p] = "fuera"]
  /\ salida' = [pc |-> "solicitudes", id |-> p, index |-> 1, index2 |-> 1]
  /\ tiene' = [tiene EXCEPT ![p] = {}]
  /\ UNCHANGED <<listas, mutex_recursos_asignados, tarea, caido, sin_semaforo>>

\* mutant: the request is dropped but its unit is not given back
SinSolicitudNiValor(k, i) ==
  [lista_semaforos EXCEPT ![k].solicitantes = RemoveAt(@, i)]

\* a request of the queue dropped
SinSolicitud(k, i) ==
  [lista_semaforos EXCEPT ![k].value = @ + 1,
                          ![k].solicitantes = RemoveAt(@, i)]

\* eliminar_solicitud_de_sem, one iteration: index2 goes on after a removal
\* and is not reset for the next semaphore
SalidaSolicitud ==
  /\ caido = "no"
  /\ salida.pc = "solicitudes"
  /\ \/ /\ salida.index > Len(lista_semaforos)
        /\ salida' = [pc |-> "recursos", id |-> salida.id, index |-> 1]
        /\ UNCHANGED lista_semaforos
     \/ /\ salida.index <= Len(lista_semaforos)
        /\ LET cola == lista_semaforos[salida.index].solicitantes IN
           \/ /\ salida.index2 > Len(cola)
              /\ salida' = [salida EXCEPT !.index = @ + 1]
              /\ UNCHANGED lista_semaforos
           \/ /\ salida.index2 <= Len(cola)
              /\ lista_semaforos' = IF cola[salida.index2] = salida.id
                                    THEN SinSolicitud(salida.index,
                                                      salida.index2)
                                    ELSE lista_semaforos
              /\ salida' = [salida EXCEPT !.index2 = @ + 1]
  /\ UNCHANGED <<lista_recursos_asignados, mutexes, estado, tarea, caido,
                 tiene, sin_semaforo>>

\* the loop over lista_recursos_asignados, one iteration: an entry of the
\* carpincho goes away and its semaphore is posted, which changes the list
\* once more, and index goes on; at the end the mutexes are released
SalidaRecurso ==
  /\ caido = "no"
  /\ salida.pc = "recursos"
  /\ LET recursos == lista_recursos_asignados
         i == salida.index
         nombre == recursos[i].nombre_recurso
     IN
     \/ /\ i > Len(recursos)
        /\ salida' = Quieta
        /\ mutex_semaforos' = "libre" /\ mutex_recursos_asignados' = "libre"
        /\ UNCHANGED <<listas, estado, caido, tiene>>
     \/ /\ i <= Len(recursos)
        /\ salida' = [salida EXCEPT !.index = @ + 1]
        /\ IF recursos[i].id_asignado = salida.id
           THEN \E n \in Nombres \cup {Colgado} :
                  /\ nombre # Colgado => n = nombre
                  /\ Postear(RemoveAt(recursos, i), n, nombre, salida.id)
           ELSE UNCHANGED <<listas, estado, caido, tiene>>
        /\ UNCHANGED mutexes
  /\ UNCHANGED <<tarea, sin_semaforo>>
-----------------------------------------------------------------------------
Ejecuta(p) == \/ IniciaConsulta(p) \/ IniciaAgrega(p)
              \/ TomaMutexRecursos(p)
              \/ Solicita(p) \/ Postea(p) \/ Destruye(p)

Paso ==
  \/ \E p \in Procesos : \/ \E t \in Tareas : TomaTarea(p, t)
                         \/ Ejecuta(p) \/ TomaMutexSemaforos(p)
                         \/ SalidaTomaSemaforos(p)
  \/ SalidaTomaRecursos \/ SalidaSolicitud \/ SalidaRecurso

Next == Paso /\ UNCHANGED escenario

Spec == Init /\ [][Next]_vars
-----------------------------------------------------------------------------
(* Properties *)

Semaforo == [nombre : Nombres, value : Int, solicitantes : Seq(Procesos)]

Recurso == [nombre_recurso : Nombres \cup {Colgado}, id_asignado : Procesos]

Hilos == Procesos \cup {"libre", "salida"}

\* The type invariant of the module.
TypeOK ==
  /\ lista_semaforos \in Seq(Semaforo)
  /\ lista_recursos_asignados \in Seq(Recurso)
  /\ estado \in [Procesos -> {"corre", "bloqueado", "fuera"}]
  /\ tarea \in [Procesos -> {Ninguna} \cup Tareas
                  \cup [op : {"agrega"}, nombre : Nombres, value : Nat]]
  /\ mutex_semaforos \in Hilos /\ mutex_recursos_asignados \in Hilos
  /\ salida \in {Quieta, [pc |-> "toma_semaforos"]}
               \cup [pc : {"solicitudes"}, id : Procesos,
                     index : Nat, index2 : Nat]
               \cup [pc : {"recursos"}, id : Procesos, index : Nat]
  /\ caido \in {"no", "traer_proceso_bloqueado", "puntero_nulo"}
  /\ tiene \in [Procesos -> SUBSET Nombres]
  /\ sin_semaforo \subseteq Procesos

\* The value of a semaphore and its queue always agree: a negative value is
\* the number of carpinchos that wait, whatever waits, posts, destructions
\* and exits came before.  postear_semaforo takes the first of the queue
\* because the value is negative, and does not look whether there is one.
ValorYSolicitantes ==
  \A k \in DOMAIN lista_semaforos :
    LET s == lista_semaforos[k] IN
    Len(s.solicitantes) = IF s.value < 0 THEN -s.value ELSE 0

\* The places in the queues where p waits
Lugares(p) ==
  UNION {{<<k, i>> : i \in {j \in DOMAIN lista_semaforos[k].solicitantes :
                             lista_semaforos[k].solicitantes[j] = p}} :
           k \in DOMAIN lista_semaforos}

\* A carpincho that is blocked for a semaphore waits in one queue, in one
\* place, and one that runs waits in none: no wake-up is lost, and none is
\* made twice.  (One that waits for a name that does not exist is in no
\* queue and never wakes up.)
BloqueadoEnUnaCola ==
  caido = "no" =>
    \A p \in Procesos \ Fuera :
      Cardinality(Lugares(p)) =
        IF estado[p] = "bloqueado" /\ p \notin sin_semaforo THEN 1 ELSE 0

Tienen(n) == {p \in Procesos : n \in tiene[p]}

\* Carpinchos that use semaphores of value 1 as mutexes
ComoMutex ==
  /\ escenario.disciplinados /\ escenario.valor = 1
  /\ "destroy" \notin escenario.operaciones

\* With carpinchos that use a semaphore of value 1 as a mutex and do not
\* destroy it, its unit is in one place until one of them leaves: free, or
\* with one carpincho.  No post makes a second one and no hand-over loses it.
\* (After an exit, the post that an exec thread has in its hands for who left
\* makes a second one.  So does a destruction between the request of a post
\* and the post: what is posted then may be a new semaphore of that name.)
UnaUnidad ==
  ComoMutex /\ Fuera = {} =>
    \A n \in Nombres, k \in Indices :
      EsIndice(k, n) /\ k # 0 =>
        Cardinality(Tienen(n)) + (IF lista_semaforos[k].value > 0
                                  THEN lista_semaforos[k].value ELSE 0) = 1

\* The exit of a carpincho takes its requests out of every queue and
\* releases every resource that it was assigned: nothing of it is left when
\* hilo_salida_a_exit lets go of the mutexes.
SalidaLimpia ==
  [][(salida.pc = "recursos" /\ salida' = Quieta) =>
       /\ Lugares(salida.id) = {}
       /\ \A i \in DOMAIN lista_recursos_asignados :
            lista_recursos_asignados[i].id_asignado # salida.id]_vars
=============================================================================
