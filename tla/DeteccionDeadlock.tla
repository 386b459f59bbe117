------------------------- MODULE DeteccionDeadlock -------------------------
(***************************************************************************)
(* The detector of deadlocks over the semaphores of module Semaforos, with *)
(* hilo_salida_a_exit serving its requests; here nobody else leaves.       *)
(*                                                                         *)
(* A pass of the detector is one step: it holds mutex_recursos_asignados,  *)
(* without which nobody changes a queue or a resource; a semaphore that    *)
(* iniciar_semaforo adds meanwhile has no queue.  A name that was freed    *)
(* reads as one thing during a pass, whatever it is.                       *)
(***************************************************************************)
EXTENDS Semaforos

CONSTANTS
  Id,       \* the number of each carpincho
  MaxPosts, \* bound: the pending posts of salida_a_exit
  MaxTareas \* bound: the tasks that begin after a name was freed

\* at any time the kernel has finitely many
ASSUME ProcesosFinitos == IsFiniteSet(Procesos)

ASSUME IdOK == /\ Id \in [Procesos -> Nat \ {0}]
               /\ MaxPosts \in Nat /\ MaxTareas \in Nat

VARIABLES
  salida_exit,   \* the carpinchos that have the flag
  salida_a_exit, \* posts not served yet
  colgo          \* history: 0 until a name is freed that a resource has; then
                 \* 1 and the tasks begun since

pedidas == <<salida_exit, salida_a_exit>>
hilos == <<cambian, pedidas>>
todas == <<escenario, hilos, colgo>>

IniciaDetector ==
  Init /\ salida_exit = {} /\ salida_a_exit = 0 /\ colgo = 0
-----------------------------------------------------------------------------
(* The search.  L gives what the freed names read as. *)

Recursos == DOMAIN lista_recursos_asignados

Lecturas ==
  [{i \in Recursos : lista_recursos_asignados[i].nombre_recurso = Colgado}
     -> Nombres \cup {Colgado}]

Nombre(L, i) == IF i \in DOMAIN L THEN L[i]
                ELSE lista_recursos_asignados[i].nombre_recurso

\* mutant: the semaphore is looked for among those that are free
EsperaEnLibre(q) ==
  SelectInSeq(lista_semaforos,
              LAMBDA s : s.value >= 0 /\ q \in Range(s.solicitantes))

\* proceso_bloqueado_por_sem: the first semaphore in whose queue q is, or 0
EsperaEn(q) ==
  SelectInSeq(lista_semaforos, LAMBDA s : q \in Range(s.solicitantes))

\* mutant: the resources of everybody count as seen
RecursosDeTodos(L, q) == {Nombre(L, i) : i \in Recursos}

\* agregar_recursos_a_lista
SusRecursos(L, q) ==
  {Nombre(L, i) : i \in {j \in Recursos :
                           lista_recursos_asignados[j].id_asignado = q}}

\* quien_retiene_recurso
Retiene(L, n, q) ==
  {i \in Recursos : /\ Nombre(L, i) = n
                    /\ lista_recursos_asignados[i].id_asignado # q}

Unico(S) == CHOOSE x \in S : TRUE

\* one call of proceso_en_deadlock, for who asks (b.quien) and what blocks it
\* (b.por): it looks at the first holder only, and goes on with it if it is
\* blocked, by a semaphore that nobody seen so far has
UnaLlamada(L, b) ==
  LET recursos == b.recursos \cup SusRecursos(L, b.quien)
      retienen == Retiene(L, b.por, b.quien)
      q == lista_recursos_asignados[Primero(retienen)].id_asignado
      k == EsperaEn(q)
      n == lista_semaforos[k].nombre
  IN  IF ~b.sigue THEN b
      ELSE IF retienen = {} \/ k = 0
      THEN [b EXCEPT !.recursos = recursos, !.sigue = FALSE]
      ELSE [hallado |-> n \in recursos, sigue |-> n \notin recursos,
            quien |-> q, por |-> n, recursos |-> recursos,
            procesos |-> b.procesos \cup {q}]

\* proceso_en_deadlock: no chain is longer than the carpinchos are
ProcesoEnDeadlock(L, b) ==
  LET llamada[n \in 0..(Cardinality(Procesos) + 1)] ==
        IF n = 0 THEN b
        ELSE Unico({UnaLlamada(L, c) : c \in {llamada[n - 1]}})
  IN  llamada[Cardinality(Procesos) + 1]

\* nothing was seen yet
NadaVisto == [hallado |-> FALSE, sigue |-> FALSE, quien |-> "", por |-> "",
              recursos |-> {}, procesos |-> {}]

\* the search from q, in the queue of the semaphore n, goes on from b
BuscaDesde(L, b, q, n) ==
  ProcesoEnDeadlock(L,
    [hallado |-> FALSE, sigue |-> TRUE, quien |-> q, por |-> n,
     recursos |-> b.recursos, procesos |-> b.procesos \cup {q}])

\* the queue of a semaphore, if carpinchos wait for it
Cola(k) == IF lista_semaforos[k].value < 0
           THEN lista_semaforos[k].solicitantes ELSE <<>>

\* the loop over it goes on until a search finds something; what was seen for
\* one carpincho stays for the next
AnalizaUno(L, k, b, i) ==
  IF b.hallado THEN b
  ELSE BuscaDesde(L, b, Cola(k)[i], lista_semaforos[k].nombre)

AnalizaCola(L, k) ==
  LET visto[i \in 0..Len(Cola(k))] ==
        IF i = 0 THEN NadaVisto ELSE AnalizaUno(L, k, visto[i - 1], i)
  IN  visto[Len(Cola(k))]

EnDeadlock(L) == {k \in DOMAIN lista_semaforos : AnalizaCola(L, k).hallado}

\* liberar_recursos_en_deadlock: the greatest number of those seen
Victima(procesos) ==
  CHOOSE p \in procesos : \A q \in procesos : Id[q] <= Id[p]

\* algoritmo_deteccion: the victim is asked to leave, if it is blocked
Detecta ==
  /\ caido = "no" /\ mutex_recursos_asignados = "libre"
  /\ salida_a_exit < MaxPosts
  /\ \E L \in Lecturas :
       /\ EnDeadlock(L) # {}
       /\ LET p == Victima(AnalizaCola(L, Primero(EnDeadlock(L))).procesos) IN
          \/ /\ estado[p] = "bloqueado"
             /\ salida_exit' = salida_exit \cup {p}
             /\ salida_a_exit' = salida_a_exit + 1
             /\ UNCHANGED caido
          \/ /\ estado[p] # "bloqueado"
             /\ caido' = "liberar_recursos_en_deadlock"
             /\ UNCHANGED pedidas
  /\ UNCHANGED <<listas, mutexes, estado, tarea, salida, tiene, sin_semaforo>>
-----------------------------------------------------------------------------
(* hilo_salida_a_exit with the posts that it waits for *)

Marcados == {p \in Procesos : p \in salida_exit /\ estado[p] # "fuera"}

SalidaEmpieza ==
  /\ salida_a_exit > 0 /\ salida_a_exit' = salida_a_exit - 1
  /\ SalidaTomaRecursos
  /\ UNCHANGED salida_exit

SalidaElige ==
  /\ \E p \in Marcados : SalidaTomaSemaforos(p)
  /\ UNCHANGED pedidas

\* a second post for who left already
SalidaNadie ==
  /\ caido = "no" /\ salida.pc = "toma_semaforos" /\ mutex_semaforos = "libre"
  /\ Marcados = {}
  /\ salida' = Quieta /\ mutex_recursos_asignados' = "libre"
  /\ UNCHANGED <<listas, mutex_semaforos, estado, tarea, caido, tiene,
                 sin_semaforo, pedidas>>

Salida ==
  \/ SalidaEmpieza \/ SalidaElige \/ SalidaNadie
  \/ SalidaSolicitud /\ UNCHANGED pedidas
  \/ SalidaRecurso /\ UNCHANGED pedidas

Carpincho(p) ==
  /\ \/ colgo <= MaxTareas /\ \E t \in Tareas : TomaTarea(p, t)
     \/ Ejecuta(p) \/ TomaMutexSemaforos(p)
  /\ UNCHANGED pedidas

HayColgado == \E i \in Recursos :
                lista_recursos_asignados[i].nombre_recurso = Colgado

Empieza(p) == tarea[p] = Ninguna /\ tarea'[p] # Ninguna

PasoDetector == Detecta \/ Salida \/ \E p \in Procesos : Carpincho(p)

NextDetector ==
  /\ PasoDetector
  /\ colgo' = IF colgo = 0 THEN IF HayColgado' THEN 1 ELSE 0
              ELSE colgo + (IF \E p \in Procesos : Empieza(p) THEN 1 ELSE 0)
  /\ UNCHANGED escenario

SpecDetector == IniciaDetector /\ [][NextDetector]_todas
-----------------------------------------------------------------------------
(* Properties, for semaphores of value 1 used as mutexes (disciplinados) *)

Espera(p) == IF Lugares(p) = {} THEN {}
             ELSE {lista_semaforos[e[1]].nombre : e \in Lugares(p)}

\* Carpinchos that wait for ever: all those that have what one of them waits
\* for are among them
Abrazados ==
  UNION {D \in SUBSET {p \in Procesos : estado[p] = "bloqueado"} :
           \A p \in D : /\ Espera(p) # {}
                        /\ \A n \in Espera(p) : /\ Tienen(n) # {}
                                                /\ Tienen(n) \subseteq D}

Quietos == caido = "no" /\ mutex_recursos_asignados = "libre"

\* An exit left something assigned to who is not there any more
QuedanRestos == \E i \in Recursos : lista_recursos_asignados[i].id_asignado \in Fuera

\* A search that starts with nothing seen speaks of a deadlock only if there
\* is one, and those it saw are in it or wait for it: a holder that runs and
\* will post, or a chain that ends in one, never looks like it, even while
\* requests of carpinchos that left are still in the queues.
BusquedaCierta ==
  Quietos /\ colgo = 0 /\ ~QuedanRestos =>
    \A L \in Lecturas, k \in DOMAIN lista_semaforos :
      \A q \in Range(lista_semaforos[k].solicitantes) :
        LET b == BuscaDesde(L, NadaVisto, q, lista_semaforos[k].nombre)
        IN  b.hallado => /\ Abrazados # {}
                         /\ b.procesos \ Fuera \subseteq Abrazados

\* The detector asks somebody to leave ("Deadlock encontrado") only if there
\* is a deadlock.  The search from the second of a queue starts with what the
\* first one saw, and takes the semaphores of that chain, which may end in a
\* carpincho that runs, for its own.
DeteccionCierta ==
  Quietos /\ colgo = 0 =>
    \A L \in Lecturas : EnDeadlock(L) # {} => Abrazados # {}

\* And it finds every deadlock, from whatever semaphore its search starts, as
\* long as no post handed a semaphore over: the entry of one that was handed
\* over has a name that was freed.
DeteccionCompleta ==
  Quietos /\ colgo = 0 /\ Abrazados # {} =>
    \A L \in Lecturas : EnDeadlock(L) # {}

=============================================================================
