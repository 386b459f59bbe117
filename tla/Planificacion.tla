--------------------------- MODULE Planificacion ---------------------------
(***************************************************************************)
(* The scheduler of the kernel: the seven lists of carpinchos, the flags   *)
(* by which threads ask for a move, the two counters of capacity and the   *)
(* kernel semaphores that wake the scheduler's threads up.                 *)
(*                                                                         *)
(* Threads: the server (nuevo_carpincho), the long, short and medium term  *)
(* planners, esperar_bloqueo, salida_de_block, hilo_salida_a_exit, one     *)
(* exec thread per running carpincho and one receiver per connection.      *)
(*                                                                         *)
(* Everything but the medium term planner, the exec threads, the detector, *)
(* the timers of the I/O and the receivers runs under mutex_listas.  A     *)
(* section under that mutex is one action unless one of those, which do    *)
(* not take it, can come in between: such sections are split where they    *)
(* read a size, an index, a counter or a flag that they use later.  A flag *)
(* and the post that announces it are two steps.  mutex_semaforos and      *)
(* mutex_recursos_asignados are taken in the two orders of the code.       *)
(*                                                                         *)
(* avisar_cambio is the posts it ends with; the round with the threads of  *)
(* the carpinchos that comes before is module AvisarCambio.  Which         *)
(* resources a post or an exit hands over, and to whom, is left open here: *)
(* it is module Semaforos.                                                 *)
(***************************************************************************)
EXTENDS Integers, Sequences, FiniteSets, SequencesExt

CONSTANTS
  Procesos,                \* the carpinchos
  GradoMultiprogramacion,  \* GRADO_MULTIPROGRAMACION of the configuration
  GradoMultiprocesamiento, \* GRADO_MULTIPROCESAMIENTO of the configuration
  ConIO,                   \* do carpinchos call mate_call_io?
  Desconexiones,           \* the lists a carpincho may be in when it leaves
  MaxAvisos,               \* bound: pending posts of a cambio_de_listas_*
  MaxSuspensiones          \* bound: carpinchos suspended in a behaviour

Listas == {"new", "ready", "exec", "blocked", "s_blocked", "s_ready", "exit"}

ASSUME ConstantesOK ==
  /\ GradoMultiprogramacion \in Nat \ {0}
  /\ GradoMultiprocesamiento \in Nat \ {0}
  /\ ConIO \in BOOLEAN
  /\ Desconexiones \subseteq Listas \ {"exit"}
  /\ MaxAvisos \in Nat \ {0}
  /\ MaxSuspensiones \in Nat

VARIABLES
  listas,         \* lista_new ... lista_exit
  block, salida_block, salida_exit, \* the carpinchos with that flag set
  corriendo,      \* the carpinchos whose exec thread runs tasks
  por_postear,    \* exec threads inside bloquear: flag set, post to come
  espera,         \* what wakes the carpincho up: "nada", "sem" or "io"
  multiprogramacion_disponible,
  multiprocesamiento,
  procesos_esperando_bloqueo,
  sem,            \* the values of the kernel semaphores
  largo, mediano, desbloqueo, salida, bloqueo, \* where each thread stands
  seccion,        \* the exec thread that has mutex_semaforos
  detector,       \* "postea": the victim is flagged, mutex_recursos taken
  por_llegar,     \* posts that flags set outside every mutex still owe
  suspensiones,   \* how many carpinchos were suspended (for the bound)
  caido,          \* what ended the kernel, "no" while it runs
  solapada,       \* history: a stale multiprogramacion was stored
  sobrantes       \* history: exits from outside the admitted lists

vars == <<listas, block, salida_block, salida_exit, corriendo, por_postear,
          espera, multiprogramacion_disponible, multiprocesamiento,
          procesos_esperando_bloqueo, sem, largo, mediano, desbloqueo,
          salida, bloqueo, seccion, detector, por_llegar, suspensiones,
          caido, solapada, sobrantes>>

banderas  == <<block, salida_block, salida_exit>>
carpincho == <<corriendo, por_postear, espera>>
contadores == <<multiprogramacion_disponible, multiprocesamiento,
                procesos_esperando_bloqueo>>
hilos     == <<largo, mediano, desbloqueo, salida, bloqueo>>
ajenos    == <<seccion, detector, por_llegar>>
historia  == <<suspensiones, caido, solapada, sobrantes>>

SemKernel == {"cambio_largo", "cambio_corto", "cambio_mediano",
              "solicitar_block", "salida_block", "salida_a_exit"}
SemCambio == {"cambio_largo", "cambio_corto", "cambio_mediano"}
SemBandera == {"salida_block", "salida_a_exit"}

Quieto == [pc |-> "espera"]

Init ==
  /\ listas = [l \in Listas |-> <<>>]
  /\ block = {} /\ salida_block = {} /\ salida_exit = {}
  /\ corriendo = {} /\ por_postear = {}
  /\ espera = [p \in Procesos |-> "nada"]
  /\ multiprogramacion_disponible = GradoMultiprogramacion
  /\ multiprocesamiento = GradoMultiprocesamiento
  /\ procesos_esperando_bloqueo = 0
  /\ sem = [s \in SemKernel |-> 0]
  /\ largo = Quieto /\ mediano = Quieto
  /\ desbloqueo = Quieto /\ salida = Quieto
  /\ bloqueo = Quieto /\ seccion = Quieto /\ detector = "espera"
  /\ por_llegar = [s \in SemBandera |-> 0]
  /\ suspensiones = 0 /\ caido = "no"
  /\ solapada = FALSE /\ sobrantes = 0

-----------------------------------------------------------------------------
(* Operators of the actions *)

En(l) == {listas[l][i] : i \in DOMAIN listas[l]}
Conectados == UNION {En(l) : l \in Listas}

\* mutex_listas is held by a split section between its steps
MutexListasLibre == /\ largo.pc = "espera"
                    /\ desbloqueo.pc = "espera"
                    /\ salida.pc = "espera"
                    /\ bloqueo.pc = "espera"

\* mutex_semaforos: exec threads take it first, hilo_salida_a_exit last
MutexSemaforosLibre == /\ seccion.pc = "espera"
                       /\ salida.pc \in {"espera", "recursos", "semaforos"}

\* mutex_recursos_asignados: the other way round, and the detector alone
MutexRecursosLibre == /\ seccion.pc \in {"espera", "recursos"}
                      /\ salida.pc \in {"espera", "recursos"}
                      /\ detector = "espera"

\* the carpincho whose exec thread is in that section has no other step
Ocupado == IF seccion.pc = "espera" THEN {} ELSE {seccion.de}

\* i is the place of the first element of s that is in the set S
EsPrimero(s, S, i) == /\ i \in DOMAIN s
                      /\ s[i] \in S
                      /\ \A j \in 1..(i - 1) : s[j] \notin S

\* mutant: the flag is left as it is
SinApagar(S, p) == S

\* a flag of p cleared, by who has found it
Apagada(S, p) == S \ {p}

\* mutant: avisar_cambio forgets the short term planner
AvisadoSinCorto(s, n) ==
  [x \in SemKernel |-> IF x \notin SemCambio \ {"cambio_corto"} THEN s[x]
                       ELSE IF s[x] + n > MaxAvisos THEN MaxAvisos
                       ELSE s[x] + n]

\* the three posts that end avisar_cambio, n times
Avisado(s, n) ==
  [x \in SemKernel |-> IF x \notin SemCambio THEN s[x]
                       ELSE IF s[x] + n > MaxAvisos THEN MaxAvisos
                       ELSE s[x] + n]

\* mutant: a planner that waits for the semaphore of another
TomadoDeOtro(x) == [sem EXCEPT !["cambio_corto"] = @ - 1]

\* sem_wait and sem_post
Tomado(x) == [sem EXCEPT ![x] = @ - 1]

Posteado(x) == [sem EXCEPT ![x] = @ + 1]

\* mutant: the suspension leaves no post for the long term planner
SinAvisoDeSuspension(s) == s

\* the post after a suspension
AvisoDeSuspension(s) ==
  [s EXCEPT !["cambio_largo"] = IF @ + 1 > MaxAvisos THEN MaxAvisos ELSE @ + 1]

\* mutant: the dispatch does not take the processor
MoverSinOcupar(origen, destino, i) ==
  /\ listas' = [listas EXCEPT
                  ![origen]  = RemoveAt(@, i),
                  ![destino] = Append(@, listas[origen][i])]
  /\ multiprocesamiento' =
       multiprocesamiento + (IF destino = "blocked" THEN 1 ELSE 0)

\* mover_proceso_de_lista, without its notification: takes the element at
\* place i of a list to the end of another and counts the processors
Mover(origen, destino, i) ==
  /\ listas' = [listas EXCEPT
                  ![origen]  = RemoveAt(@, i),
                  ![destino] = Append(@, listas[origen][i])]
  /\ multiprocesamiento' =
       multiprocesamiento + (IF destino = "blocked" THEN 1 ELSE 0)
                          - (IF destino = "exec" THEN 1 ELSE 0)

-----------------------------------------------------------------------------
(* The long term: arrivals, admission and exit *)

\* nuevo_carpincho: the struct, its thread and the move to NEW
Nuevo(p) ==
  /\ caido = "no"
  /\ MutexListasLibre
  /\ p \notin Conectados
  /\ listas' = [listas EXCEPT !["new"] = Append(@, p)]
  /\ sem' = Avisado(sem, 1)
  /\ UNCHANGED <<banderas, carpincho, contadores, hilos, ajenos, historia>>

\* planificador_largo_plazo wakes up and admits one carpincho, the
\* suspended ones first; the counter is decremented after the move
LargoAdmite ==
  /\ caido = "no"
  /\ sem["cambio_largo"] > 0
  /\ MutexListasLibre
  /\ IF multiprogramacion_disponible # 0
        /\ (listas["s_ready"] # <<>> \/ listas["new"] # <<>>)
     THEN /\ Mover(IF listas["s_ready"] # <<>> THEN "s_ready" ELSE "new",
                   "ready", 1)
          /\ sem' = Avisado(Tomado("cambio_largo"), 1)
          /\ largo' = [pc |-> "carga"]
     ELSE /\ sem' = Tomado("cambio_largo")
          /\ UNCHANGED <<listas, multiprocesamiento, largo>>
  /\ UNCHANGED <<banderas, carpincho, multiprogramacion_disponible,
                 procesos_esperando_bloqueo, mediano, desbloqueo, salida,
                 bloqueo, ajenos, historia>>

\* multiprogramacion_disponible - 1: the load ...
LargoCarga ==
  /\ caido = "no"
  /\ largo.pc = "carga"
  /\ largo' = [pc |-> "guarda", leido |-> multiprogramacion_disponible]
  /\ UNCHANGED <<listas, banderas, carpincho, contadores, sem, mediano,
                 desbloqueo, salida, bloqueo, ajenos, historia>>

\* mutant: a carpincho admitted from S_READY is not discounted
LargoGuardaSinDescontar ==
  /\ largo.pc = "guarda"
  /\ multiprogramacion_disponible' =
       IF suspensiones > 0 THEN largo.leido ELSE largo.leido - 1
  /\ largo' = Quieto
  /\ UNCHANGED <<listas, banderas, carpincho, multiprocesamiento,
                 procesos_esperando_bloqueo, sem, mediano, desbloqueo,
                 salida, bloqueo, ajenos, historia>>

\* ... and the store, then mutex_listas is released
LargoGuarda ==
  /\ caido = "no"
  /\ largo.pc = "guarda"
  /\ multiprogramacion_disponible' = largo.leido - 1
  /\ solapada' = (solapada \/ largo.leido # multiprogramacion_disponible)
  /\ largo' = Quieto
  /\ UNCHANGED <<listas, banderas, carpincho, multiprocesamiento,
                 procesos_esperando_bloqueo, sem, mediano, desbloqueo,
                 salida, bloqueo, ajenos, suspensiones, caido, sobrantes>>

\* atender_proceso: the connection of p is closed or sends an unknown
\* code; the receiver sets the flag of its exit ...
Desconecta(p) ==
  /\ caido = "no"
  /\ p \notin salida_exit  \* bound: one request of exit for a carpincho
  /\ \E l \in Desconexiones : p \in En(l)
  /\ salida_exit' = salida_exit \cup {p}
  /\ por_llegar' = [por_llegar EXCEPT !["salida_a_exit"] = @ + 1]
  /\ UNCHANGED <<listas, block, salida_block, carpincho, contadores, sem,
                 hilos, seccion, detector, historia>>

\* ... and posts afterwards, as desbloquear does: sem_post of a thread that
\* set a flag and holds no mutex
LlegaPosteo(x) ==
  /\ caido = "no"
  /\ por_llegar[x] > 0
  /\ por_llegar' = [por_llegar EXCEPT ![x] = @ - 1]
  /\ sem' = Posteado(x)
  /\ UNCHANGED <<listas, banderas, carpincho, contadores, hilos, seccion,
                 detector, historia>>

\* liberar_recursos_en_deadlock, in a pass that has mutex_recursos: the
\* detector flags a blocked victim, or ends the kernel when it does not
\* find it blocked ...
EligeVictima(p) ==
  /\ caido = "no"
  /\ MutexRecursosLibre
  /\ espera[p] = "sem"
  /\ p \notin salida_exit  \* the same bound
  /\ IF p \in En("blocked") \cup En("s_blocked")
     THEN /\ salida_exit' = salida_exit \cup {p}
          /\ detector' = "postea"
          /\ UNCHANGED caido
     ELSE /\ caido' = "liberar_recursos_en_deadlock"
          /\ UNCHANGED <<salida_exit, detector>>
  /\ UNCHANGED <<listas, block, salida_block, carpincho, contadores, sem,
                 hilos, seccion, por_llegar, suspensiones, solapada,
                 sobrantes>>

\* ... posts, and the pass ends
DetectorPostea ==
  /\ caido = "no"
  /\ detector = "postea"
  /\ sem' = Posteado("salida_a_exit")
  /\ detector' = "espera"
  /\ UNCHANGED <<listas, banderas, carpincho, contadores, hilos, seccion,
                 por_llegar, historia>>

\* hilo_salida_a_exit looks for a flagged carpincho in all the lists but
\* lista_blocked, in this order
OrdenDeBusqueda == <<"exec", "new", "ready", "s_blocked", "s_ready">>

\* hilo_salida_a_exit wakes up and takes mutex_listas,
SalidaEntra ==
  /\ caido = "no"
  /\ sem["salida_a_exit"] > 0
  /\ MutexListasLibre
  /\ sem' = Tomado("salida_a_exit")
  /\ salida' = [pc |-> "recursos"]
  /\ UNCHANGED <<listas, banderas, carpincho, contadores, largo, mediano,
                 desbloqueo, bloqueo, ajenos, historia>>

\* mutex_recursos_asignados,
SalidaTomaRecursos ==
  /\ caido = "no"
  /\ salida.pc = "recursos"
  /\ MutexRecursosLibre
  /\ salida' = [pc |-> "semaforos"]
  /\ UNCHANGED <<listas, banderas, carpincho, contadores, sem, largo,
                 mediano, desbloqueo, bloqueo, ajenos, historia>>

\* and mutex_semaforos, and looks
SalidaBusca ==
  /\ caido = "no"
  /\ salida.pc = "semaforos"
  /\ MutexSemaforosLibre
  /\ IF \E k \in DOMAIN OrdenDeBusqueda :
          En(OrdenDeBusqueda[k]) \cap salida_exit # {}
     THEN \E k \in DOMAIN OrdenDeBusqueda :
            LET l == OrdenDeBusqueda[k] IN
            \E i \in DOMAIN listas[l] :
              /\ EsPrimero(listas[l], salida_exit, i)
              /\ \A j \in 1..(k - 1) :
                   En(OrdenDeBusqueda[j]) \cap salida_exit = {}
              /\ salida' = [pc |-> "mueve", de |-> l, indice |-> i,
                             aux |-> listas[l][i]]
              /\ multiprocesamiento' = multiprocesamiento
                                       + (IF l = "exec" THEN 1 ELSE 0)
     ELSE /\ salida' = [pc |-> "busca_blocked"]
          /\ UNCHANGED multiprocesamiento
  /\ UNCHANGED <<listas, banderas, carpincho, multiprogramacion_disponible,
                 procesos_esperando_bloqueo, sem, largo, mediano, desbloqueo,
                 bloqueo, ajenos, historia>>

\* ... and then in lista_blocked, which the medium term planner may have
\* changed meanwhile; finding nobody, it lets go of the mutexes
SalidaBuscaBlocked ==
  /\ caido = "no"
  /\ salida.pc = "busca_blocked"
  /\ IF En("blocked") \cap salida_exit # {}
     THEN \E i \in DOMAIN listas["blocked"] :
            /\ EsPrimero(listas["blocked"], salida_exit, i)
            /\ salida' = [pc |-> "mueve", de |-> "blocked", indice |-> i,
                           aux |-> listas["blocked"][i]]
     ELSE salida' = Quieto
  /\ UNCHANGED <<listas, banderas, carpincho, contadores, sem, largo,
                 mediano, desbloqueo, bloqueo, ajenos, historia>>

\* the move to EXIT of what is at that place now, which notifies twice.
\* eliminar_solicitud_de_sem drops the request of a semaphore of the one it
\* found (aux), unless its search passes over it (module Semaforos);
\* list_remove past the end of lista_blocked gives NULL
SalidaMueve ==
  /\ caido = "no"
  /\ salida.pc = "mueve"
  /\ IF salida.indice \in DOMAIN listas[salida.de]
     THEN /\ Mover(salida.de, "exit", salida.indice)
          /\ \/ espera' = [espera EXCEPT ![salida.aux] =
                             IF @ = "sem" THEN "nada" ELSE @]
             \/ espera' = espera
          /\ sem' = Avisado(sem, 2)
          /\ salida' = [pc |-> "libera", de |-> salida.de]
          /\ UNCHANGED caido
     ELSE /\ caido' = "elemento_nulo"
          /\ UNCHANGED <<listas, multiprocesamiento, espera, sem, salida>>
  /\ UNCHANGED <<banderas, corriendo, por_postear,
                 multiprogramacion_disponible, procesos_esperando_bloqueo,
                 largo, mediano, desbloqueo, bloqueo, ajenos, suspensiones,
                 solapada, sobrantes>>

\* one more of its resources goes to p, the first that waits for it:
\* postear_semaforo takes p out of the queue ...
SalidaLibera(p) ==
  /\ caido = "no"
  /\ salida.pc = "libera"
  /\ espera[p] = "sem"
  /\ espera' = [espera EXCEPT ![p] = "nada"]
  /\ salida' = [pc |-> "gira", de |-> salida.de, para |-> p]
  /\ UNCHANGED <<listas, banderas, corriendo, por_postear, contadores, sem,
                 largo, mediano, desbloqueo, bloqueo, ajenos, historia>>

\* ... and waits, with mutex_listas, until nobody is on its way to BLOCKED:
\* for ever if somebody is.  The post comes with the flag, which nobody
\* looks at without mutex_listas
SalidaDespierta ==
  /\ caido = "no"
  /\ salida.pc = "gira"
  /\ procesos_esperando_bloqueo = 0
  /\ IF salida.para \in En("blocked") \cup En("s_blocked")
     THEN /\ salida_block' = salida_block \cup {salida.para}
          /\ sem' = Posteado("salida_block")
          /\ salida' = [pc |-> "libera", de |-> salida.de]
          /\ UNCHANGED caido
     ELSE /\ caido' = "traer_proceso_bloqueado"
          /\ UNCHANGED <<salida_block, sem, salida>>
  /\ UNCHANGED <<listas, block, salida_exit, carpincho, contadores, largo,
                 mediano, desbloqueo, bloqueo, ajenos, suspensiones,
                 solapada, sobrantes>>

\* no resource is left: multiprogramacion_disponible + 1 under
\* mutex_multiprogramacion, the last notification, and the mutexes released
SalidaSuma ==
  /\ caido = "no"
  /\ salida.pc = "libera"
  /\ mediano.pc \notin {"carga", "guarda"}
  /\ multiprogramacion_disponible' = multiprogramacion_disponible + 1
  /\ sobrantes' = sobrantes
                  + (IF salida.de \in {"new", "s_blocked", "s_ready"}
                     THEN 1 ELSE 0)
  /\ sem' = Avisado(sem, 1)
  /\ salida' = Quieto
  /\ UNCHANGED <<listas, banderas, carpincho, multiprocesamiento,
                 procesos_esperando_bloqueo, largo, mediano, desbloqueo,
                 bloqueo, ajenos, suspensiones, caido, solapada>>

-----------------------------------------------------------------------------
(* The short term: dispatch, execution and the way to BLOCKED *)

\* mutant: dispatches without asking for a free processor
CortoSinProcesador ==
  /\ caido = "no"
  /\ sem["cambio_corto"] > 0
  /\ MutexListasLibre
  /\ IF listas["ready"] # <<>>
     THEN \E i \in DOMAIN listas["ready"] :
            /\ Mover("ready", "exec", i)
            /\ corriendo' = corriendo \cup {listas["ready"][i]}
            /\ sem' = Avisado(Tomado("cambio_corto"), 1)
     ELSE /\ sem' = Tomado("cambio_corto")
          /\ UNCHANGED <<listas, multiprocesamiento, corriendo>>
  /\ UNCHANGED <<banderas, por_postear, espera, multiprogramacion_disponible,
                 procesos_esperando_bloqueo, hilos, ajenos, historia>>

\* planificador_corto_plazo_sjf / _hrrn: one carpincho of lista_ready, the
\* choice of the estimations left open, goes to exec and its thread starts
Corto ==
  /\ caido = "no"
  /\ sem["cambio_corto"] > 0
  /\ MutexListasLibre
  /\ IF multiprocesamiento # 0 /\ listas["ready"] # <<>>
     THEN \E i \in DOMAIN listas["ready"] :
            /\ Mover("ready", "exec", i)
            /\ corriendo' = corriendo \cup {listas["ready"][i]}
            /\ sem' = Avisado(Tomado("cambio_corto"), 1)
     ELSE /\ sem' = Tomado("cambio_corto")
          /\ UNCHANGED <<listas, multiprocesamiento, corriendo>>
  /\ UNCHANGED <<banderas, por_postear, espera, multiprogramacion_disponible,
                 procesos_esperando_bloqueo, hilos, ajenos, historia>>

\* exec leaves its loop: a semaphore it must wait for ("sem"), one that
\* does not exist ("nada": nobody will wake it up) or an I/O ("io", whose
\* thread is already counting).  bloquear sets the flag ...
MarcaBloqueo(p, motivo) ==
  /\ caido = "no"
  /\ p \in corriendo
  /\ p \notin Ocupado
  /\ p \notin por_postear  \* bound: one exec thread of p inside bloquear
  /\ corriendo' = corriendo \ {p}
  /\ espera' = [espera EXCEPT ![p] = motivo]
  /\ block' = block \cup {p}
  /\ por_postear' = por_postear \cup {p}
  /\ UNCHANGED <<listas, salida_block, salida_exit, contadores, sem, hilos,
                 ajenos, historia>>

\* ... then counts itself and posts
PosteaBloqueo(p) ==
  /\ caido = "no"
  /\ p \in por_postear
  /\ por_postear' = por_postear \ {p}
  /\ procesos_esperando_bloqueo' = procesos_esperando_bloqueo + 1
  /\ sem' = Posteado("solicitar_block")
  /\ UNCHANGED <<listas, banderas, corriendo, espera,
                 multiprogramacion_disponible, multiprocesamiento, hilos,
                 ajenos, historia>>

\* a carpincho moved to EXIT while it executed takes the task
\* CLIENTE_DESCONECTADO and its exec thread returns
ExecTermina(p) ==
  /\ caido = "no"
  /\ p \in corriendo \ Ocupado
  /\ p \in En("exit")
  /\ corriendo' = corriendo \ {p}
  /\ UNCHANGED <<listas, banderas, por_postear, espera, contadores, sem,
                 hilos, ajenos, historia>>

\* esperar_bloqueo takes mutex_listas and counts the carpincho down ...
EsperarBloqueo ==
  /\ caido = "no"
  /\ sem["solicitar_block"] > 0
  /\ MutexListasLibre
  /\ sem' = Tomado("solicitar_block")
  /\ procesos_esperando_bloqueo' = procesos_esperando_bloqueo - 1
  /\ bloqueo' = [pc |-> "mueve"]
  /\ UNCHANGED <<listas, banderas, carpincho, multiprogramacion_disponible,
                 multiprocesamiento, largo, mediano, desbloqueo, salida,
                 ajenos, historia>>

\* ... before the first of lista_exec with the flag goes to BLOCKED
BloqueoMueve ==
  /\ caido = "no"
  /\ bloqueo.pc = "mueve"
  /\ bloqueo' = Quieto
  /\ IF En("exec") \cap block # {}
     THEN \E i \in DOMAIN listas["exec"] :
            /\ EsPrimero(listas["exec"], block, i)
            /\ Mover("exec", "blocked", i)
            /\ block' = Apagada(block, listas["exec"][i])
            /\ sem' = Avisado(sem, 1)
     ELSE UNCHANGED <<listas, multiprocesamiento, block, sem>>
  /\ UNCHANGED <<salida_block, salida_exit, carpincho,
                 multiprogramacion_disponible, procesos_esperando_bloqueo,
                 largo, mediano, desbloqueo, salida, ajenos, historia>>

-----------------------------------------------------------------------------
(* The medium term: suspension, and the way out of BLOCKED *)

\* planificador_mediano_plazo reads the three sizes without mutex_listas
MedianoLee ==
  /\ caido = "no"
  /\ sem["cambio_mediano"] > 0
  /\ mediano.pc = "espera"
  /\ sem' = Tomado("cambio_mediano")
  /\ IF /\ listas["blocked"] # <<>> /\ listas["ready"] = <<>>
        /\ listas["new"] # <<>> /\ suspensiones < MaxSuspensiones
     THEN mediano' = [pc |-> "mueve", indice |-> Len(listas["blocked"])]
     ELSE UNCHANGED mediano
  /\ UNCHANGED <<listas, banderas, carpincho, contadores, largo, desbloqueo,
                 salida, bloqueo, ajenos, historia>>

\* and moves what it saw as the last of lista_blocked
MedianoMueve ==
  /\ caido = "no"
  /\ mediano.pc = "mueve"
  /\ IF mediano.indice \in DOMAIN listas["blocked"]
     THEN /\ Mover("blocked", "s_blocked", mediano.indice)
          /\ sem' = Avisado(sem, 1)
          /\ mediano' = [pc |-> "carga"]
          /\ suspensiones' = suspensiones + 1
          /\ UNCHANGED caido
     ELSE /\ caido' = "elemento_nulo"
          /\ UNCHANGED <<listas, multiprocesamiento, sem, mediano,
                         suspensiones>>
  /\ UNCHANGED <<banderas, carpincho, multiprogramacion_disponible,
                 procesos_esperando_bloqueo, largo, desbloqueo, salida,
                 bloqueo, ajenos, solapada, sobrantes>>

\* multiprogramacion_disponible + 1 under mutex_multiprogramacion, which
\* the long term planner does not take: the load ...
MedianoCarga ==
  /\ caido = "no"
  /\ mediano.pc = "carga"
  /\ mediano' = [pc |-> "guarda", leido |-> multiprogramacion_disponible]
  /\ UNCHANGED <<listas, banderas, carpincho, contadores, sem, largo,
                 desbloqueo, salida, bloqueo, ajenos, historia>>

\* ... the store, and a post for the long term planner
MedianoGuarda ==
  /\ caido = "no"
  /\ mediano.pc = "guarda"
  /\ multiprogramacion_disponible' = mediano.leido + 1
  /\ solapada' = (solapada \/ mediano.leido # multiprogramacion_disponible)
  /\ sem' = AvisoDeSuspension(sem)
  /\ mediano' = Quieto
  /\ UNCHANGED <<listas, banderas, carpincho, multiprocesamiento,
                 procesos_esperando_bloqueo, largo, desbloqueo, salida,
                 bloqueo, ajenos, suspensiones, caido, sobrantes>>

\* desbloquear_en: the I/O of p is over, and desbloquear sets the flag (its
\* post is LlegaPosteo)
FinIO(p) ==
  /\ caido = "no"
  /\ espera[p] = "io"
  /\ espera' = [espera EXCEPT ![p] = "nada"]
  /\ salida_block' = salida_block \cup {p}
  /\ por_llegar' = [por_llegar EXCEPT !["salida_block"] = @ + 1]
  /\ UNCHANGED <<listas, block, salida_exit, corriendo, por_postear,
                 contadores, sem, hilos, seccion, detector, historia>>

\* exec of q comes to a wait, a post or a destruction: mutex_semaforos,
SeccionEntra(q) ==
  /\ caido = "no"
  /\ q \in corriendo
  /\ MutexSemaforosLibre
  /\ seccion' = [pc |-> "recursos", de |-> q]
  /\ UNCHANGED <<listas, banderas, carpincho, contadores, sem, hilos,
                 detector, por_llegar, historia>>

\* then mutex_recursos_asignados
SeccionTomaRecursos ==
  /\ caido = "no"
  /\ seccion.pc = "recursos"
  /\ MutexRecursosLibre
  /\ seccion' = [seccion EXCEPT !.pc = "dentro"]
  /\ UNCHANGED <<listas, banderas, carpincho, contadores, sem, hilos,
                 detector, por_llegar, historia>>

\* postear_semaforo with solicitantes takes p out of the queue ...
Postea(p) ==
  /\ caido = "no"
  /\ seccion.pc = "dentro"
  /\ espera[p] = "sem"
  /\ espera' = [espera EXCEPT ![p] = "nada"]
  /\ seccion' = [pc |-> "gira", de |-> seccion.de, para |-> p]
  /\ UNCHANGED <<listas, banderas, corriendo, por_postear, contadores, sem,
                 hilos, detector, por_llegar, historia>>

\* ... waits until nobody is on its way to BLOCKED, and flags p;
\* traer_proceso_bloqueado ends the kernel when p is not blocked
PosteaTrae ==
  /\ caido = "no"
  /\ seccion.pc = "gira"
  /\ procesos_esperando_bloqueo = 0
  /\ IF seccion.para \in En("blocked") \cup En("s_blocked")
     THEN /\ salida_block' = salida_block \cup {seccion.para}
          /\ seccion' = [pc |-> "postea", de |-> seccion.de]
          /\ UNCHANGED caido
     ELSE /\ caido' = "traer_proceso_bloqueado"
          /\ UNCHANGED <<salida_block, seccion>>
  /\ UNCHANGED <<listas, block, salida_exit, carpincho, contadores, sem,
                 hilos, detector, por_llegar, suspensiones, solapada,
                 sobrantes>>

\* the post of desbloquear
PosteaAvisa ==
  /\ caido = "no"
  /\ seccion.pc = "postea"
  /\ sem' = Posteado("salida_block")
  /\ seccion' = [seccion EXCEPT !.pc = "dentro"]
  /\ UNCHANGED <<listas, banderas, carpincho, contadores, hilos, detector,
                 por_llegar, historia>>

\* both mutexes are released
SeccionSale ==
  /\ caido = "no"
  /\ seccion.pc = "dentro"
  /\ seccion' = Quieto
  /\ UNCHANGED <<listas, banderas, carpincho, contadores, sem, hilos,
                 detector, por_llegar, historia>>

\* salida_de_block takes mutex_listas and reads the two sizes ...
DesbloqueoLee ==
  /\ caido = "no"
  /\ sem["salida_block"] > 0
  /\ MutexListasLibre
  /\ sem' = Tomado("salida_block")
  /\ desbloqueo' = [pc |-> "busca",
                    tamanio_lista_blocked   |-> Len(listas["blocked"]),
                    tamanio_lista_s_blocked |-> Len(listas["s_blocked"])]
  /\ UNCHANGED <<listas, banderas, carpincho, contadores, largo, mediano,
                 salida, bloqueo, ajenos, historia>>

\* ... looks for a flagged carpincho up to those sizes, BLOCKED first;
\* list_get past the end of the list gives NULL
DesbloqueoBusca ==
  /\ caido = "no"
  /\ desbloqueo.pc = "busca"
  /\ \/ \E i \in DOMAIN listas["blocked"] :
          /\ EsPrimero(listas["blocked"], salida_block, i)
          /\ i <= desbloqueo.tamanio_lista_blocked
          /\ salida_block' = Apagada(salida_block, listas["blocked"][i])
          /\ desbloqueo' = [pc |-> "mueve", de |-> "blocked", indice |-> i]
          /\ UNCHANGED caido
     \/ /\ En("blocked") \cap salida_block = {}
        /\ desbloqueo.tamanio_lista_blocked > Len(listas["blocked"])
        /\ caido' = "elemento_nulo"
        /\ UNCHANGED <<salida_block, desbloqueo>>
     \/ /\ En("blocked") \cap salida_block = {}
        /\ desbloqueo.tamanio_lista_blocked <= Len(listas["blocked"])
        /\ \E i \in DOMAIN listas["s_blocked"] :
             /\ EsPrimero(listas["s_blocked"], salida_block, i)
             /\ i <= desbloqueo.tamanio_lista_s_blocked
             /\ salida_block' = Apagada(salida_block, listas["s_blocked"][i])
        \* the code moves index 0, not the place it found
        /\ desbloqueo' = [pc |-> "mueve", de |-> "s_blocked", indice |-> 1]
        /\ UNCHANGED caido
     \/ /\ En("blocked") \cap salida_block = {}
        /\ desbloqueo.tamanio_lista_blocked <= Len(listas["blocked"])
        /\ \A i \in 1..desbloqueo.tamanio_lista_s_blocked :
             listas["s_blocked"][i] \notin salida_block
        /\ desbloqueo' = Quieto
        /\ UNCHANGED <<salida_block, caido>>
  /\ UNCHANGED <<listas, block, salida_exit, carpincho, contadores, sem,
                 largo, mediano, salida, bloqueo, ajenos, suspensiones,
                 solapada, sobrantes>>

\* the move, to READY or to S_READY
DesbloqueoMueve ==
  /\ caido = "no"
  /\ desbloqueo.pc = "mueve"
  /\ IF desbloqueo.indice \in DOMAIN listas[desbloqueo.de]
     THEN /\ Mover(desbloqueo.de,
                   IF desbloqueo.de = "blocked" THEN "ready" ELSE "s_ready",
                   desbloqueo.indice)
          /\ sem' = Avisado(sem, 1)
          /\ desbloqueo' = Quieto
          /\ UNCHANGED caido
     ELSE /\ caido' = "elemento_nulo"
          /\ UNCHANGED <<listas, multiprocesamiento, sem, desbloqueo>>
  /\ UNCHANGED <<banderas, carpincho, multiprogramacion_disponible,
                 procesos_esperando_bloqueo, largo, mediano, salida, bloqueo,
                 ajenos, suspensiones, solapada, sobrantes>>

-----------------------------------------------------------------------------
Motivos == {"sem", "nada"} \cup (IF ConIO THEN {"io"} ELSE {})

Next ==
  \/ LargoAdmite \/ LargoCarga \/ LargoGuarda
  \/ SalidaEntra \/ SalidaTomaRecursos \/ SalidaBusca \/ SalidaBuscaBlocked
  \/ SalidaMueve \/ SalidaDespierta \/ SalidaSuma
  \/ Corto \/ EsperarBloqueo \/ BloqueoMueve
  \/ MedianoLee \/ MedianoMueve \/ MedianoCarga \/ MedianoGuarda
  \/ DesbloqueoLee \/ DesbloqueoBusca \/ DesbloqueoMueve
  \/ SeccionTomaRecursos \/ PosteaTrae \/ PosteaAvisa \/ SeccionSale
  \/ DetectorPostea
  \/ \E x \in SemBandera : LlegaPosteo(x)
  \/ \E p \in Procesos :
       \/ Nuevo(p) \/ Desconecta(p) \/ EligeVictima(p)
       \/ \E motivo \in Motivos : MarcaBloqueo(p, motivo)
       \/ PosteaBloqueo(p) \/ ExecTermina(p) \/ FinIO(p)
       \/ SeccionEntra(p) \/ Postea(p) \/ SalidaLibera(p)

Spec == Init /\ [][Next]_vars

-----------------------------------------------------------------------------
(* Properties *)

Caidas == {"no", "elemento_nulo", "traer_proceso_bloqueado",
           "liberar_recursos_en_deadlock"}

\* The type invariant of the module.
TypeOK ==
  /\ listas \in [Listas -> Seq(Procesos)]
  /\ block \subseteq Procesos /\ salida_block \subseteq Procesos
  /\ salida_exit \subseteq Procesos
  /\ corriendo \subseteq Procesos /\ por_postear \subseteq Procesos
  /\ espera \in [Procesos -> {"nada", "sem", "io"}]
  /\ multiprogramacion_disponible \in Int
  /\ multiprocesamiento \in Int
  /\ procesos_esperando_bloqueo \in Int
  /\ sem \in [SemKernel -> Nat]
  /\ caido \in Caidas
  /\ solapada \in BOOLEAN
  /\ suspensiones \in Nat /\ sobrantes \in Nat
  /\ bloqueo \in {Quieto, [pc |-> "mueve"]}
  /\ seccion \in {Quieto}
                \cup [pc : {"recursos", "dentro", "postea"}, de : Procesos]
                \cup [pc : {"gira"}, de : Procesos, para : Procesos]
  /\ detector \in {"espera", "postea"}
  /\ por_llegar \in [SemBandera -> Nat]
  /\ largo \in {Quieto, [pc |-> "carga"]} \cup [pc : {"guarda"}, leido : Int]
  /\ mediano \in {Quieto, [pc |-> "carga"]}
                \cup [pc : {"mueve"}, indice : Nat]
                \cup [pc : {"guarda"}, leido : Int]
  /\ desbloqueo \in {Quieto}
                   \cup [pc : {"busca"}, tamanio_lista_blocked : Nat,
                         tamanio_lista_s_blocked : Nat]
                   \cup [pc : {"mueve"}, de : {"blocked", "s_blocked"},
                         indice : Nat]
  /\ salida \in {Quieto}
               \cup [pc : {"recursos", "semaforos", "busca_blocked"}]
               \cup [pc : {"mueve"}, de : Listas \ {"exit"}, indice : Nat,
                     aux : Procesos]
               \cup [pc : {"libera"}, de : Listas \ {"exit"}]
               \cup [pc : {"gira"}, de : Listas \ {"exit"},
                     para : Procesos]

\* Every processor of the configuration is either free or has its carpincho
\* in lista_exec, whoever moves whom: multiprocesamiento, which four threads
\* write, is never off.  hilo_salida_a_exit gives the processor back before
\* it takes the carpincho out of the list.
MultiprocesamientoExacto ==
  multiprocesamiento + Len(listas["exec"]) =
    GradoMultiprocesamiento
    + (IF salida.pc = "mueve" THEN IF salida.de = "exec" THEN 1 ELSE 0
       ELSE 0)

\* The long term planner never sleeps while it could admit somebody: one
\* post admits one carpincho, and every change that makes an admission
\* possible (an arrival, an exit, a suspension, a wake-up) leaves a post.
LargoDespierto ==
  (/\ multiprogramacion_disponible # 0
   /\ listas["s_ready"] # <<>> \/ listas["new"] # <<>>
   /\ caido = "no")
  => sem["cambio_largo"] > 0

\* Nor does the short term planner while a processor is free and a
\* carpincho is ready, save while hilo_salida_a_exit is about to notify the
\* exit that has just freed the processor.
CortoDespierto ==
  (/\ multiprocesamiento # 0
   /\ listas["ready"] # <<>>
   /\ salida.pc # "mueve"
   /\ caido = "no")
  => sem["cambio_corto"] > 0

Uno(b) == IF b THEN 1 ELSE 0

\* A carpincho that asked to be blocked is not forgotten in lista_exec:
\* esperar_bloqueo has a post for each flag, or the post is on its way, or
\* esperar_bloqueo is about to look, whoever the post was made for: also
\* when carpinchos are suspended, killed or moved to EXIT meanwhile and their
\* posts move somebody else.
BloqueoNoSePierde ==
  Cardinality(En("exec") \cap block)
    <= sem["solicitar_block"] + Cardinality(por_postear)
       + Uno(bloqueo.pc = "mueve")

\* The carpinchos that count against GRADO_MULTIPROGRAMACION
Admitidos == Len(listas["ready"]) + Len(listas["exec"])
             + Len(listas["blocked"])

\* the exit whose unit is still to be counted
DeSalida == Uno(/\ salida.pc \in {"libera", "gira"}
                /\ salida.de \in {"ready", "exec", "blocked"})

\* What multiprogramacion_disponible is off by, exactly: a move whose update
\* of the counter is still to come, and one unit too many for every exit
\* from NEW, S_BLOCKED or S_READY (planificador_largo.c:371 adds it whatever
\* the list).  The only other cause of an error is the lost update of two
\* threads that hold different mutexes, recorded in solapada.
ContabilidadMultiprogramacion ==
  ~solapada =>
    multiprogramacion_disponible + Admitidos =
      GradoMultiprogramacion + sobrantes
      + Uno(largo.pc # "espera")
      - Uno(mediano.pc \in {"carga", "guarda"})
      - DeSalida

\* traer_proceso_bloqueado always finds the carpincho a post wakes up: it
\* never comes to its log_error and exit(1).
TraerEncuentra == caido # "traer_proceso_bloqueado"

\* The scheduler implements the life cycle.
Estado(p) == IF \E l \in Listas : p \in En(l)
             THEN CHOOSE l \in Listas : p \in En(l)
             ELSE "fuera"

Ciclo == INSTANCE CicloDeVida
           WITH Grado <- GradoMultiprocesamiento,
                estado <- [p \in Procesos |-> Estado(p)]

ImplementaCicloDeVida == Ciclo!Spec

=============================================================================
