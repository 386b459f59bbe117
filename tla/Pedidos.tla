------------------------------ MODULE Pedidos ------------------------------
(***************************************************************************)
(* The conversation of the carpinchos with the system, end to end: the     *)
(* calls of matelib, the sockets, the kernel's thread that reads the       *)
(* requests of a carpincho (atender_proceso) and the one that does them    *)
(* (exec), the relay of the requests of memory over the one socket that    *)
(* the kernel has with memoria, hilo_salida_a_exit, and memoria itself,    *)
(* which carpinchos use directly when there is no kernel.                  *)
(*                                                                         *)
(* A packet is its code and, as history, the number of the request that it *)
(* is or answers.  Which list a carpincho is in is kept as far as its      *)
(* threads depend on it: the planners are module Planificacion, and when a *)
(* semaphore is granted or a carpincho woken up, module Semaforos.  A      *)
(* dispatch may start no exec thread, as module AvisarCambio shows.        *)
(***************************************************************************)
EXTENDS Integers, Sequences, FiniteSets, SequencesExt

CONSTANTS
  Carpinchos,
  MaxPedidos, \* bound: the requests of each, after mate_init
  Escenarios  \* what the carpinchos connect to, GRADO_MULTIPROCESAMIENTO, the
              \* operations they use; and bounds: how many are killed, how
              \* many are chosen by the detector of deadlocks

DeMemoria == {"MEMALLOC", "MEMFREE", "MEMREAD", "MEMWRITE"}
DeKernel  == {"INIT_SEM", "SEM_WAIT", "SEM_POST", "SEM_DESTROY", "CALLIO"}

Nadie == "nadie"

ASSUME PedidosOK ==
  /\ MaxPedidos \in Nat /\ Nadie \notin Carpinchos
  /\ Escenarios \subseteq
       [servidor : {"kernel", "memoria"}, procesadores : Nat \ {0},
        operaciones : SUBSET (DeMemoria \cup DeKernel),
        muertes : Nat, victimas : Nat]

VARIABLES
  escenario,
  cliente,      \* of each: pc, and op, the operation it called last
  desconectado, \* of lib_ref
  pedidos,      \* the requests made so far
  hacia, desde, \* what is in the socket, from and to the carpincho
  conexion,     \* of each: "ninguna", "abierta"; the carpincho closed it
                \* ("cerrada"), and TCP told the server so ("reset")
  atiende,      \* the thread atender_proceso of each
  libre_para_inicializar_proceso,
  lista,        \* "ninguna", "ready" (and the other lists of those that wait
                \* for a processor), "exec", "blocked" (either), "exit"
  task_list,
  exec,         \* the exec thread of each: pc, task
  salida_exit, salida_a_exit, \* the flags and the posts of an exit
  saliendo,     \* whom hilo_salida_a_exit has in its hands
  con_memoria,  \* is socket_cliente_memoria connected?
  a_memoria, de_memoria, \* what is in it
  a_medias,     \* who has read the code of the first packet, and not the rest
  caido,        \* what ended: "no", "kernel", "memoria"; "salida", the loop of
                \* hilo_salida_a_exit that never ends; "cruce", two threads
                \* read parts of one packet
  muertos, victimas \* history: who was killed, who was chosen

sockets == <<hacia, desde, conexion>>
clientes == <<cliente, desconectado, pedidos>>
conexiones == <<atiende, libre_para_inicializar_proceso>>
salidas == <<salida_exit, salida_a_exit, saliendo, victimas>>
memoria == <<con_memoria, a_memoria, de_memoria, a_medias>>
kernel == <<conexiones, lista, task_list, exec, salidas, memoria>>
ajenos == <<escenario, muertos>>
vars == <<clientes, ajenos, sockets, kernel, caido>>

ConKernel == escenario.servidor = "kernel"

Paquete(cod, n) == [cod |-> cod, n |-> n]
Desconexion == Paquete("CLIENTE_DESCONECTADO", 0)

Init ==
  /\ escenario \in Escenarios
  /\ cliente = [c \in Carpinchos |-> [pc |-> "afuera", op |-> "ninguna"]]
  /\ desconectado = [c \in Carpinchos |-> FALSE]
  /\ pedidos = [c \in Carpinchos |-> 0]
  /\ hacia = [c \in Carpinchos |-> <<>>] /\ desde = hacia
  /\ conexion = [c \in Carpinchos |-> "ninguna"]
  /\ atiende = [c \in Carpinchos |-> "no"]
  /\ libre_para_inicializar_proceso = 1
  /\ lista = [c \in Carpinchos |-> "ninguna"]
  /\ task_list = hacia
  /\ exec = [c \in Carpinchos |-> [pc |-> "fuera", task |-> Desconexion]]
  /\ salida_exit = {} /\ salida_a_exit = 0 /\ saliendo = Nadie
  /\ con_memoria = FALSE /\ a_memoria = <<>> /\ de_memoria = <<>>
  /\ a_medias = Nadie
  /\ caido = "no" /\ muertos = {} /\ victimas = {}
-----------------------------------------------------------------------------
(* The carpinchos: matelib.  A call sends its request and waits. *)

Pide(c, op, n) ==
  /\ cliente' = [cliente EXCEPT ![c] = [pc |-> "espera", op |-> op]]
  /\ pedidos' = [pedidos EXCEPT ![c] = n]
  /\ hacia' = [hacia EXCEPT ![c] = Append(@, Paquete(op, n))]

\* mate_init: to the kernel if it is there, else to memoria
MateInit(c) ==
  /\ cliente[c].pc = "afuera" /\ caido = "no"
  /\ Pide(c, "NUEVO_CARPINCHO", 0)
  /\ conexion' = [conexion EXCEPT ![c] = "abierta"]
  /\ UNCHANGED <<desconectado, desde, ajenos, kernel, caido>>

\* any other call, while nothing went wrong
Llama(c) ==
  /\ cliente[c].pc = "corre" /\ ~desconectado[c] /\ pedidos[c] < MaxPedidos
  /\ \E op \in escenario.operaciones : Pide(c, op, pedidos[c] + 1)
  /\ UNCHANGED <<desconectado, desde, conexion, ajenos, kernel, caido>>

\* afterwards mate_memalloc and mate_memread never return; the others return
\* an error at once
Gira(c) ==
  /\ cliente[c].pc = "corre" /\ desconectado[c]
  /\ escenario.operaciones \cap {"MEMALLOC", "MEMREAD"} # {}
  /\ cliente' = [cliente EXCEPT ![c].pc = "gira"]
  /\ UNCHANGED <<desconectado, pedidos, ajenos, sockets, kernel, caido>>

\* the answer that each call takes for success
Esperado(op) == IF op \in DeMemoria THEN op ELSE "OP_CONFIRMADA"

\* mate_init returns an error and nothing else
Recibido(c, cod) ==
  /\ cliente' = [cliente EXCEPT ![c].pc = "corre"]
  /\ desconectado' =
       [desconectado EXCEPT ![c] = /\ cod # Esperado(cliente[c].op)
                                   /\ cliente[c].op # "NUEVO_CARPINCHO"]

Recibe(c) ==
  /\ cliente[c].pc = "espera"
  /\ \/ /\ desde[c] # <<>>
        /\ Recibido(c, Head(desde[c]).cod)
        /\ desde' = [desde EXCEPT ![c] = Tail(@)]
     \/ /\ desde[c] = <<>> /\ caido = escenario.servidor
        /\ Recibido(c, "CLIENTE_DESCONECTADO")
        /\ UNCHANGED desde
  /\ UNCHANGED <<pedidos, hacia, conexion, ajenos, kernel, caido>>

\* the socket is closed, here or when the program ends; the server is told
\* at once if something was left to read
Cierra(c) ==
  /\ cliente' = [cliente EXCEPT ![c].pc = "fin"]
  /\ conexion' = [conexion EXCEPT
                    ![c] = IF desde[c] = <<>> THEN "cerrada" ELSE "reset"]
  /\ UNCHANGED <<desconectado, pedidos, desde, kernel, caido>>

\* mate_close and the end of the program
MateClose(c) ==
  /\ cliente[c].pc = "corre"
  /\ hacia' = IF desconectado[c] THEN hacia
              ELSE [hacia EXCEPT ![c] = Append(@, Desconexion)]
  /\ Cierra(c) /\ UNCHANGED ajenos

\* it is killed
Muere(c) ==
  /\ cliente[c].pc \in {"espera", "corre", "gira"}
  /\ Cardinality(muertos) < escenario.muertes
  /\ muertos' = muertos \cup {c}
  /\ Cierra(c) /\ UNCHANGED <<escenario, hacia>>
-----------------------------------------------------------------------------
(* The server's end of a socket *)

Cerrada(c) == conexion[c] \in {"cerrada", "reset"}

\* recibir_paquete.  At the end of the stream the code is whatever malloc
\* gave: 0 or part of an address, which count as CLIENTE_DESCONECTADO
Lee(c, cod) == \/ hacia[c] # <<>> /\ Head(hacia[c]).cod = cod
               \/ /\ hacia[c] = <<>> /\ Cerrada(c)
                  /\ cod = "CLIENTE_DESCONECTADO"

Leido(c) == [hacia EXCEPT ![c] = IF @ = <<>> THEN @ ELSE Tail(@)]

\* enviar_paquete.  Nobody ignores SIGPIPE: to send on a connection that was
\* reset ends the process, unless the error of the reset is reported first
Envia(c, cod, n) ==
  \/ /\ conexion[c] = "abierta"
     /\ desde' = [desde EXCEPT ![c] = Append(@, Paquete(cod, n))]
     /\ UNCHANGED <<conexion, caido>>
  \/ /\ conexion[c] = "cerrada"
     /\ conexion' = [conexion EXCEPT ![c] = "reset"]
     /\ UNCHANGED <<desde, caido>>
  \/ /\ conexion[c] = "reset"
     /\ caido' \in {"no", escenario.servidor}
     /\ UNCHANGED <<desde, conexion>>
-----------------------------------------------------------------------------
(* The kernel: its server and the threads atender_proceso *)

EnKernel == ConKernel /\ caido = "no"

\* mutant: two carpinchos may be accepted at once
AceptaSinEsperar(c) ==
  /\ EnKernel /\ conexion[c] # "ninguna" /\ atiende[c] = "no"
  /\ libre_para_inicializar_proceso' = libre_para_inicializar_proceso - 1
  /\ atiende' = [atiende EXCEPT ![c] = "lee"]
  /\ UNCHANGED <<clientes, ajenos, sockets, lista, task_list, exec, salidas,
                 memoria, caido>>

\* iniciar_servidor_kernel
Acepta(c) ==
  /\ EnKernel /\ conexion[c] # "ninguna" /\ atiende[c] = "no"
  /\ libre_para_inicializar_proceso > 0
  /\ libre_para_inicializar_proceso' = libre_para_inicializar_proceso - 1
  /\ atiende' = [atiende EXCEPT ![c] = "lee"]
  /\ UNCHANGED <<clientes, ajenos, sockets, lista, task_list, exec, salidas,
                 memoria, caido>>

\* NUEVO_CARPINCHO: nuevo_carpincho
AtiendeNuevo(c) ==
  /\ EnKernel /\ atiende[c] = "lee" /\ Lee(c, "NUEVO_CARPINCHO")
  /\ hacia' = Leido(c)
  /\ lista' = [lista EXCEPT ![c] = "ready"]
  /\ exec' = [exec EXCEPT ![c].task = Head(hacia[c])]
  /\ libre_para_inicializar_proceso' = libre_para_inicializar_proceso + 1
  /\ UNCHANGED <<clientes, ajenos, desde, conexion, atiende, task_list,
                 salidas, memoria, caido>>

\* a request becomes a task
AtiendeTarea(c) ==
  /\ EnKernel /\ atiende[c] = "lee"
  /\ \E op \in DeKernel \cup DeMemoria : Lee(c, op)
  /\ hacia' = Leido(c)
  /\ task_list' = [task_list EXCEPT ![c] = Append(@, Head(hacia[c]))]
  /\ UNCHANGED <<clientes, ajenos, desde, conexion, conexiones, lista, exec,
                 salidas, memoria, caido>>

AtiendeDesconexion(c) ==
  /\ EnKernel /\ atiende[c] = "lee" /\ Lee(c, "CLIENTE_DESCONECTADO")
  /\ hacia' = Leido(c)
  /\ salida_exit' = salida_exit \cup {c}
  /\ salida_a_exit' = salida_a_exit + 1
  /\ atiende' = [atiende EXCEPT ![c] = "fin"]
  /\ UNCHANGED <<clientes, ajenos, desde, conexion, saliendo, victimas,
                 libre_para_inicializar_proceso, lista, task_list, exec,
                 memoria, caido>>
-----------------------------------------------------------------------------
(* The kernel: dispatch and the exec threads *)

EnHilo(c, pc) == EnKernel /\ exec[c].pc = pc

Pasa(c, pc) == exec' = [exec EXCEPT ![c].pc = pc]

\* mutant: a processor more than there are
HayProcesadorDeMas ==
  Cardinality({c \in Carpinchos : lista[c] = "exec"})
    <= escenario.procesadores

HayProcesador ==
  Cardinality({c \in Carpinchos : lista[c] = "exec"})
    < escenario.procesadores

Despacha(c) ==
  /\ EnKernel /\ lista[c] = "ready" /\ HayProcesador
  /\ lista' = [lista EXCEPT ![c] = "exec"]
  /\ Pasa(c, "empieza")
  /\ UNCHANGED <<clientes, ajenos, sockets, conexiones, task_list, salidas,
                 memoria, caido>>

\* the thread proceso, overtaken in the rounds of avisar_cambio, finds EXEC
\* where it remembers EXEC, or already EXIT, and starts no exec thread
NoEmpieza(c) ==
  /\ EnHilo(c, "empieza")
  /\ exec[c].task.cod # "NUEVO_CARPINCHO" \/ lista[c] = "exit"
  /\ Pasa(c, "fuera")
  /\ UNCHANGED <<clientes, ajenos, sockets, conexiones, lista, task_list,
                 salidas, memoria, caido>>

\* exec begins: it confirms what the carpincho was waiting for, mate_init, a
\* semaphore or an I/O
ExecEmpieza(c) ==
  /\ EnHilo(c, "empieza")
  /\ Pasa(c, "mira")
  /\ Envia(c, "OP_CONFIRMADA", exec[c].task.n)
  /\ UNCHANGED <<clientes, ajenos, hacia, conexiones, lista, task_list,
                 salidas, memoria>>

\* the task put there by hilo_salida_a_exit ends the thread
ExecToma(c) ==
  /\ EnHilo(c, "mira") /\ task_list[c] # <<>>
  /\ LET t == Head(task_list[c]) IN
     exec' = [exec EXCEPT ![c] =
                [pc |-> IF t = Desconexion THEN "fuera" ELSE "hace",
                 task |-> t]]
  /\ task_list' = [task_list EXCEPT ![c] = Tail(@)]
  /\ UNCHANGED <<clientes, ajenos, sockets, conexiones, lista, salidas,
                 memoria, caido>>

\* a task that is confirmed when it is done; SEM_WAIT, if there was a unit
ConfirmaEnseguida(op) ==
  op \in {"INIT_SEM", "SEM_WAIT", "SEM_POST", "SEM_DESTROY"}

ExecConfirma(c) ==
  /\ EnHilo(c, "hace") /\ ConfirmaEnseguida(exec[c].task.cod)
  /\ Pasa(c, "mira")
  /\ Envia(c, "OP_CONFIRMADA", exec[c].task.n)
  /\ UNCHANGED <<clientes, ajenos, hacia, conexiones, lista, task_list,
                 salidas, memoria>>

\* mutant: a wait without a unit is confirmed too
ExecEsperaConfirmando(c) ==
  /\ EnHilo(c, "hace") /\ exec[c].task.cod \in {"SEM_WAIT", "CALLIO"}
  /\ Pasa(c, "bloquea")
  /\ Envia(c, "OP_CONFIRMADA", exec[c].task.n)
  /\ UNCHANGED <<clientes, ajenos, hacia, conexiones, lista, task_list,
                 salidas, memoria>>

\* a wait without a unit, or an I/O: no answer until it is dispatched again
ExecEspera(c) ==
  /\ EnHilo(c, "hace") /\ exec[c].task.cod \in {"SEM_WAIT", "CALLIO"}
  /\ Pasa(c, "bloquea")
  /\ UNCHANGED <<clientes, ajenos, sockets, conexiones, lista, task_list,
                 salidas, memoria, caido>>

\* a wait for a semaphore that nobody created: an error, and it blocks
ExecSinSemaforo(c) ==
  /\ EnHilo(c, "hace") /\ exec[c].task.cod = "SEM_WAIT"
  /\ Pasa(c, "sin_semaforo")
  /\ Envia(c, "OP_ERROR", exec[c].task.n)
  /\ UNCHANGED <<clientes, ajenos, hacia, conexiones, lista, task_list,
                 salidas, memoria>>

\* bloquear and esperar_bloqueo, unless it was taken to lista_exit before
ExecBloquea(c) ==
  /\ EnKernel /\ exec[c].pc \in {"bloquea", "sin_semaforo"}
  /\ lista' = [lista EXCEPT ![c] = IF @ = "exec" THEN "blocked" ELSE @]
  /\ Pasa(c, IF exec[c].pc = "bloquea" THEN "fuera" ELSE "colgado")
  /\ UNCHANGED <<clientes, ajenos, sockets, conexiones, task_list, salidas,
                 memoria, caido>>

\* the semaphore was posted, or the I/O ended
Despierta(c) ==
  /\ EnKernel /\ lista[c] = "blocked" /\ exec[c].pc = "fuera"
  /\ lista' = [lista EXCEPT ![c] = "ready"]
  /\ UNCHANGED <<clientes, ajenos, sockets, conexiones, task_list, exec,
                 salidas, memoria, caido>>
-----------------------------------------------------------------------------
(* The kernel: the relay to memoria *)

\* main connects to memoria when the kernel serves already
ConectaMemoria ==
  /\ EnKernel /\ ~con_memoria /\ con_memoria' = TRUE
  /\ UNCHANGED <<clientes, ajenos, sockets, conexiones, lista, task_list,
                 exec, salidas, a_memoria, de_memoria, a_medias, caido>>

\* without a connection nothing is sent
ExecPideMemoria(c) ==
  /\ EnHilo(c, "hace") /\ exec[c].task.cod \in DeMemoria
  /\ Pasa(c, "lee_codigo")
  /\ LET t == exec[c].task IN
     a_memoria' = IF con_memoria
                  THEN Append(a_memoria, [cod |-> t.cod, n |-> t.n, de |-> c])
                  ELSE a_memoria
  /\ UNCHANGED <<clientes, ajenos, sockets, conexiones, lista, task_list,
                 salidas, con_memoria, de_memoria, a_medias, caido>>

\* without a connection nothing is received: CLIENTE_DESCONECTADO.  If main
\* connects in between, the thread waits for an answer to what nobody sent
ExecSinMemoria(c) ==
  /\ EnHilo(c, "lee_codigo") /\ ~con_memoria
  /\ Pasa(c, "mira")
  /\ Envia(c, "CLIENTE_DESCONECTADO", exec[c].task.n)
  /\ UNCHANGED <<clientes, ajenos, hacia, conexiones, lista, task_list,
                 salidas, memoria>>

\* recibir_paquete reads the code, and then the size and the rest.  There is
\* no mutex: another thread that reads its code in between reads the size
ExecLeeCodigo(c) ==
  /\ EnHilo(c, "lee_codigo") /\ de_memoria # <<>>
  /\ IF a_medias = Nadie
     THEN a_medias' = c /\ Pasa(c, "lee_resto") /\ UNCHANGED caido
     ELSE caido' = "cruce" /\ UNCHANGED <<a_medias, exec>>
  /\ UNCHANGED <<clientes, ajenos, sockets, conexiones, lista, task_list,
                 salidas, con_memoria, a_memoria, de_memoria>>

\* what was read goes to the carpincho, whoever it was for
ExecLeeResto(c) ==
  /\ EnHilo(c, "lee_resto")
  /\ Pasa(c, "mira")
  /\ LET r == Head(de_memoria) IN
     Envia(c, r.cod, IF r.de = c THEN r.n ELSE 0)
  /\ de_memoria' = Tail(de_memoria) /\ a_medias' = Nadie
  /\ UNCHANGED <<clientes, ajenos, hacia, conexiones, lista, task_list,
                 salidas, con_memoria, a_memoria>>

\* memoria serves the kernel's connection
Memoria ==
  /\ EnKernel /\ a_memoria # <<>>
  /\ LET r == Head(a_memoria) IN
     \E cod \in {r.cod, "DIRECCION_LOGICA_INVALIDA"} :
       de_memoria' = Append(de_memoria, [r EXCEPT !.cod = cod])
  /\ a_memoria' = Tail(a_memoria)
  /\ UNCHANGED <<clientes, ajenos, sockets, conexiones, lista, task_list,
                 exec, salidas, con_memoria, a_medias, caido>>
-----------------------------------------------------------------------------
(* The kernel: exits *)

\* the detector of deadlocks asks for the exit of a carpincho that waits
EligeVictima(c) ==
  /\ EnKernel /\ lista[c] = "blocked" /\ exec[c].pc = "fuera"
  /\ exec[c].task.cod = "SEM_WAIT"
  /\ Cardinality(victimas) < escenario.victimas
  /\ victimas' = victimas \cup {c}
  /\ salida_exit' = salida_exit \cup {c}
  /\ salida_a_exit' = salida_a_exit + 1
  /\ UNCHANGED <<clientes, ajenos, sockets, conexiones, lista, task_list,
                 exec, saliendo, memoria, caido>>

Marcados == {c \in salida_exit : lista[c] # "exit"}

\* hilo_salida_a_exit finds a carpincho with the flag and moves it: in exec,
\* it leaves a task for the thread; elsewhere, it frees the tasks, in a loop
\* that does not advance
SalidaMueve(c) ==
  /\ EnKernel /\ saliendo = Nadie /\ salida_a_exit > 0 /\ c \in Marcados
  /\ salida_a_exit' = salida_a_exit - 1
  /\ lista' = [lista EXCEPT ![c] = "exit"]
  /\ task_list' = [task_list EXCEPT
                     ![c] = IF lista[c] = "exec" THEN <<Desconexion>> \o @
                                                 ELSE @]
  /\ caido' = IF lista[c] # "exec" /\ task_list[c] # <<>> THEN "salida"
                                                          ELSE caido
  /\ saliendo' = c
  /\ UNCHANGED <<clientes, ajenos, sockets, conexiones, exec, salida_exit,
                 victimas, memoria>>

\* mutant: the error is sent again to a carpincho that closed its connection
SalidaAvisaDosVeces ==
  /\ EnKernel /\ saliendo # Nadie
  /\ saliendo' = IF conexion[saliendo] = "cerrada" THEN saliendo ELSE Nadie
  /\ Envia(saliendo, "OP_ERROR", 0)
  /\ UNCHANGED <<clientes, ajenos, hacia, conexiones, lista, task_list, exec,
                 salida_exit, salida_a_exit, victimas, memoria>>

\* enviar_error
SalidaAvisa ==
  /\ EnKernel /\ saliendo # Nadie
  /\ saliendo' = Nadie
  /\ Envia(saliendo, "OP_ERROR", 0)
  /\ UNCHANGED <<clientes, ajenos, hacia, conexiones, lista, task_list, exec,
                 salida_exit, salida_a_exit, victimas, memoria>>

\* a post for a carpincho that left already
SalidaNadie ==
  /\ EnKernel /\ saliendo = Nadie /\ salida_a_exit > 0 /\ Marcados = {}
  /\ salida_a_exit' = salida_a_exit - 1
  /\ UNCHANGED <<clientes, ajenos, sockets, conexiones, lista, task_list,
                 exec, salida_exit, saliendo, victimas, memoria, caido>>
-----------------------------------------------------------------------------
(* memoria without a kernel: a thread for each carpincho, under one mutex *)

\* what is not a request of memory is an error, CLIENTE_DESCONECTADO too,
\* after which the thread goes on reading; its log reads a packet that was
\* sent and freed, whose memory is still there
MemoriaAtiende(c) ==
  /\ ~ConKernel /\ caido = "no"
  /\ \E op \in DeKernel \cup DeMemoria
                \cup {"NUEVO_CARPINCHO", "CLIENTE_DESCONECTADO"} :
       /\ Lee(c, op)
       /\ \E cod \in IF op = "NUEVO_CARPINCHO" THEN {"OP_CONFIRMADA"}
                     ELSE {"DIRECCION_LOGICA_INVALIDA"}
                            \cup ({op} \cap DeMemoria) :
            Envia(c, cod, pedidos[c])
  /\ hacia' = Leido(c)
  /\ UNCHANGED <<clientes, ajenos, kernel>>
-----------------------------------------------------------------------------
Cliente(c) == MateInit(c) \/ Llama(c) \/ Gira(c) \/ Recibe(c) \/ MateClose(c)

Exec(c) ==
  \/ ExecEmpieza(c) \/ NoEmpieza(c) \/ ExecToma(c) \/ ExecConfirma(c) \/ ExecEspera(c)
  \/ ExecSinSemaforo(c) \/ ExecBloquea(c) \/ ExecPideMemoria(c)
  \/ ExecSinMemoria(c) \/ ExecLeeCodigo(c) \/ ExecLeeResto(c)

Atiende(c) ==
  Acepta(c) \/ AtiendeNuevo(c) \/ AtiendeTarea(c) \/ AtiendeDesconexion(c)

Salida == SalidaAvisa \/ SalidaNadie \/ \E c \in Carpinchos : SalidaMueve(c)

Next ==
  \/ \E c \in Carpinchos :
       \/ Cliente(c) \/ Muere(c) \/ Atiende(c) \/ Despacha(c) \/ Exec(c)
       \/ Despierta(c) \/ EligeVictima(c) \/ MemoriaAtiende(c)
  \/ ConectaMemoria \/ Memoria \/ Salida

Spec == Init /\ [][Next]_vars
-----------------------------------------------------------------------------
(* Properties *)

Codigos == DeKernel \cup DeMemoria \cup
  {"NUEVO_CARPINCHO", "CLIENTE_DESCONECTADO", "OP_CONFIRMADA", "OP_ERROR",
   "DIRECCION_LOGICA_INVALIDA"}
Paquetes == [cod : Codigos, n : 0..MaxPedidos]
Relevos == [cod : Codigos, n : 0..MaxPedidos, de : Carpinchos]

\* The type invariant of the module: libre_para_inicializar_proceso, which
\* one thread takes and another gives back, stays a mutex.
TypeOK ==
  /\ escenario \in Escenarios
  /\ cliente \in [Carpinchos ->
       [pc : {"afuera", "espera", "corre", "gira", "fin"},
        op : DeKernel \cup DeMemoria \cup {"ninguna", "NUEVO_CARPINCHO"}]]
  /\ desconectado \in [Carpinchos -> BOOLEAN]
  /\ pedidos \in [Carpinchos -> 0..MaxPedidos]
  /\ hacia \in [Carpinchos -> Seq(Paquetes)]
  /\ desde \in [Carpinchos -> Seq(Paquetes)]
  /\ conexion \in [Carpinchos -> {"ninguna", "abierta", "cerrada", "reset"}]
  /\ atiende \in [Carpinchos -> {"no", "lee", "fin"}]
  /\ libre_para_inicializar_proceso \in {0, 1}
  /\ lista \in [Carpinchos -> {"ninguna", "ready", "exec", "blocked", "exit"}]
  /\ task_list \in [Carpinchos -> Seq(Paquetes)]
  /\ exec \in [Carpinchos ->
       [pc : {"fuera", "empieza", "mira", "hace", "bloquea", "sin_semaforo",
              "colgado", "lee_codigo", "lee_resto"}, task : Paquetes]]
  /\ salida_exit \subseteq Carpinchos /\ salida_a_exit \in Nat
  /\ saliendo \in Carpinchos \cup {Nadie}
  /\ con_memoria \in BOOLEAN
  /\ a_memoria \in Seq(Relevos) /\ de_memoria \in Seq(Relevos)
  /\ a_medias \in Carpinchos \cup {Nadie}
  /\ caido \in {"no", "kernel", "memoria", "salida", "cruce"}
  /\ muertos \subseteq Carpinchos /\ victimas \subseteq Carpinchos

\* It was dispatched, and no exec thread was started
SinHilo(c) == lista[c] = "exec" /\ exec[c].pc = "fuera"

\* An exec thread owes the carpincho an answer, or the next one will
Debe(c) ==
  \/ exec[c].pc \in {"empieza", "hace", "bloquea", "lee_codigo", "lee_resto"}
  \/ exec[c].pc = "fuera" /\ lista[c] \in {"ready", "blocked"}

\* Through blocks, wake-ups and relays, a carpincho that waits has its request,
\* or its answer, in exactly one place of the system, or was dispatched without
\* an exec thread (proceso.c:13), when it has neither; one that does not wait
\* has none of them.  So nothing is answered twice, and an answer is forgotten
\* in that way only, as long as nobody asked for the carpincho's exit.
UnaRespuesta ==
  \A c \in Carpinchos :
    caido = "no" /\ c \notin salida_exit /\ cliente[c].pc # "fin" =>
      Len(hacia[c]) + Len(task_list[c]) + Len(desde[c])
        + (IF Debe(c) \/ SinHilo(c) THEN 1 ELSE 0)
      = IF cliente[c].pc = "espera" THEN 1 ELSE 0

\* With one processor, whose carpinchos are not killed, no answer of memoria
\* goes to another, though the exec threads share its socket without a mutex:
\* an exec thread is done with it before its carpincho leaves lista_exec.
RespuestaPropia ==
  escenario.procesadores = 1 /\ muertos = {} /\ victimas = {} =>
    /\ caido # "cruce"
    /\ \A c \in Carpinchos : \A i \in DOMAIN desde[c] :
         desde[c][i].cod # "OP_ERROR" => desde[c][i].n = pedidos[c]

\* The kernel does not fall by sending to carpinchos that closed their
\* connection, as long as none is killed: after mate_close it sends one packet,
\* the error of the exit, whatever the victims of the detector receive.
KernelSobrevive == muertos = {} => caido # "kernel"

\* Outside lista_exec a carpincho has no tasks, so the loop of
\* hilo_salida_a_exit that frees those of an exit, and does not advance, has
\* nothing to do: a request is only sent after the answer to the one before,
\* which comes when the carpincho executes.
SinTareasFueraDeExec ==
  /\ caido # "salida"
  /\ \A c \in Carpinchos :
       lista[c] \notin {"exec", "exit"} => task_list[c] = <<>>
=============================================================================
