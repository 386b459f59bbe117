--------------------------- MODULE Pedidos_proofs ---------------------------
(***************************************************************************)
(* Proofs about the conversation of the carpinchos with the system: that   *)
(* each request has one answer, its own, that no exit finds tasks it would *)
(* free for ever, and that the kernel survives the ends of connections.    *)
(***************************************************************************)
EXTENDS Pedidos, FiniteSetTheorems, SequenceTheorems, TLAPS

\* its thread has the mutex of initialisation
Entra(c) == atiende[c] = "lee" /\ lista[c] = "ninguna"

UnoEntra ==
  \/ libre_para_inicializar_proceso = 1 /\ \A c \in Carpinchos : ~Entra(c)
  \/ /\ libre_para_inicializar_proceso = 0
     /\ \E c \in Carpinchos : \A d \in Carpinchos : Entra(d) <=> d = c

\* How far a carpincho, its connection and its thread got
Etapa(c) ==
  /\ conexion[c] = "ninguna" <=> cliente[c].pc = "afuera"
  /\ Cerrada(c) <=> cliente[c].pc = "fin"
  /\ cliente[c].pc = "afuera" =>
       hacia[c] = <<>> /\ desde[c] = <<>> /\ pedidos[c] = 0
  /\ cliente[c].pc # "afuera" =>
       (cliente[c].op = "NUEVO_CARPINCHO" <=> pedidos[c] = 0)
  /\ atiende[c] # "no" => conexion[c] # "ninguna" /\ ConKernel
  /\ lista[c] # "ninguna" => atiende[c] # "no"
  /\ lista[c] = "exit" => c \in salida_exit
  /\ c \in salida_exit => lista[c] # "ninguna"

Etapas == \A c \in Carpinchos : Etapa(c)

DeCliente == DeKernel \cup DeMemoria

\* What a carpincho sent: NUEVO_CARPINCHO first, and the end last
Enviado(c) ==
  /\ \A i \in DOMAIN hacia[c] :
       LET m == hacia[c][i] IN
       /\ m.cod \in DeCliente \cup {"NUEVO_CARPINCHO", "CLIENTE_DESCONECTADO"}
       /\ m.cod = "NUEVO_CARPINCHO" => i = 1 /\ lista[c] = "ninguna"
       /\ m.cod = "CLIENTE_DESCONECTADO" => cliente[c].pc = "fin"
       /\ m.cod \in DeCliente => pedidos[c] > 0
  /\ ConKernel /\ lista[c] = "ninguna" /\ conexion[c] # "ninguna" =>
       hacia[c] # <<>> /\ hacia[c][1].cod = "NUEVO_CARPINCHO"

Enviados == \A c \in Carpinchos : Enviado(c)

\* the exec thread is working for the carpincho, or will
Activo == {"empieza", "mira", "hace", "lee_codigo", "lee_resto"}
\* it is about to send
Envian == Activo \ {"mira"}

\* The list a carpincho is in, its thread and its tasks
Hilo(c) ==
  /\ lista[c] \in {"ninguna", "ready"} => exec[c].pc = "fuera"
  /\ lista[c] = "blocked" => exec[c].pc \in {"fuera", "colgado"}
  /\ lista[c] = "exec" => exec[c].pc # "colgado"
  /\ \A i \in DOMAIN task_list[c] :
       \/ task_list[c][i].cod \in DeCliente /\ pedidos[c] > 0
       \/ task_list[c][i] = Desconexion /\ lista[c] = "exit"
  /\ lista[c] = "exit" /\ exec[c].pc \in Activo =>
       task_list[c] # <<>> /\ task_list[c][1] = Desconexion
  /\ exec[c].pc = "hace" =>
       exec[c].task.cod \in DeCliente /\ pedidos[c] > 0

Hilos ==
  /\ \A c \in Carpinchos : Hilo(c)
  /\ \A c \in Carpinchos :
       exec[c].pc = "lee_resto" => a_medias = c /\ de_memoria # <<>>
  /\ saliendo # Nadie => lista[saliendo] = "exit"
  /\ a_medias # Nadie => exec[a_medias].pc = "lee_resto"

Uno(b) == IF b THEN 1 ELSE 0

\* An answer is due, or nobody will give it
Toca(c) == Debe(c) \/ SinHilo(c)

\* UnaRespuesta until the move to lista_exit, and for who closed already
Cuenta(c) ==
  IF cliente[c].pc = "fin"
  THEN Len(hacia[c]) + Len(task_list[c]) + Uno(Toca(c)) <= 1
  ELSE Len(hacia[c]) + Len(task_list[c]) + Len(desde[c]) + Uno(Toca(c))
         = Uno(cliente[c].pc = "espera")

\* What it asked for last is what is under way
Numeros(c) ==
  /\ \A i \in DOMAIN hacia[c] :
       hacia[c][i].cod # "CLIENTE_DESCONECTADO" => hacia[c][i].n = pedidos[c]
  /\ \A i \in DOMAIN task_list[c] : task_list[c][i].n = pedidos[c]
  /\ Toca(c) => exec[c].task.n = pedidos[c]

SoloDesconexion(c) ==
  \A i \in DOMAIN hacia[c] : hacia[c][i].cod = "CLIENTE_DESCONECTADO"

\* After a wait for a semaphore nobody created it asks for nothing more
SinMasPedidos(c) ==
  exec[c].pc \in {"sin_semaforo", "colgado"} =>
    /\ task_list[c] = <<>> /\ SoloDesconexion(c)
    /\ cliente[c].pc \in {"corre", "gira"} => desconectado[c]
    /\ cliente[c].pc = "espera" =>
         /\ desde[c] # <<>> /\ desde[c][1].cod = "OP_ERROR"
         /\ pedidos[c] > 0

Orden(c) == Cuenta(c) /\ Numeros(c) /\ SinMasPedidos(c)

EnOrden ==
  caido = "no" =>
    \A c \in Carpinchos : lista[c] # "exit" => Orden(c)

\* The inductive invariant
IInv == /\ TypeOK /\ UnoEntra /\ Etapas /\ Enviados /\ Hilos
        /\ SinTareasFueraDeExec /\ EnOrden
-----------------------------------------------------------------------------
(* When none is killed *)

\* the packets that the kernel may still send to one in lista_exit
Pendientes(c) == Uno(saliendo = c) + Uno(exec[c].pc \in Envian)

Cierre(c) ==
  /\ cliente[c].pc = "fin" /\ lista[c] # "exit" =>
       /\ task_list[c] = <<>> /\ ~Toca(c) /\ SoloDesconexion(c)
       /\ conexion[c] = "cerrada"
  /\ lista[c] = "exit" /\ cliente[c].pc # "fin" =>
       Len(desde[c]) + Pendientes(c) <= 1 + Uno(cliente[c].pc = "espera")
  /\ lista[c] = "exit" /\ cliente[c].pc = "fin" =>
       Pendientes(c) <= Uno(conexion[c] = "cerrada")

Cierres == caido = "no" /\ ConKernel => \A c \in Carpinchos : Cierre(c)

InvSinMuertes == muertos = {} => KernelSobrevive /\ Cierres

\* With one processor and no exit but the ends of the programs: one exec
\* thread at most talks to memoria, and what is under way is its own
EnRelevo(c) == exec[c].pc \in {"lee_codigo", "lee_resto"}

Relevo ==
  /\ \A c \in Carpinchos : EnRelevo(c) =>
       lista[c] = "exec" /\ Len(a_memoria) + Len(de_memoria) <= 1
  /\ ~con_memoria => a_memoria = <<>> /\ de_memoria = <<>>
  /\ (\A c \in Carpinchos : ~EnRelevo(c)) =>
       a_memoria = <<>> /\ de_memoria = <<>>
  /\ \A i \in DOMAIN a_memoria :
       EnRelevo(a_memoria[i].de) /\ a_memoria[i].n = pedidos[a_memoria[i].de]
  /\ \A i \in DOMAIN de_memoria :
       EnRelevo(de_memoria[i].de) /\ de_memoria[i].n = pedidos[de_memoria[i].de]

UnSoloExec ==
  \A c, d \in Carpinchos : lista[c] = "exec" /\ lista[d] = "exec" => c = d

Propia(c) ==
  /\ c \in salida_exit => cliente[c].pc = "fin"
  /\ lista[c] = "exit" => exec[c].pc \notin Envian
  /\ cliente[c].pc # "fin" => Len(desde[c]) <= Uno(cliente[c].pc = "espera")
  /\ \A i \in DOMAIN desde[c] :
       desde[c][i].cod # "OP_ERROR" => desde[c][i].n = pedidos[c]

Propias == \A c \in Carpinchos : Propia(c)

UnoSinExits == escenario.procesadores = 1 /\ muertos = {} /\ victimas = {}

InvUnProcesador ==
  UnoSinExits =>
    /\ caido # "cruce" /\ UnSoloExec /\ Propias
    /\ caido = "no" => Relevo
-----------------------------------------------------------------------------
(* Types *)

Clientes ==
  [pc : {"afuera", "espera", "corre", "gira", "fin"},
   op : DeKernel \cup DeMemoria \cup {"ninguna", "NUEVO_CARPINCHO"}]
Ejecuciones ==
  [pc : {"fuera", "empieza", "mira", "hace", "bloquea", "sin_semaforo",
         "colgado", "lee_codigo", "lee_resto"}, task : Paquetes]

LEMMA ConstantesTipadas ==
  ASSUME TypeOK
  PROVE  /\ MaxPedidos \in Nat /\ Nadie \notin Carpinchos
         /\ escenario.servidor \in {"kernel", "memoria"}
         /\ escenario.operaciones \subseteq DeCliente
         /\ escenario.procesadores \in Nat \ {0}
BY PedidosOK DEF TypeOK, DeCliente

\* What Envia may do, typed
LEMMA EnviaTipa ==
  ASSUME TypeOK, NEW c \in Carpinchos, NEW cod \in Codigos,
         NEW n \in 0..MaxPedidos, Envia(c, cod, n)
  PROVE  /\ desde' \in [Carpinchos -> Seq(Paquetes)]
         /\ conexion' \in [Carpinchos ->
              {"ninguna", "abierta", "cerrada", "reset"}]
         /\ caido' \in {"no", "kernel", "memoria", "salida", "cruce"}
PROOF
<1>1. Paquete(cod, n) \in Paquetes
  BY DEF Paquete, Paquetes
<1>2. /\ desde \in [Carpinchos -> Seq(Paquetes)]
      /\ conexion \in [Carpinchos ->
              {"ninguna", "abierta", "cerrada", "reset"}]
      /\ caido \in {"no", "kernel", "memoria", "salida", "cruce"}
      /\ escenario.servidor \in {"kernel", "memoria"}
  BY ConstantesTipadas DEF TypeOK
<1>3. Append(desde[c], Paquete(cod, n)) \in Seq(Paquetes)
  BY <1>1, <1>2
<1> QED
  BY <1>2, <1>3 DEF Envia

LEMMA LeidoTipa ==
  ASSUME TypeOK, NEW c \in Carpinchos
  PROVE  /\ Leido(c) \in [Carpinchos -> Seq(Paquetes)]
         /\ hacia[c] # <<>> => Head(hacia[c]) \in Paquetes
PROOF
<1>1. hacia[c] \in Seq(Paquetes) /\ hacia \in [Carpinchos -> Seq(Paquetes)]
  BY DEF TypeOK
<1>2. hacia[c] # <<>> =>
        Head(hacia[c]) \in Paquetes /\ Tail(hacia[c]) \in Seq(Paquetes)
  BY <1>1
<1> QED
  BY <1>1, <1>2 DEF Leido

LEMMA ClienteTipa ==
  ASSUME TypeOK, NEW c \in Carpinchos,
         NEW pc \in {"afuera", "espera", "corre", "gira", "fin"},
         cliente' = [cliente EXCEPT ![c].pc = pc]
  PROVE  cliente' \in [Carpinchos -> Clientes]
PROOF
<1>1. cliente \in [Carpinchos -> Clientes]
  BY DEF TypeOK, Clientes
<1>2. [cliente[c] EXCEPT !.pc = pc] \in Clientes
  BY <1>1 DEF Clientes
<1>3. cliente' = [cliente EXCEPT ![c] = [cliente[c] EXCEPT !.pc = pc]]
  OBVIOUS
<1> QED
  BY <1>1, <1>2, <1>3

LEMMA EjecucionTipa ==
  ASSUME TypeOK, NEW c \in Carpinchos
  PROVE  /\ \A t \in Paquetes : exec' = [exec EXCEPT ![c].task = t] =>
              exec' \in [Carpinchos -> Ejecuciones]
         /\ \A pc \in {"fuera", "empieza", "mira", "hace", "bloquea",
               "sin_semaforo", "colgado", "lee_codigo", "lee_resto"} :
              Pasa(c, pc) => exec' \in [Carpinchos -> Ejecuciones]
PROOF
<1>1. exec \in [Carpinchos -> Ejecuciones]
  BY DEF TypeOK, Ejecuciones
<1>2. ASSUME NEW t \in Paquetes
      PROVE  [exec[c] EXCEPT !.task = t] \in Ejecuciones
  BY <1>1 DEF Ejecuciones
<1>3. ASSUME NEW pc \in {"fuera", "empieza", "mira", "hace", "bloquea",
               "sin_semaforo", "colgado", "lee_codigo", "lee_resto"}
      PROVE  [exec[c] EXCEPT !.pc = pc] \in Ejecuciones
  BY <1>1 DEF Ejecuciones
<1> QED
  BY <1>1, <1>2, <1>3 DEF Pasa

LEMMA TipoInductivo ==
  ASSUME IInv, [Next]_vars
  PROVE  TypeOK'
PROOF
<1> USE DEF sockets, clientes, conexiones, salidas, memoria, kernel, ajenos,
            Clientes, Ejecuciones
<1> TypeOK BY DEF IInv
<1>a. CASE UNCHANGED vars
  BY <1>a DEF vars, TypeOK
<1>0. /\ MaxPedidos \in Nat /\ Nadie \notin Carpinchos
      /\ escenario.servidor \in {"kernel", "memoria"}
      /\ escenario.operaciones \subseteq DeCliente
      /\ Desconexion \in Paquetes
  BY ConstantesTipadas DEF Desconexion, Paquete, Paquetes, Codigos
<1>1. ASSUME NEW c \in Carpinchos, NEW op \in DeCliente \cup {"NUEVO_CARPINCHO"},
             NEW n \in 0..MaxPedidos, Pide(c, op, n)
      PROVE  /\ cliente' \in [Carpinchos -> Clientes]
             /\ pedidos' \in [Carpinchos -> 0..MaxPedidos]
             /\ hacia' \in [Carpinchos -> Seq(Paquetes)]
  <2>1. Paquete(op, n) \in Paquetes
    BY DEF Paquete, Paquetes, Codigos, DeCliente
  <2>2. Append(hacia[c], Paquete(op, n)) \in Seq(Paquetes)
    BY <2>1 DEF TypeOK
  <2> QED
    BY <1>1, <2>2 DEF Pide, TypeOK, DeCliente
<1>2. ASSUME NEW c \in Carpinchos, MateInit(c) PROVE TypeOK'
  <2>1. Pide(c, "NUEVO_CARPINCHO", 0) /\ 0 \in 0..MaxPedidos
    BY <1>0, <1>2 DEF MateInit
  <2> QED
    BY <1>1, <1>2, <2>1 DEF MateInit, TypeOK
<1>3. ASSUME NEW c \in Carpinchos, Llama(c) PROVE TypeOK'
  <2>1. PICK op \in DeCliente : Pide(c, op, pedidos[c] + 1)
    BY <1>0, <1>3 DEF Llama
  <2>2. pedidos[c] + 1 \in 0..MaxPedidos
    BY SMTT(30), <1>0, <1>3 DEF Llama, TypeOK
  <2> QED
    BY <1>1, <1>3, <2>1, <2>2 DEF Llama, TypeOK
<1>4. ASSUME NEW c \in Carpinchos, Gira(c) PROVE TypeOK'
  BY <1>4, ClienteTipa DEF Gira, TypeOK
<1>5. ASSUME NEW c \in Carpinchos, Recibe(c) PROVE TypeOK'
  <2>1. desde[c] # <<>> => Tail(desde[c]) \in Seq(Paquetes)
    BY DEF TypeOK
  <2> QED
    <3>1. \/ Recibido(c, Head(desde[c]).cod)
          \/ Recibido(c, "CLIENTE_DESCONECTADO")
      BY <1>5 DEF Recibe
    <3>2. cliente' \in [Carpinchos -> Clientes]
      BY <3>1, ClienteTipa DEF Recibido
    <3>3. desconectado' \in [Carpinchos -> BOOLEAN]
      BY <3>1 DEF Recibido, TypeOK
    <3>4. desde' \in [Carpinchos -> Seq(Paquetes)]
      BY <1>5, <2>1 DEF Recibe, TypeOK
    <3> QED
      BY <1>5, <3>2, <3>3, <3>4 DEF Recibe, TypeOK
<1>6. ASSUME NEW c \in Carpinchos, Cierra(c)
      PROVE  /\ cliente' \in [Carpinchos -> Clientes]
             /\ conexion' \in [Carpinchos ->
                  {"ninguna", "abierta", "cerrada", "reset"}]
             /\ UNCHANGED <<desconectado, pedidos, desde, kernel, caido>>
  BY <1>6, ClienteTipa DEF Cierra, TypeOK
<1>7. ASSUME NEW c \in Carpinchos, MateClose(c) PROVE TypeOK'
  <2>1. Append(hacia[c], Desconexion) \in Seq(Paquetes)
    BY <1>0 DEF TypeOK
  <2>2. hacia' \in [Carpinchos -> Seq(Paquetes)]
    BY <1>7, <2>1 DEF MateClose, TypeOK
  <2> QED
    BY <1>6, <1>7, <2>2 DEF MateClose, TypeOK
<1>8. ASSUME NEW c \in Carpinchos, Muere(c) PROVE TypeOK'
  BY <1>6, <1>8 DEF Muere, TypeOK
<1>9. ASSUME NEW c \in Carpinchos, Acepta(c) PROVE TypeOK'
  BY SMTT(30), <1>9 DEF Acepta, TypeOK
<1>10. ASSUME NEW c \in Carpinchos, AtiendeNuevo(c) PROVE TypeOK'
  <2>1. hacia[c] # <<>>
    BY <1>10 DEF AtiendeNuevo, Lee
  <2>2. libre_para_inicializar_proceso = 0
    <3>1. Entra(c)
      BY <1>10, <2>1 DEF AtiendeNuevo, Lee, Entra, IInv, Enviados, Enviado, TypeOK
    <3> QED
      BY <3>1 DEF IInv, UnoEntra
  <2> QED
    <3>1. Head(hacia[c]) \in Paquetes /\ hacia' \in [Carpinchos -> Seq(Paquetes)]
      BY <1>10, <2>1, LeidoTipa DEF AtiendeNuevo
    <3>2. exec' = [exec EXCEPT ![c].task = Head(hacia[c])]
      BY <1>10 DEF AtiendeNuevo
    <3>3. exec' \in [Carpinchos -> Ejecuciones]
      BY <3>1, <3>2, EjecucionTipa
    <3> QED
      BY <1>10, <2>2, <3>1, <3>3 DEF AtiendeNuevo, TypeOK
<1>11. ASSUME NEW c \in Carpinchos, AtiendeTarea(c) PROVE TypeOK'
  <2>1. hacia[c] # <<>>
    BY <1>11 DEF AtiendeTarea, Lee, DeKernel, DeMemoria
  <2>2. Append(task_list[c], Head(hacia[c])) \in Seq(Paquetes)
    BY <2>1, LeidoTipa DEF TypeOK
  <2> QED
    BY <1>11, <2>2, LeidoTipa DEF AtiendeTarea, TypeOK
<1>12. ASSUME NEW c \in Carpinchos, AtiendeDesconexion(c) PROVE TypeOK'
  BY SMTT(30), <1>12, LeidoTipa DEF AtiendeDesconexion, TypeOK
<1>13. ASSUME NEW c \in Carpinchos, Despacha(c) PROVE TypeOK'
  <2>1. exec' \in [Carpinchos -> Ejecuciones]
    BY <1>13, EjecucionTipa DEF Despacha
  <2> QED
    BY <1>13, <2>1 DEF Despacha, TypeOK, Ejecuciones
<1>14. ASSUME NEW c \in Carpinchos, ExecEmpieza(c) PROVE TypeOK'
  <2>1. exec[c].task.n \in 0..MaxPedidos /\ "OP_CONFIRMADA" \in Codigos
    BY DEF TypeOK, Paquetes, Codigos
  <2>2. Envia(c, "OP_CONFIRMADA", exec[c].task.n)
    BY <1>14 DEF ExecEmpieza
  <2>3. /\ desde' \in [Carpinchos -> Seq(Paquetes)]
        /\ conexion' \in [Carpinchos ->
             {"ninguna", "abierta", "cerrada", "reset"}]
        /\ caido' \in {"no", "kernel", "memoria", "salida", "cruce"}
    BY <2>1, <2>2, EnviaTipa
  <2>4. exec' \in [Carpinchos -> Ejecuciones]
    <3>1. Pasa(c, "mira")
      BY <1>14 DEF ExecEmpieza
    <3> QED
      BY <3>1, EjecucionTipa
  <2> QED
    BY <1>14, <2>3, <2>4 DEF ExecEmpieza, TypeOK, Ejecuciones
<1>14b. ASSUME NEW c \in Carpinchos, NoEmpieza(c) PROVE TypeOK'
  BY <1>14b DEF NoEmpieza, Pasa, TypeOK
<1>15. ASSUME NEW c \in Carpinchos, ExecToma(c) PROVE TypeOK'
  <2>1. task_list[c] # <<>>
    BY <1>15 DEF ExecToma
  <2>2. Head(task_list[c]) \in Paquetes /\ Tail(task_list[c]) \in Seq(Paquetes)
    BY <2>1 DEF TypeOK
  <2> QED
    BY <1>15, <2>2 DEF ExecToma, TypeOK
<1>16. ASSUME NEW c \in Carpinchos, ExecConfirma(c) PROVE TypeOK'
  <2>1. exec[c].task.n \in 0..MaxPedidos /\ "OP_CONFIRMADA" \in Codigos
    BY DEF TypeOK, Paquetes, Codigos
  <2>2. Envia(c, "OP_CONFIRMADA", exec[c].task.n)
    BY <1>16 DEF ExecConfirma
  <2>3. /\ desde' \in [Carpinchos -> Seq(Paquetes)]
        /\ conexion' \in [Carpinchos ->
             {"ninguna", "abierta", "cerrada", "reset"}]
        /\ caido' \in {"no", "kernel", "memoria", "salida", "cruce"}
    BY <2>1, <2>2, EnviaTipa
  <2>4. exec' \in [Carpinchos -> Ejecuciones]
    <3>1. Pasa(c, "mira")
      BY <1>16 DEF ExecConfirma
    <3> QED
      BY <3>1, EjecucionTipa
  <2> QED
    BY <1>16, <2>3, <2>4 DEF ExecConfirma, TypeOK, Ejecuciones
<1>17. ASSUME NEW c \in Carpinchos, ExecEspera(c) PROVE TypeOK'
  BY <1>17 DEF ExecEspera, Pasa, TypeOK
<1>18. ASSUME NEW c \in Carpinchos, ExecSinSemaforo(c) PROVE TypeOK'
  <2>1. exec[c].task.n \in 0..MaxPedidos /\ "OP_ERROR" \in Codigos
    BY DEF TypeOK, Paquetes, Codigos
  <2>2. Envia(c, "OP_ERROR", exec[c].task.n)
    BY <1>18 DEF ExecSinSemaforo
  <2>3. /\ desde' \in [Carpinchos -> Seq(Paquetes)]
        /\ conexion' \in [Carpinchos ->
             {"ninguna", "abierta", "cerrada", "reset"}]
        /\ caido' \in {"no", "kernel", "memoria", "salida", "cruce"}
    BY <2>1, <2>2, EnviaTipa
  <2>4. exec' \in [Carpinchos -> Ejecuciones]
    <3>1. Pasa(c, "sin_semaforo")
      BY <1>18 DEF ExecSinSemaforo
    <3> QED
      BY <3>1, EjecucionTipa
  <2> QED
    BY <1>18, <2>3, <2>4 DEF ExecSinSemaforo, TypeOK, Ejecuciones
<1>19. ASSUME NEW c \in Carpinchos, ExecBloquea(c) PROVE TypeOK'
  <2>1. Pasa(c, "fuera") \/ Pasa(c, "colgado")
    BY <1>19 DEF ExecBloquea
  <2>2. exec' \in [Carpinchos -> Ejecuciones]
    BY <2>1, EjecucionTipa
  <2>3. lista' \in [Carpinchos ->
          {"ninguna", "ready", "exec", "blocked", "exit"}]
    BY <1>19 DEF ExecBloquea, TypeOK
  <2> QED
    BY <1>19, <2>2, <2>3 DEF ExecBloquea, TypeOK, Ejecuciones
<1>20. ASSUME NEW c \in Carpinchos, Despierta(c) PROVE TypeOK'
  BY <1>20 DEF Despierta, TypeOK
<1>21. ASSUME ConectaMemoria PROVE TypeOK'
  BY <1>21 DEF ConectaMemoria, TypeOK
<1>22. ASSUME NEW c \in Carpinchos, ExecPideMemoria(c) PROVE TypeOK'
  <2>1. [cod |-> exec[c].task.cod, n |-> exec[c].task.n, de |-> c] \in Relevos
    BY DEF TypeOK, Paquetes, Relevos
  <2>2. a_memoria' \in Seq(Relevos)
    BY <1>22, <2>1 DEF ExecPideMemoria, TypeOK
  <2> QED
    BY <1>22, <2>2 DEF ExecPideMemoria, Pasa, TypeOK
<1>23. ASSUME NEW c \in Carpinchos, ExecSinMemoria(c) PROVE TypeOK'
  <2>1. exec[c].task.n \in 0..MaxPedidos /\ "CLIENTE_DESCONECTADO" \in Codigos
    BY DEF TypeOK, Paquetes, Codigos
  <2>2. Envia(c, "CLIENTE_DESCONECTADO", exec[c].task.n)
    BY <1>23 DEF ExecSinMemoria
  <2>3. /\ desde' \in [Carpinchos -> Seq(Paquetes)]
        /\ conexion' \in [Carpinchos ->
             {"ninguna", "abierta", "cerrada", "reset"}]
        /\ caido' \in {"no", "kernel", "memoria", "salida", "cruce"}
    BY <2>1, <2>2, EnviaTipa
  <2>4. exec' \in [Carpinchos -> Ejecuciones]
    <3>1. Pasa(c, "mira")
      BY <1>23 DEF ExecSinMemoria
    <3> QED
      BY <3>1, EjecucionTipa
  <2> QED
    BY <1>23, <2>3, <2>4 DEF ExecSinMemoria, TypeOK, Ejecuciones
<1>24. ASSUME NEW c \in Carpinchos, ExecLeeCodigo(c) PROVE TypeOK'
  <2>1. exec' = exec \/ Pasa(c, "lee_resto")
    BY <1>24 DEF ExecLeeCodigo
  <2>2. exec' \in [Carpinchos -> Ejecuciones]
    BY <2>1, EjecucionTipa DEF TypeOK
  <2>3. a_medias' \in Carpinchos \cup {Nadie}
        /\ caido' \in {"no", "kernel", "memoria", "salida", "cruce"}
    BY <1>24 DEF ExecLeeCodigo, TypeOK
  <2> QED
    BY <1>24, <2>2, <2>3 DEF ExecLeeCodigo, TypeOK
<1>25. ASSUME NEW c \in Carpinchos, ExecLeeResto(c) PROVE TypeOK'
  <2>1. de_memoria # <<>>
    BY <1>25 DEF ExecLeeResto, EnHilo, IInv, Hilos
  <2>2. Head(de_memoria) \in Relevos /\ Tail(de_memoria) \in Seq(Relevos)
    BY <2>1 DEF TypeOK
  <2>3. PICK r \in Relevos : r = Head(de_memoria)
    BY <2>2
  <2>4. PICK n \in 0..MaxPedidos : n = IF r.de = c THEN r.n ELSE 0
    BY <1>0 DEF Relevos
  <2>5. Envia(c, r.cod, n) /\ r.cod \in Codigos
    BY <1>25, <2>3, <2>4 DEF ExecLeeResto, Relevos
  <2>6. /\ desde' \in [Carpinchos -> Seq(Paquetes)]
        /\ conexion' \in [Carpinchos ->
             {"ninguna", "abierta", "cerrada", "reset"}]
        /\ caido' \in {"no", "kernel", "memoria", "salida", "cruce"}
    BY <2>4, <2>5, EnviaTipa
  <2>7. exec' \in [Carpinchos -> Ejecuciones]
    <3>1. Pasa(c, "mira")
      BY <1>25 DEF ExecLeeResto
    <3> QED
      BY <3>1, EjecucionTipa
  <2> QED
    BY <1>25, <2>2, <2>6, <2>7 DEF ExecLeeResto, TypeOK, Ejecuciones
<1>26. ASSUME Memoria PROVE TypeOK'
  <2>1. Head(a_memoria) \in Relevos /\ Tail(a_memoria) \in Seq(Relevos)
    BY <1>26 DEF Memoria, TypeOK
  <2>2. PICK cod \in {Head(a_memoria).cod, "DIRECCION_LOGICA_INVALIDA"} :
          de_memoria' = Append(de_memoria, [Head(a_memoria) EXCEPT !.cod = cod])
    BY <1>26 DEF Memoria
  <2>3. [Head(a_memoria) EXCEPT !.cod = cod] \in Relevos
    BY <2>1 DEF Relevos, Codigos
  <2>4. de_memoria' \in Seq(Relevos)
    BY <2>2, <2>3 DEF TypeOK
  <2> QED
    BY <1>26, <2>1, <2>4 DEF Memoria, TypeOK
<1>27. ASSUME NEW c \in Carpinchos, EligeVictima(c) PROVE TypeOK'
  BY SMTT(30), <1>27 DEF EligeVictima, TypeOK
<1>28. ASSUME NEW c \in Carpinchos, SalidaMueve(c) PROVE TypeOK'
  <2>1. <<Desconexion>> \o task_list[c] \in Seq(Paquetes)
    BY <1>0 DEF TypeOK
  <2> QED
    BY <1>28, <2>1 DEF SalidaMueve, TypeOK
<1>29. ASSUME SalidaAvisa PROVE TypeOK'
  <2>1. saliendo \in Carpinchos /\ "OP_ERROR" \in Codigos
    BY <1>29 DEF SalidaAvisa, TypeOK, Codigos
  <2>2. Envia(saliendo, "OP_ERROR", 0) /\ 0 \in 0..MaxPedidos
    BY <1>0, <1>29 DEF SalidaAvisa
  <2> QED
    BY <1>29, <2>1, <2>2, EnviaTipa DEF SalidaAvisa, TypeOK
<1>30. ASSUME SalidaNadie PROVE TypeOK'
  BY <1>30 DEF SalidaNadie, TypeOK
<1>31. ASSUME NEW c \in Carpinchos, MemoriaAtiende(c) PROVE TypeOK'
  <2>1. PICK cod \in Codigos : Envia(c, cod, pedidos[c])
    BY <1>31 DEF MemoriaAtiende, Codigos
  <2>2. pedidos[c] \in 0..MaxPedidos
    BY DEF TypeOK
  <2> QED
    BY <1>31, <2>1, <2>2, EnviaTipa, LeidoTipa DEF MemoriaAtiende, TypeOK
<1> QED
  BY <1>a, <1>2, <1>3, <1>4, <1>5, <1>7, <1>8, <1>9, <1>10, <1>11, <1>12,
     <1>13, <1>14, <1>14b, <1>15, <1>16, <1>17, <1>18, <1>19, <1>20, <1>21, <1>22,
     <1>23, <1>24, <1>25, <1>26, <1>27, <1>28, <1>29, <1>30, <1>31
     DEF Next, Cliente, Exec, Atiende, Salida
-----------------------------------------------------------------------------
(* A step is of one carpincho: its sockets, its list and its threads *)

\* The steps that change something of c
PasoDe(c) ==
  \/ Cliente(c) \/ Muere(c) \/ Atiende(c) \/ Despacha(c) \/ Exec(c)
  \/ Despierta(c) \/ EligeVictima(c) \/ MemoriaAtiende(c) \/ SalidaMueve(c)
  \/ saliendo = c /\ SalidaAvisa

\* The steps that change nothing of any carpincho
PasoComun == ConectaMemoria \/ Memoria \/ SalidaNadie \/ UNCHANGED vars

LEMMA Pasos ==
  ASSUME TypeOK, [Next]_vars
  PROVE  PasoComun \/ \E c \in Carpinchos : PasoDe(c)
PROOF
<1>1. SalidaAvisa => saliendo \in Carpinchos
  BY DEF SalidaAvisa, TypeOK
<1> QED
  BY <1>1 DEF Next, PasoComun, PasoDe, Salida

\* The step left all that is of d as it was
Igual(d) ==
  /\ cliente'[d] = cliente[d] /\ desconectado'[d] = desconectado[d]
  /\ pedidos'[d] = pedidos[d] /\ hacia'[d] = hacia[d] /\ desde'[d] = desde[d]
  /\ conexion'[d] = conexion[d] /\ atiende'[d] = atiende[d]
  /\ lista'[d] = lista[d] /\ task_list'[d] = task_list[d]
  /\ exec'[d] = exec[d] /\ (d \in salida_exit' <=> d \in salida_exit)
  /\ escenario' = escenario

\* What Envia does to the connections
LEMMA EnviaEfecto ==
  ASSUME TypeOK, NEW c \in Carpinchos, NEW cod, NEW n, Envia(c, cod, n)
  PROVE  /\ conexion[c] # "ninguna"
         /\ conexion'[c] # "ninguna"
         /\ Cerrada(c)' <=> Cerrada(c)
         /\ \A d \in Carpinchos : d # c =>
              desde'[d] = desde[d] /\ conexion'[d] = conexion[d]
         /\ \/ /\ conexion[c] = "abierta" /\ conexion'[c] = "abierta"
               /\ desde'[c] = Append(desde[c], Paquete(cod, n))
               /\ caido' = caido
            \/ /\ conexion[c] = "cerrada" /\ conexion'[c] = "reset"
               /\ desde'[c] = desde[c] /\ caido' = caido
            \/ /\ conexion[c] = "reset" /\ conexion'[c] = "reset"
               /\ desde'[c] = desde[c]
               /\ caido' \in {"no", escenario.servidor}
BY DEF Envia, TypeOK, Cerrada

\* Every step that sends does it with Envia
LEMMA QuienEnvia ==
  ASSUME TypeOK, NEW c \in Carpinchos,
         \/ ExecEmpieza(c) \/ ExecConfirma(c) \/ ExecSinSemaforo(c)
         \/ ExecSinMemoria(c) \/ ExecLeeResto(c) \/ MemoriaAtiende(c)
         \/ saliendo = c /\ SalidaAvisa
  PROVE  caido = "no" /\ \E cod, n : Envia(c, cod, n)
BY DEF ExecEmpieza, ExecConfirma, ExecSinSemaforo, ExecSinMemoria,
       ExecLeeResto, MemoriaAtiende, SalidaAvisa, EnHilo, EnKernel

LEMMA IgualesLosDemas ==
  ASSUME TypeOK, NEW c \in Carpinchos, PasoDe(c),
         NEW d \in Carpinchos, d # c
  PROVE  Igual(d)
PROOF
<1> USE DEF sockets, clientes, conexiones, salidas, memoria, kernel, ajenos,
            Igual
<1>1. CASE MateInit(c)
  BY <1>1 DEF MateInit, Pide, TypeOK
<1>2. CASE Llama(c)
  BY <1>2 DEF Llama, Pide, TypeOK
<1>3. CASE Gira(c)
  BY <1>3 DEF Gira, TypeOK
<1>4. CASE Recibe(c)
  BY <1>4 DEF Recibe, Recibido, TypeOK
<1>5. CASE MateClose(c)
  BY <1>5 DEF MateClose, Cierra, TypeOK
<1>6. CASE Muere(c)
  BY <1>6 DEF Muere, Cierra, TypeOK
<1>7. CASE Acepta(c)
  BY <1>7 DEF Acepta, TypeOK
<1>8. CASE AtiendeNuevo(c)
  BY <1>8 DEF AtiendeNuevo, Leido, TypeOK
<1>9. CASE AtiendeTarea(c)
  BY <1>9 DEF AtiendeTarea, Leido, TypeOK
<1>10. CASE AtiendeDesconexion(c)
  BY <1>10 DEF AtiendeDesconexion, Leido, TypeOK
<1>11. CASE Despacha(c)
  BY <1>11 DEF Despacha, Pasa, TypeOK
<1>12. CASE ExecEmpieza(c)
  <2>1. PICK cod, n : Envia(c, cod, n)
    BY <1>12, QuienEnvia
  <2>2. desde'[d] = desde[d] /\ conexion'[d] = conexion[d]
    BY <2>1, EnviaEfecto
  <2> QED
    BY <1>12, <2>2 DEF ExecEmpieza, Pasa, Leido, TypeOK
<1>12b. CASE NoEmpieza(c)
  BY <1>12b DEF NoEmpieza, Pasa, TypeOK
<1>13. CASE ExecToma(c)
  BY <1>13 DEF ExecToma, TypeOK
<1>14. CASE ExecConfirma(c)
  <2>1. PICK cod, n : Envia(c, cod, n)
    BY <1>14, QuienEnvia
  <2>2. desde'[d] = desde[d] /\ conexion'[d] = conexion[d]
    BY <2>1, EnviaEfecto
  <2> QED
    BY <1>14, <2>2 DEF ExecConfirma, Pasa, Leido, TypeOK
<1>15. CASE ExecEspera(c)
  BY <1>15 DEF ExecEspera, Pasa, TypeOK
<1>16. CASE ExecSinSemaforo(c)
  <2>1. PICK cod, n : Envia(c, cod, n)
    BY <1>16, QuienEnvia
  <2>2. desde'[d] = desde[d] /\ conexion'[d] = conexion[d]
    BY <2>1, EnviaEfecto
  <2> QED
    BY <1>16, <2>2 DEF ExecSinSemaforo, Pasa, Leido, TypeOK
<1>17. CASE ExecBloquea(c)
  BY <1>17 DEF ExecBloquea, Pasa, TypeOK
<1>18. CASE Despierta(c)
  BY <1>18 DEF Despierta, TypeOK
<1>19. CASE ExecPideMemoria(c)
  BY <1>19 DEF ExecPideMemoria, Pasa, TypeOK
<1>20. CASE ExecSinMemoria(c)
  <2>1. PICK cod, n : Envia(c, cod, n)
    BY <1>20, QuienEnvia
  <2>2. desde'[d] = desde[d] /\ conexion'[d] = conexion[d]
    BY <2>1, EnviaEfecto
  <2> QED
    BY <1>20, <2>2 DEF ExecSinMemoria, Pasa, Leido, TypeOK
<1>21. CASE ExecLeeCodigo(c)
  BY <1>21 DEF ExecLeeCodigo, Pasa, TypeOK
<1>22. CASE ExecLeeResto(c)
  <2>1. PICK cod, n : Envia(c, cod, n)
    BY <1>22, QuienEnvia
  <2>2. desde'[d] = desde[d] /\ conexion'[d] = conexion[d]
    BY <2>1, EnviaEfecto
  <2> QED
    BY <1>22, <2>2 DEF ExecLeeResto, Pasa, Leido, TypeOK
<1>23. CASE EligeVictima(c)
  BY <1>23 DEF EligeVictima, TypeOK
<1>24. CASE SalidaMueve(c)
  BY <1>24 DEF SalidaMueve, TypeOK
<1>25. CASE MemoriaAtiende(c)
  <2>1. PICK cod, n : Envia(c, cod, n)
    BY <1>25, QuienEnvia
  <2>2. desde'[d] = desde[d] /\ conexion'[d] = conexion[d]
    BY <2>1, EnviaEfecto
  <2> QED
    BY <1>25, <2>2 DEF MemoriaAtiende, Pasa, Leido, TypeOK
<1>26. CASE saliendo = c /\ SalidaAvisa
  <2>1. PICK cod, n : Envia(c, cod, n)
    BY <1>26, QuienEnvia
  <2>2. desde'[d] = desde[d] /\ conexion'[d] = conexion[d]
    BY <2>1, EnviaEfecto
  <2> QED
    BY <1>26, <2>2 DEF SalidaAvisa, Pasa, Leido, TypeOK
<1> QED
  BY <1>1, <1>2, <1>3, <1>4, <1>5, <1>6, <1>7, <1>8, <1>9, <1>10, <1>11,
     <1>12, <1>12b, <1>13, <1>14, <1>15, <1>16, <1>17, <1>18, <1>19, <1>20,
     <1>21, <1>22, <1>23, <1>24, <1>25, <1>26
     DEF PasoDe, Cliente, Exec, Atiende

LEMMA IgualesTodos ==
  ASSUME TypeOK, PasoComun, NEW d \in Carpinchos
  PROVE  Igual(d)
BY DEF PasoComun, ConectaMemoria, Memoria, SalidaNadie, vars, Igual, sockets,
       clientes, conexiones, salidas, memoria, kernel, ajenos
-----------------------------------------------------------------------------
(* The mutex of initialisation, and how far each got *)

\* A request to the kernel comes after NUEVO_CARPINCHO
LEMMA YaEntro ==
  ASSUME TypeOK, Etapas, Enviados, NEW c \in Carpinchos, EnKernel,
         atiende[c] = "lee", NEW cod, cod # "NUEVO_CARPINCHO", Lee(c, cod)
  PROVE  lista[c] # "ninguna"
BY DEF Etapas, Etapa, Enviados, Enviado, Lee, EnKernel, TypeOK

\* ... which comes once, to a kernel
LEMMA RecienEntra ==
  ASSUME TypeOK, Etapas, Enviados, NEW c \in Carpinchos, AtiendeNuevo(c)
  PROVE  /\ Entra(c) /\ hacia[c] # <<>> /\ hacia[c][1] = Head(hacia[c])
         /\ Head(hacia[c]).cod = "NUEVO_CARPINCHO"
PROOF
<1>1. hacia[c] # <<>> /\ Head(hacia[c]).cod = "NUEVO_CARPINCHO"
  BY DEF AtiendeNuevo, Lee
<1>2. hacia[c] \in Seq(Paquetes)
  BY DEF TypeOK
<1>3. 1 \in DOMAIN hacia[c] /\ hacia[c][1] = Head(hacia[c])
  BY <1>1, <1>2
<1> QED
  BY <1>1, <1>3 DEF AtiendeNuevo, Entra, Enviados, Enviado

LEMMA EtapasInductivas ==
  ASSUME IInv, [Next]_vars
  PROVE  Etapas'
PROOF
<1> USE DEF sockets, clientes, conexiones, salidas, memoria, kernel, ajenos
<1> TypeOK /\ Etapas /\ Enviados BY DEF IInv
<1>1. ASSUME NEW d \in Carpinchos, Igual(d)
      PROVE  Etapa(d)'
  BY <1>1 DEF Igual, Etapas, Etapa, Cerrada, ConKernel
<1>2. ASSUME NEW c \in Carpinchos, PasoDe(c)
      PROVE  Etapa(c)'
  <2> Etapa(c)
    BY DEF Etapas
<2>1. CASE MateInit(c)
  BY <2>1 DEF MateInit, Pide, Cerrada, Etapa, ConKernel, TypeOK
<2>2. CASE Llama(c)
    <3>1. PICK op \in escenario.operaciones : Pide(c, op, pedidos[c] + 1)
      BY <2>2 DEF Llama
    <3>2. op # "NUEVO_CARPINCHO"
      BY ConstantesTipadas DEF DeCliente, DeKernel, DeMemoria
    <3>3. pedidos[c] \in Nat /\ pedidos[c] + 1 # 0
      BY ConstantesTipadas DEF TypeOK
    <3>4. /\ cliente'[c] = [pc |-> "espera", op |-> op]
          /\ pedidos'[c] = pedidos[c] + 1
      BY <3>1 DEF Pide, TypeOK
    <3> QED
      BY <2>2, <3>2, <3>3, <3>4 DEF Llama, Cerrada, Etapa, ConKernel
<2>3. CASE Gira(c)
  BY <2>3 DEF Gira, Cerrada, Etapa, ConKernel, TypeOK
<2>4. CASE Recibe(c)
  BY SMTT(30), <2>4 DEF Recibe, Recibido, Cerrada, Etapa, ConKernel, TypeOK
<2>5. CASE MateClose(c)
  BY <2>5 DEF MateClose, Cierra, Cerrada, Etapa, ConKernel, TypeOK
<2>6. CASE Muere(c)
  BY <2>6 DEF Muere, Cierra, Cerrada, Etapa, ConKernel, TypeOK
<2>7. CASE Acepta(c)
  BY <2>7 DEF Acepta, EnKernel, Cerrada, Etapa, ConKernel, TypeOK
<2>8. CASE AtiendeNuevo(c)
  BY <2>8 DEF AtiendeNuevo, Leido, Cerrada, Etapa, ConKernel, TypeOK
<2>9. CASE AtiendeTarea(c)
  BY <2>9 DEF AtiendeTarea, Leido, Cerrada, Etapa, ConKernel, TypeOK
<2>10. CASE AtiendeDesconexion(c)
  <3>1. lista[c] # "ninguna"
    BY <2>10, YaEntro DEF AtiendeDesconexion
  <3> QED
    BY <2>10, <3>1 DEF AtiendeDesconexion, Leido, Cerrada, Etapa, ConKernel, TypeOK
<2>11. CASE Despacha(c)
  BY <2>11 DEF Despacha, Pasa, Cerrada, Etapa, ConKernel, TypeOK
<2>12. CASE ExecEmpieza(c)
  <3>1. PICK cod, n : Envia(c, cod, n)
    BY <2>12, QuienEnvia
  <3>2. /\ conexion[c] # "ninguna" /\ conexion'[c] # "ninguna"
        /\ Cerrada(c)' <=> Cerrada(c)
    BY <3>1, EnviaEfecto
  <3> QED
    BY <2>12, <3>2 DEF ExecEmpieza, Pasa, Leido, Etapa, ConKernel, TypeOK
<2>12b. CASE NoEmpieza(c)
  BY <2>12b DEF NoEmpieza, Pasa, Cerrada, Etapa, ConKernel, TypeOK
<2>13. CASE ExecToma(c)
  BY <2>13 DEF ExecToma, Cerrada, Etapa, ConKernel, TypeOK
<2>14. CASE ExecConfirma(c)
  <3>1. PICK cod, n : Envia(c, cod, n)
    BY <2>14, QuienEnvia
  <3>2. /\ conexion[c] # "ninguna" /\ conexion'[c] # "ninguna"
        /\ Cerrada(c)' <=> Cerrada(c)
    BY <3>1, EnviaEfecto
  <3> QED
    BY <2>14, <3>2 DEF ExecConfirma, Pasa, Leido, Etapa, ConKernel, TypeOK
<2>15. CASE ExecEspera(c)
  BY <2>15 DEF ExecEspera, Pasa, Cerrada, Etapa, ConKernel, TypeOK
<2>16. CASE ExecSinSemaforo(c)
  <3>1. PICK cod, n : Envia(c, cod, n)
    BY <2>16, QuienEnvia
  <3>2. /\ conexion[c] # "ninguna" /\ conexion'[c] # "ninguna"
        /\ Cerrada(c)' <=> Cerrada(c)
    BY <3>1, EnviaEfecto
  <3> QED
    BY <2>16, <3>2 DEF ExecSinSemaforo, Pasa, Leido, Etapa, ConKernel, TypeOK
<2>17. CASE ExecBloquea(c)
  BY <2>17 DEF ExecBloquea, Pasa, Cerrada, Etapa, ConKernel, TypeOK
<2>18. CASE Despierta(c)
  BY <2>18 DEF Despierta, Cerrada, Etapa, ConKernel, TypeOK
<2>19. CASE ExecPideMemoria(c)
  BY <2>19 DEF ExecPideMemoria, Pasa, Cerrada, Etapa, ConKernel, TypeOK
<2>20. CASE ExecSinMemoria(c)
  <3>1. PICK cod, n : Envia(c, cod, n)
    BY <2>20, QuienEnvia
  <3>2. /\ conexion[c] # "ninguna" /\ conexion'[c] # "ninguna"
        /\ Cerrada(c)' <=> Cerrada(c)
    BY <3>1, EnviaEfecto
  <3> QED
    BY <2>20, <3>2 DEF ExecSinMemoria, Pasa, Leido, Etapa, ConKernel, TypeOK
<2>21. CASE ExecLeeCodigo(c)
  BY <2>21 DEF ExecLeeCodigo, Pasa, Cerrada, Etapa, ConKernel, TypeOK
<2>22. CASE ExecLeeResto(c)
  <3>1. PICK cod, n : Envia(c, cod, n)
    BY <2>22, QuienEnvia
  <3>2. /\ conexion[c] # "ninguna" /\ conexion'[c] # "ninguna"
        /\ Cerrada(c)' <=> Cerrada(c)
    BY <3>1, EnviaEfecto
  <3> QED
    BY <2>22, <3>2 DEF ExecLeeResto, Pasa, Leido, Etapa, ConKernel, TypeOK
<2>23. CASE EligeVictima(c)
  BY <2>23 DEF EligeVictima, Cerrada, Etapa, ConKernel, TypeOK
<2>24. CASE SalidaMueve(c)
  BY <2>24 DEF SalidaMueve, Marcados, Cerrada, Etapa, ConKernel, TypeOK
<2>25. CASE MemoriaAtiende(c)
  <3>1. PICK cod, n : Envia(c, cod, n)
    BY <2>25, QuienEnvia
  <3>2. /\ conexion[c] # "ninguna" /\ conexion'[c] # "ninguna"
        /\ Cerrada(c)' <=> Cerrada(c)
    BY <3>1, EnviaEfecto
  <3> QED
    BY <2>25, <3>2 DEF MemoriaAtiende, Pasa, Leido, Etapa, ConKernel, TypeOK
<2>26. CASE saliendo = c /\ SalidaAvisa
  <3>1. PICK cod, n : Envia(c, cod, n)
    BY <2>26, QuienEnvia
  <3>2. /\ conexion[c] # "ninguna" /\ conexion'[c] # "ninguna"
        /\ Cerrada(c)' <=> Cerrada(c)
    BY <3>1, EnviaEfecto
  <3> QED
    BY <2>26, <3>2 DEF SalidaAvisa, Pasa, Leido, Etapa, ConKernel, TypeOK
<2> QED
  BY <2>1, <2>2, <2>3, <2>4, <2>5, <2>6, <2>7, <2>8, <2>9, <2>10, <2>11,
     <2>12, <2>12b, <2>13, <2>14, <2>15, <2>16, <2>17, <2>18, <2>19, <2>20,
     <2>21, <2>22, <2>23, <2>24, <2>25, <2>26, <1>2
     DEF PasoDe, Cliente, Exec, Atiende
<1>3. CASE PasoComun
  BY <1>1, <1>3, IgualesTodos DEF Etapas
<1>4. ASSUME NEW c \in Carpinchos, PasoDe(c)
      PROVE  Etapas'
  BY <1>1, <1>2, <1>4, IgualesLosDemas DEF Etapas
<1> QED
  BY <1>3, <1>4, Pasos

LEMMA UnoInductivo ==
  ASSUME IInv, [Next]_vars
  PROVE  UnoEntra'
PROOF
<1> USE DEF sockets, clientes, conexiones, salidas, memoria, kernel, ajenos
<1> TypeOK /\ Etapas /\ Enviados /\ UnoEntra BY DEF IInv
<1>1. ASSUME NEW d \in Carpinchos, Igual(d)
      PROVE  Entra(d)' <=> Entra(d)
  BY <1>1 DEF Igual, Entra
<1>2. ASSUME UNCHANGED libre_para_inicializar_proceso,
             \A d \in Carpinchos : Entra(d)' <=> Entra(d)
      PROVE  UnoEntra'
  BY <1>2 DEF UnoEntra
<1>3. CASE PasoComun
  BY <1>1, <1>2, <1>3, IgualesTodos
     DEF PasoComun, ConectaMemoria, Memoria, SalidaNadie, vars
<1>4. ASSUME NEW c \in Carpinchos, PasoDe(c)
      PROVE  UnoEntra'
  <2>a. CASE Acepta(c)
    <3>1. Entra(c)' /\ libre_para_inicializar_proceso = 1
          /\ libre_para_inicializar_proceso' = 0
      BY <2>a DEF Acepta, Entra, Etapas, Etapa, TypeOK
    <3> QED
      BY <1>1, <1>4, <3>1, IgualesLosDemas DEF UnoEntra
  <2>b. CASE AtiendeNuevo(c)
    <3>1. ~Entra(c)' /\ Entra(c) /\ libre_para_inicializar_proceso = 0
          /\ libre_para_inicializar_proceso' = 1
      <4>1. Entra(c) /\ libre_para_inicializar_proceso = 0
        BY <2>b, RecienEntra DEF UnoEntra
      <4>2. ~Entra(c)'
        BY <2>b DEF AtiendeNuevo, Entra, TypeOK
      <4>3. libre_para_inicializar_proceso' = 0 + 1
        BY <2>b, <4>1 DEF AtiendeNuevo
      <4> QED
        BY <4>1, <4>2, <4>3
    <3> QED
      BY <1>1, <1>4, <3>1, IgualesLosDemas DEF UnoEntra
  <2>c. CASE ~Acepta(c) /\ ~AtiendeNuevo(c)
    <3>1. UNCHANGED libre_para_inicializar_proceso /\ (Entra(c)' <=> Entra(c))
<4>1. CASE MateInit(c)
  BY <4>1 DEF MateInit, Pide, Entra, TypeOK
<4>2. CASE Llama(c)
  BY <4>2 DEF Llama, Pide, Entra, TypeOK
<4>3. CASE Gira(c)
  BY <4>3 DEF Gira, Entra, TypeOK
<4>4. CASE Recibe(c)
  BY <4>4 DEF Recibe, Entra, TypeOK
<4>5. CASE MateClose(c)
  BY <4>5 DEF MateClose, Cierra, Entra, TypeOK
<4>6. CASE Muere(c)
  BY <4>6 DEF Muere, Cierra, Entra, TypeOK
<4>7. CASE Acepta(c)
  BY <2>c, <4>7
<4>8. CASE AtiendeNuevo(c)
  BY <2>c, <4>8
<4>9. CASE AtiendeTarea(c)
  BY <4>9 DEF AtiendeTarea, Leido, Entra, TypeOK
<4>10. CASE AtiendeDesconexion(c)
  <5>1. lista[c] # "ninguna"
    BY <4>10, YaEntro DEF AtiendeDesconexion
  <5> QED
    BY <4>10, <5>1 DEF AtiendeDesconexion, Leido, Entra, TypeOK
<4>11. CASE Despacha(c)
  BY <4>11 DEF Despacha, Entra, TypeOK
<4>12. CASE ExecEmpieza(c)
  BY <4>12 DEF ExecEmpieza, Entra, TypeOK
<4>12b. CASE NoEmpieza(c)
  BY <4>12b DEF NoEmpieza, Entra, TypeOK
<4>13. CASE ExecToma(c)
  BY <4>13 DEF ExecToma, Entra, TypeOK
<4>14. CASE ExecConfirma(c)
  BY <4>14 DEF ExecConfirma, Entra, TypeOK
<4>15. CASE ExecEspera(c)
  BY <4>15 DEF ExecEspera, Entra, TypeOK
<4>16. CASE ExecSinSemaforo(c)
  BY <4>16 DEF ExecSinSemaforo, Entra, TypeOK
<4>17. CASE ExecBloquea(c)
  BY <4>17 DEF ExecBloquea, Entra, TypeOK
<4>18. CASE Despierta(c)
  BY <4>18 DEF Despierta, Entra, TypeOK
<4>19. CASE ExecPideMemoria(c)
  BY <4>19 DEF ExecPideMemoria, Entra, TypeOK
<4>20. CASE ExecSinMemoria(c)
  BY <4>20 DEF ExecSinMemoria, Entra, TypeOK
<4>21. CASE ExecLeeCodigo(c)
  BY <4>21 DEF ExecLeeCodigo, Entra, TypeOK
<4>22. CASE ExecLeeResto(c)
  BY <4>22 DEF ExecLeeResto, Entra, TypeOK
<4>23. CASE EligeVictima(c)
  BY <4>23 DEF EligeVictima, Entra, TypeOK
<4>24. CASE SalidaMueve(c)
  BY <4>24 DEF SalidaMueve, Marcados, Etapas, Etapa, Entra, TypeOK
<4>25. CASE MemoriaAtiende(c)
  BY <4>25 DEF MemoriaAtiende, Entra, TypeOK
<4>26. CASE saliendo = c /\ SalidaAvisa
  BY <4>26 DEF SalidaAvisa, Entra, TypeOK
<4> QED
  BY <4>1, <4>2, <4>3, <4>4, <4>5, <4>6, <4>7, <4>8, <4>9, <4>10, <4>11,
     <4>12, <4>12b, <4>13, <4>14, <4>15, <4>16, <4>17, <4>18, <4>19, <4>20,
     <4>21, <4>22, <4>23, <4>24, <4>25, <4>26, <1>4
     DEF PasoDe, Cliente, Exec, Atiende
    <3> QED
      BY <1>1, <1>2, <1>4, <3>1, IgualesLosDemas
  <2> QED
    BY <2>a, <2>b, <2>c
<1> QED
  BY <1>3, <1>4, Pasos
-----------------------------------------------------------------------------
(* What is sent, the lists and the threads *)

LEMMA TrasTail ==
  ASSUME NEW S, NEW s \in Seq(S), s # <<>>
  PROVE  /\ Tail(s) \in Seq(S) /\ Len(s) \in Nat /\ Len(s) # 0
         /\ Len(Tail(s)) = Len(s) - 1
         /\ 1 \in DOMAIN s /\ s[1] = Head(s) /\ Head(s) \in S
         /\ \A i \in DOMAIN Tail(s) :
              i + 1 \in DOMAIN s /\ Tail(s)[i] = s[i + 1] /\ i + 1 # 1
OBVIOUS

LEMMA TrasAppend ==
  ASSUME NEW S, NEW s \in Seq(S), NEW e \in S
  PROVE  /\ Append(s, e) \in Seq(S) /\ Append(s, e) # <<>>
         /\ Len(Append(s, e)) = Len(s) + 1
         /\ s # <<>> => Append(s, e)[1] = s[1]
         /\ s = <<>> => Append(s, e)[1] = e
         /\ \A i \in DOMAIN Append(s, e) :
              \/ i \in DOMAIN s /\ Append(s, e)[i] = s[i]
              \/ i = Len(s) + 1 /\ Append(s, e)[i] = e
PROOF
<1>1. /\ Append(s, e) \in Seq(S) /\ Len(s) \in Nat
      /\ Len(Append(s, e)) = Len(s) + 1
  OBVIOUS
<1>2. \A i \in 1..Len(s) : Append(s, e)[i] = s[i]
  OBVIOUS
<1>3. Append(s, e)[Len(s) + 1] = e
  OBVIOUS
<1>4. DOMAIN s = 1..Len(s) /\ DOMAIN Append(s, e) = 1..(Len(s) + 1)
  BY <1>1
<1>5. Append(s, e) # <<>> /\ (s # <<>> => 1 \in 1..Len(s))
      /\ (s = <<>> => Len(s) = 0)
  <2>1. s # <<>> => 1 \in 1..Len(s)
    OBVIOUS
  <2>2. s = <<>> => Len(s) = 0
    OBVIOUS
  <2>3. Append(s, e) # <<>>
    <3>1. Len(<<>>) = 0
      OBVIOUS
    <3>2. Len(Append(s, e)) # 0
      BY <1>1
    <3> QED
      BY <3>1, <3>2, Zenon
  <2> QED
    BY <2>1, <2>2, <2>3
<1>6. ASSUME NEW i \in DOMAIN Append(s, e)
      PROVE  \/ i \in DOMAIN s /\ Append(s, e)[i] = s[i]
             \/ i = Len(s) + 1 /\ Append(s, e)[i] = e
  <2>1. i \in 1..Len(s) \/ i = Len(s) + 1
    BY <1>1, <1>4
  <2> QED
    BY <1>2, <1>3, <1>4, <2>1
<1>7. s # <<>> => Append(s, e)[1] = s[1]
  BY <1>2, <1>5
<1>8. s = <<>> => Append(s, e)[1] = e
  OBVIOUS
<1> QED
  BY <1>1, <1>5, <1>6, <1>7, <1>8

LEMMA TrasPrefijo ==
  ASSUME NEW S, NEW s \in Seq(S), NEW e \in S
  PROVE  /\ <<e>> \o s \in Seq(S) /\ <<e>> \o s # <<>>
         /\ Len(<<e>> \o s) = 1 + Len(s)
         /\ (<<e>> \o s)[1] = e
         /\ \A i \in DOMAIN (<<e>> \o s) :
              \/ i = 1
              \/ i - 1 \in DOMAIN s /\ (<<e>> \o s)[i] = s[i - 1]
OBVIOUS

LEMMA EnviadosInductivos ==
  ASSUME IInv, [Next]_vars
  PROVE  Enviados'
PROOF
<1> USE DEF sockets, clientes, conexiones, salidas, memoria, kernel, ajenos
<1> TypeOK /\ Etapas /\ Enviados BY DEF IInv
<1> Etapas' BY EtapasInductivas
<1>0. MaxPedidos \in Nat /\ Desconexion \in Paquetes
  BY ConstantesTipadas DEF Desconexion, Paquete, Paquetes, Codigos
<1>1. ASSUME NEW d \in Carpinchos, Igual(d)
      PROVE  Enviado(d)'
  BY <1>1 DEF Igual, Enviados, Enviado, ConKernel
<1>2. ASSUME NEW c \in Carpinchos, PasoDe(c)
      PROVE  Enviado(c)'
  <2> Enviado(c) /\ Etapa(c) /\ Etapa(c)' /\ hacia[c] \in Seq(Paquetes)
    BY DEF Enviados, Etapas, TypeOK
  <2>a. ASSUME hacia'[c] = hacia[c], pedidos'[c] = pedidos[c],
               conexion'[c] # "ninguna" => conexion[c] # "ninguna",
               escenario' = escenario,
               lista'[c] = "ninguna" <=> lista[c] = "ninguna",
               cliente[c].pc = "fin" => cliente'[c].pc = "fin"
        PROVE  Enviado(c)'
    BY <2>a DEF Enviado, ConKernel
  <2>b. ASSUME hacia[c] # <<>>, hacia'[c] = Tail(hacia[c]),
               pedidos'[c] = pedidos[c],
               escenario' = escenario,
               lista'[c] = "ninguna" <=>
                 lista[c] = "ninguna" /\ hacia[c][1].cod # "NUEVO_CARPINCHO",
               ConKernel /\ conexion'[c] # "ninguna" =>
                 lista'[c] # "ninguna",
               cliente'[c] = cliente[c]
        PROVE  Enviado(c)'
    <3>1. \A i \in DOMAIN hacia'[c] :
             i + 1 \in DOMAIN hacia[c] /\ hacia'[c][i] = hacia[c][i + 1]
               /\ i + 1 # 1
      BY <2>b, TrasTail
    <3> QED
      BY <2>b, <3>1 DEF Enviado, ConKernel
  <2>c. ASSUME NEW m \in Paquetes, hacia'[c] = Append(hacia[c], m),
               lista'[c] = lista[c], escenario' = escenario,
               conexion'[c] # "ninguna" => conexion[c] # "ninguna",
               cliente[c].pc # "fin", pedidos'[c] \in Nat,
               pedidos[c] > 0 => pedidos'[c] > 0,
               \/ m.cod = "CLIENTE_DESCONECTADO" /\ cliente'[c].pc = "fin"
               \/ m.cod \in DeCliente /\ pedidos'[c] > 0
        PROVE  Enviado(c)'
    <3>0. m.cod # "NUEVO_CARPINCHO" /\ "CLIENTE_DESCONECTADO" \notin DeCliente
      BY <2>c DEF DeCliente, DeKernel, DeMemoria
    <3>1. \A i \in DOMAIN hacia'[c] :
            \/ i \in DOMAIN hacia[c] /\ hacia'[c][i] = hacia[c][i]
            \/ i = Len(hacia[c]) + 1 /\ hacia'[c][i] = m
      BY <2>c, TrasAppend
    <3>2. hacia'[c] # <<>> /\ (hacia[c] # <<>> => hacia'[c][1] = hacia[c][1])
      BY <2>c, TrasAppend
    <3> QED
      BY <2>c, <3>0, <3>1, <3>2 DEF Enviado, ConKernel
<2>1. CASE MateInit(c)
    <3>1. hacia'[c] = <<Paquete("NUEVO_CARPINCHO", 0)>>
      BY <2>1 DEF MateInit, Pide, Etapa, TypeOK
    <3>2. lista'[c] = "ninguna"
      BY <2>1 DEF MateInit, Etapa
    <3>3. DOMAIN hacia'[c] = {1} /\ hacia'[c] # <<>>
          /\ hacia'[c][1].cod = "NUEVO_CARPINCHO"
      BY <3>1 DEF Paquete
    <3>4. "NUEVO_CARPINCHO" \notin DeCliente
      BY DEF DeCliente, DeKernel, DeMemoria
    <3> QED
      BY <3>2, <3>3, <3>4 DEF Enviado
<2>2. CASE Llama(c)
    <3>1. PICK op \in escenario.operaciones : Pide(c, op, pedidos[c] + 1)
      BY <2>2 DEF Llama
    <3>2. pedidos[c] \in Nat /\ pedidos[c] + 1 \in 0..MaxPedidos
          /\ pedidos[c] + 1 > 0
      BY SMTT(30), <2>2, <1>0 DEF TypeOK, Llama
    <3>3. op \in DeCliente
      BY ConstantesTipadas
    <3>4. PICK m \in Paquetes : m = Paquete(op, pedidos[c] + 1)
      BY <3>2, <3>3 DEF Paquete, Paquetes, Codigos, DeCliente
    <3>5. hacia'[c] = Append(hacia[c], m) /\ pedidos'[c] = pedidos[c] + 1
      BY <3>1, <3>4 DEF Pide, TypeOK
    <3>6. m.cod = op
      BY <3>4 DEF Paquete
    <3> QED
      BY <2>2, <2>c, <3>2, <3>3, <3>5, <3>6 DEF Llama
<2>3. CASE Gira(c)
    BY <2>3, <2>a DEF Gira, TypeOK
<2>4. CASE Recibe(c)
    <3>1. cliente'[c].pc = "corre"
      BY <2>4 DEF Recibe, Recibido, TypeOK
    <3> QED
      BY <2>4, <2>a, <3>1 DEF Recibe
<2>5. CASE MateClose(c)
    <3>1. cliente'[c].pc = "fin" /\ cliente[c].pc # "fin"
          /\ conexion[c] # "ninguna"
      BY <2>5 DEF MateClose, Cierra, TypeOK, Etapa
    <3>2. pedidos[c] \in Nat /\ Desconexion.cod = "CLIENTE_DESCONECTADO"
      BY <1>0 DEF TypeOK, Desconexion, Paquete
    <3>3. CASE desconectado[c]
      BY <2>5, <2>a, <3>1, <3>3 DEF MateClose, Cierra
    <3>4. CASE ~desconectado[c]
      <4>1. hacia'[c] = Append(hacia[c], Desconexion)
        BY <2>5, <3>4 DEF MateClose, TypeOK
      <4>2. lista' = lista /\ escenario' = escenario /\ pedidos' = pedidos
        BY <2>5 DEF MateClose, Cierra
      <4> QED
        BY <1>0, <2>c, <3>1, <3>2, <4>1, <4>2
    <3> QED
      BY <3>3, <3>4
<2>6. CASE Muere(c)
    <3>1. cliente'[c].pc = "fin" /\ conexion[c] # "ninguna"
      BY <2>6 DEF Muere, Cierra, TypeOK, Etapa
    <3> QED
      BY <2>6, <2>a, <3>1 DEF Muere, Cierra
<2>7. CASE Acepta(c)
  BY <2>7, <2>a DEF Acepta, Marcados, Etapa, TypeOK, Pasa, EnHilo
<2>8. CASE AtiendeNuevo(c)
    <3>1. hacia[c] # <<>> /\ hacia[c][1].cod = "NUEVO_CARPINCHO"
      BY <2>8, RecienEntra
    <3>2. hacia'[c] = Tail(hacia[c])
      BY <2>8, <3>1 DEF AtiendeNuevo, Leido, TypeOK
    <3>3. lista'[c] # "ninguna"
      BY <2>8 DEF AtiendeNuevo, TypeOK
    <3> QED
      BY <2>8, <2>b, <3>1, <3>2, <3>3 DEF AtiendeNuevo
<2>9. CASE AtiendeTarea(c)
    <3>0. PICK op \in DeCliente : Lee(c, op)
      BY <2>9 DEF AtiendeTarea, DeCliente
    <3>1. hacia[c] # <<>>
      BY <3>0 DEF Lee, DeCliente, DeKernel, DeMemoria
    <3>2. hacia'[c] = Tail(hacia[c])
      BY <2>9, <3>1 DEF AtiendeTarea, Leido, TypeOK
    <3>3. op # "NUEVO_CARPINCHO"
      BY DEF DeCliente, DeKernel, DeMemoria
    <3>4. lista[c] # "ninguna"
      BY <2>9, <3>0, <3>3, YaEntro DEF AtiendeTarea
    <3> QED
      BY <2>9, <2>b, <3>1, <3>2, <3>4 DEF AtiendeTarea
<2>10. CASE AtiendeDesconexion(c)
    <3>4. lista[c] # "ninguna"
      BY <2>10, YaEntro DEF AtiendeDesconexion
    <3>5. CASE hacia[c] = <<>>
      <4>1. hacia'[c] = hacia[c]
        BY <2>10, <3>5 DEF AtiendeDesconexion, Leido, TypeOK
      <4> QED
        BY <2>10, <2>a, <4>1 DEF AtiendeDesconexion
    <3>6. CASE hacia[c] # <<>>
      <4>1. hacia'[c] = Tail(hacia[c])
        BY <2>10, <3>6 DEF AtiendeDesconexion, Leido, TypeOK
      <4> QED
        BY <2>10, <2>b, <3>4, <3>6, <4>1 DEF AtiendeDesconexion
    <3> QED
      BY <3>5, <3>6
<2>11. CASE Despacha(c)
  BY <2>11, <2>a DEF Despacha, Marcados, Etapa, TypeOK, Pasa, EnHilo
<2>12. CASE ExecEmpieza(c)
    <3>1. conexion[c] # "ninguna"
      <4>1. PICK cod, n : Envia(c, cod, n)
        BY <2>12, QuienEnvia
      <4> QED
        BY <4>1, EnviaEfecto
    <3> QED
      BY <2>12, <2>a, <3>1 DEF ExecEmpieza
<2>12b. CASE NoEmpieza(c)
  BY <2>12b, <2>a DEF NoEmpieza, Marcados, Etapa, TypeOK, Pasa, EnHilo
<2>13. CASE ExecToma(c)
  BY <2>13, <2>a DEF ExecToma, Marcados, Etapa, TypeOK, Pasa, EnHilo
<2>14. CASE ExecConfirma(c)
    <3>1. conexion[c] # "ninguna"
      <4>1. PICK cod, n : Envia(c, cod, n)
        BY <2>14, QuienEnvia
      <4> QED
        BY <4>1, EnviaEfecto
    <3> QED
      BY <2>14, <2>a, <3>1 DEF ExecConfirma
<2>15. CASE ExecEspera(c)
  BY <2>15, <2>a DEF ExecEspera, Marcados, Etapa, TypeOK, Pasa, EnHilo
<2>16. CASE ExecSinSemaforo(c)
    <3>1. conexion[c] # "ninguna"
      <4>1. PICK cod, n : Envia(c, cod, n)
        BY <2>16, QuienEnvia
      <4> QED
        BY <4>1, EnviaEfecto
    <3> QED
      BY <2>16, <2>a, <3>1 DEF ExecSinSemaforo
<2>17. CASE ExecBloquea(c)
  BY <2>17, <2>a DEF ExecBloquea, Marcados, Etapa, TypeOK, Pasa, EnHilo
<2>18. CASE Despierta(c)
  BY <2>18, <2>a DEF Despierta, Marcados, Etapa, TypeOK, Pasa, EnHilo
<2>19. CASE ExecPideMemoria(c)
  BY <2>19, <2>a DEF ExecPideMemoria, Marcados, Etapa, TypeOK, Pasa, EnHilo
<2>20. CASE ExecSinMemoria(c)
    <3>1. conexion[c] # "ninguna"
      <4>1. PICK cod, n : Envia(c, cod, n)
        BY <2>20, QuienEnvia
      <4> QED
        BY <4>1, EnviaEfecto
    <3> QED
      BY <2>20, <2>a, <3>1 DEF ExecSinMemoria
<2>21. CASE ExecLeeCodigo(c)
  BY <2>21, <2>a DEF ExecLeeCodigo, Marcados, Etapa, TypeOK, Pasa, EnHilo
<2>22. CASE ExecLeeResto(c)
    <3>1. conexion[c] # "ninguna"
      <4>1. PICK cod, n : Envia(c, cod, n)
        BY <2>22, QuienEnvia
      <4> QED
        BY <4>1, EnviaEfecto
    <3> QED
      BY <2>22, <2>a, <3>1 DEF ExecLeeResto
<2>23. CASE EligeVictima(c)
  BY <2>23, <2>a DEF EligeVictima, Marcados, Etapa, TypeOK, Pasa, EnHilo
<2>24. CASE SalidaMueve(c)
  BY <2>24, <2>a DEF SalidaMueve, Marcados, Etapa, TypeOK, Pasa, EnHilo
<2>25. CASE MemoriaAtiende(c)
    <3>1. conexion[c] # "ninguna"
      <4>1. PICK cod, n : Envia(c, cod, n)
        BY <2>25, QuienEnvia
      <4> QED
        BY <4>1, EnviaEfecto
    <3>2. ~ConKernel /\ lista[c] = "ninguna"
      BY <2>25 DEF MemoriaAtiende, Etapa
    <3>3. /\ pedidos' = pedidos /\ escenario' = escenario /\ lista' = lista
          /\ cliente' = cliente
      BY <2>25 DEF MemoriaAtiende
    <3>5. CASE hacia[c] = <<>>
      <4>1. hacia'[c] = hacia[c]
        BY <2>25, <3>5 DEF MemoriaAtiende, Leido, TypeOK
      <4> QED
        BY <2>a, <3>1, <3>3, <4>1
    <3>6. CASE hacia[c] # <<>>
      <4>1. hacia'[c] = Tail(hacia[c])
        BY <2>25, <3>6 DEF MemoriaAtiende, Leido, TypeOK
      <4>2. \A i \in DOMAIN hacia'[c] :
               i + 1 \in DOMAIN hacia[c] /\ hacia'[c][i] = hacia[c][i + 1]
                 /\ i + 1 # 1
        BY <3>6, <4>1, TrasTail
      <4> QED
        BY <3>2, <3>3, <4>2 DEF Enviado, ConKernel
    <3> QED
      BY <3>5, <3>6
<2>26. CASE saliendo = c /\ SalidaAvisa
    <3>1. conexion[c] # "ninguna"
      <4>1. PICK cod, n : Envia(c, cod, n)
        BY <2>26, QuienEnvia
      <4> QED
        BY <4>1, EnviaEfecto
    <3> QED
      BY <2>26, <2>a, <3>1 DEF SalidaAvisa
<2> QED
  BY <2>1, <2>2, <2>3, <2>4, <2>5, <2>6, <2>7, <2>8, <2>9, <2>10, <2>11,
     <2>12, <2>12b, <2>13, <2>14, <2>15, <2>16, <2>17, <2>18, <2>19, <2>20,
     <2>21, <2>22, <2>23, <2>24, <2>25, <2>26, <1>2
     DEF PasoDe, Cliente, Exec, Atiende
<1>3. CASE PasoComun
  BY <1>1, <1>3, IgualesTodos DEF Enviados
<1>4. ASSUME NEW c \in Carpinchos, PasoDe(c)
      PROVE  Enviados'
  BY <1>1, <1>2, <1>4, IgualesLosDemas DEF Enviados
<1> QED
  BY <1>3, <1>4, Pasos

\* Nobody leaves lista_exit
LEMMA ExitEsFinal ==
  ASSUME IInv, NEW c \in Carpinchos, PasoDe(c), lista[c] = "exit"
  PROVE  lista'[c] = "exit"
PROOF
<1> USE DEF sockets, clientes, conexiones, salidas, memoria, kernel, ajenos
<1> TypeOK /\ Etapas /\ Enviados BY DEF IInv
<1>1. CASE MateInit(c)
  BY <1>1 DEF MateInit, Marcados, TypeOK
<1>2. CASE Llama(c)
  BY <1>2 DEF Llama, Marcados, TypeOK
<1>3. CASE Gira(c)
  BY <1>3 DEF Gira, Marcados, TypeOK
<1>4. CASE Recibe(c)
  BY <1>4 DEF Recibe, Marcados, TypeOK
<1>5. CASE MateClose(c)
  BY <1>5 DEF MateClose, Cierra
<1>6. CASE Muere(c)
  BY <1>6 DEF Muere, Cierra
<1>7. CASE Acepta(c)
  BY <1>7 DEF Acepta, Marcados, TypeOK
<1>8. CASE AtiendeNuevo(c)
  BY <1>8, RecienEntra DEF Entra
<1>9. CASE AtiendeTarea(c)
  BY <1>9 DEF AtiendeTarea, Marcados, TypeOK
<1>10. CASE AtiendeDesconexion(c)
  BY <1>10 DEF AtiendeDesconexion, Marcados, TypeOK
<1>11. CASE Despacha(c)
  BY <1>11 DEF Despacha, Marcados, TypeOK
<1>12. CASE ExecEmpieza(c)
  BY <1>12 DEF ExecEmpieza, Marcados, TypeOK
<1>12b. CASE NoEmpieza(c)
  BY <1>12b DEF NoEmpieza, Marcados, TypeOK
<1>13. CASE ExecToma(c)
  BY <1>13 DEF ExecToma, Marcados, TypeOK
<1>14. CASE ExecConfirma(c)
  BY <1>14 DEF ExecConfirma, Marcados, TypeOK
<1>15. CASE ExecEspera(c)
  BY <1>15 DEF ExecEspera, Marcados, TypeOK
<1>16. CASE ExecSinSemaforo(c)
  BY <1>16 DEF ExecSinSemaforo, Marcados, TypeOK
<1>17. CASE ExecBloquea(c)
  BY <1>17 DEF ExecBloquea, Marcados, TypeOK
<1>18. CASE Despierta(c)
  BY <1>18 DEF Despierta, Marcados, TypeOK
<1>19. CASE ExecPideMemoria(c)
  BY <1>19 DEF ExecPideMemoria, Marcados, TypeOK
<1>20. CASE ExecSinMemoria(c)
  BY <1>20 DEF ExecSinMemoria, Marcados, TypeOK
<1>21. CASE ExecLeeCodigo(c)
  BY <1>21 DEF ExecLeeCodigo, Marcados, TypeOK
<1>22. CASE ExecLeeResto(c)
  BY <1>22 DEF ExecLeeResto, Marcados, TypeOK
<1>23. CASE EligeVictima(c)
  BY <1>23 DEF EligeVictima, Marcados, TypeOK
<1>24. CASE SalidaMueve(c)
  BY <1>24 DEF SalidaMueve, Marcados, TypeOK
<1>25. CASE MemoriaAtiende(c)
  BY <1>25 DEF MemoriaAtiende, Marcados, TypeOK
<1>26. CASE saliendo = c /\ SalidaAvisa
  BY <1>26 DEF SalidaAvisa, Marcados, TypeOK
<1> QED
  BY <1>1, <1>2, <1>3, <1>4, <1>5, <1>6, <1>7, <1>8, <1>9, <1>10, <1>11,
     <1>12, <1>12b, <1>13, <1>14, <1>15, <1>16, <1>17, <1>18, <1>19, <1>20,
     <1>21, <1>22, <1>23, <1>24, <1>25, <1>26
     DEF PasoDe, Cliente, Exec, Atiende

LEMMA HiloInductivo ==
  ASSUME IInv, NEW c \in Carpinchos, PasoDe(c)
  PROVE  Hilo(c)'
PROOF
<1> USE DEF sockets, clientes, conexiones, salidas, memoria, kernel, ajenos
<1> TypeOK /\ Etapas /\ Enviados /\ Hilos /\ Hilo(c) /\ Etapa(c)
  BY DEF IInv, Hilos, Etapas
<1>0. /\ Desconexion \in Paquetes
      /\ Desconexion.cod \notin DeCliente
      /\ "NUEVO_CARPINCHO" \notin DeCliente
      /\ MaxPedidos \in Nat
  BY ConstantesTipadas
     DEF Desconexion, Paquete, Paquetes, Codigos, DeCliente, DeKernel, DeMemoria
<1>l. task_list[c] \in Seq(Paquetes) /\ exec[c] \in Ejecuciones
      /\ hacia[c] \in Seq(Paquetes) /\ pedidos[c] \in Nat
  BY <1>0 DEF TypeOK, Ejecuciones
<1>a. ASSUME lista'[c] = lista[c], exec'[c] = exec[c],
             task_list'[c] = task_list[c], pedidos[c] > 0 => pedidos'[c] > 0
      PROVE  Hilo(c)'
  BY <1>a DEF Hilo
<1>b. ASSUME lista'[c] = lista[c], task_list'[c] = task_list[c],
             pedidos'[c] = pedidos[c],
             exec'[c].pc \notin {"fuera", "colgado", "hace"},
             exec[c].pc \notin {"fuera", "colgado"},
             exec'[c].pc \in Activo => exec[c].pc \in Activo
      PROVE  Hilo(c)'
  BY <1>b DEF Hilo
<1>1. CASE MateInit(c)
    <2>1. pedidos'[c] = pedidos[c]
      BY <1>1 DEF MateInit, Pide, Etapa, TypeOK
    <2> QED
      BY <1>1, <1>a, <2>1 DEF MateInit
<1>2. CASE Llama(c)
    <2>1. PICK op : Pide(c, op, pedidos[c] + 1)
      BY <1>2 DEF Llama
    <2>2. pedidos'[c] = pedidos[c] + 1 /\ pedidos[c] + 1 > 0
      BY <1>l, <2>1 DEF Pide, TypeOK
    <2> QED
      BY <1>2, <1>a, <2>2 DEF Llama
<1>3. CASE Gira(c)
    BY <1>3, <1>a DEF Gira
<1>4. CASE Recibe(c)
    BY <1>4, <1>a DEF Recibe
<1>5. CASE MateClose(c)
  BY <1>5, <1>a DEF MateClose, Cierra
<1>6. CASE Muere(c)
  BY <1>6, <1>a DEF Muere, Cierra
<1>7. CASE Acepta(c)
    BY <1>7, <1>a DEF Acepta
<1>8. CASE AtiendeNuevo(c)
    <2>1. lista[c] = "ninguna"
      BY <1>8, RecienEntra DEF Entra
    <2>2. lista'[c] = "ready" /\ exec'[c].pc = exec[c].pc
      BY <1>8 DEF AtiendeNuevo, TypeOK
    <2>3. task_list'[c] = task_list[c] /\ pedidos' = pedidos
      BY <1>8 DEF AtiendeNuevo
    <2> QED
      BY <2>1, <2>2, <2>3 DEF Hilo
<1>9. CASE AtiendeTarea(c)
    <2>1. PICK op \in DeCliente : Lee(c, op)
      BY <1>9 DEF AtiendeTarea, DeCliente
    <2>2. hacia[c] # <<>> /\ Head(hacia[c]).cod = op
      BY <2>1 DEF Lee, DeCliente, DeKernel, DeMemoria
    <2>3. PICK m \in Paquetes : m = Head(hacia[c])
      BY <1>l, <2>2, TrasTail
    <2>4. m.cod \in DeCliente /\ pedidos[c] > 0
      <3>1. 1 \in DOMAIN hacia[c] /\ hacia[c][1] = m
        BY <1>l, <2>2, <2>3, TrasTail
      <3> QED
        BY <2>2, <2>3, <3>1 DEF Enviados, Enviado
    <2>5. task_list'[c] = Append(task_list[c], m)
      BY <1>9, <2>3 DEF AtiendeTarea, TypeOK
    <2>6. /\ task_list'[c] # <<>>
          /\ task_list[c] # <<>> => task_list'[c][1] = task_list[c][1]
          /\ \A i \in DOMAIN task_list'[c] :
               \/ i \in DOMAIN task_list[c] /\ task_list'[c][i] = task_list[c][i]
               \/ i = Len(task_list[c]) + 1 /\ task_list'[c][i] = m
      BY <1>l, <2>5, TrasAppend
    <2>7. lista' = lista /\ exec' = exec /\ pedidos' = pedidos
      BY <1>9 DEF AtiendeTarea
    <2> QED
      BY <2>4, <2>6, <2>7 DEF Hilo
<1>10. CASE AtiendeDesconexion(c)
    BY <1>10, <1>a DEF AtiendeDesconexion
<1>11. CASE Despacha(c)
    <2>1. lista'[c] = "exec" /\ exec'[c].pc = "empieza" /\ lista[c] = "ready"
      BY <1>11 DEF Despacha, Pasa, TypeOK
    <2>2. task_list' = task_list /\ pedidos' = pedidos
      BY <1>11 DEF Despacha
    <2> QED
      BY <2>1, <2>2 DEF Hilo
<1>12. CASE ExecEmpieza(c)
    <2>1. exec'[c].pc = "mira"
      BY <1>12 DEF ExecEmpieza, Pasa, TypeOK
    <2> QED
      BY <1>12, <1>b, <2>1 DEF ExecEmpieza, EnHilo, Activo
<1>12b. CASE NoEmpieza(c)
    <2>1. exec'[c].pc = "fuera"
      BY <1>12b DEF NoEmpieza, Pasa, TypeOK
    <2> QED
      BY <1>12b, <2>1 DEF NoEmpieza, EnHilo, Activo, Hilo
<1>13. CASE ExecToma(c)
    <2>1. /\ task_list[c] # <<>> /\ exec[c].pc = "mira"
          /\ lista' = lista /\ pedidos' = pedidos
      BY <1>13 DEF ExecToma, EnHilo
    <2>2. PICK t \in Paquetes : t = Head(task_list[c])
      BY <1>l, <2>1, TrasTail
    <2>3. /\ exec'[c] = [pc |-> IF t = Desconexion THEN "fuera" ELSE "hace",
                         task |-> t]
          /\ task_list'[c] = Tail(task_list[c])
      BY <1>13, <2>2 DEF ExecToma, TypeOK
    <2>4. /\ 1 \in DOMAIN task_list[c] /\ task_list[c][1] = t
          /\ \A i \in DOMAIN task_list'[c] :
               i + 1 \in DOMAIN task_list[c]
                 /\ task_list'[c][i] = task_list[c][i + 1]
      BY <1>l, <2>1, <2>2, <2>3, TrasTail
    <2>5. CASE t = Desconexion
      <3>1. exec'[c].pc = "fuera" /\ lista[c] = "exit"
        BY <1>0, <2>3, <2>4, <2>5 DEF Hilo
      <3> QED
        BY <2>1, <2>4, <3>1 DEF Hilo, Activo
    <2>6. CASE t # Desconexion
      <3>1. exec'[c].pc = "hace" /\ exec'[c].task = t /\ t.cod \in DeCliente
            /\ pedidos[c] > 0
        BY <1>0, <2>3, <2>4, <2>6 DEF Hilo
      <3>2. lista[c] \notin {"exit", "ninguna", "ready", "blocked"}
        BY <2>1, <2>4, <2>6 DEF Hilo, Activo
      <3> QED
        BY <2>1, <2>4, <3>1, <3>2 DEF Hilo
    <2> QED
      BY <2>5, <2>6
<1>14. CASE ExecConfirma(c)
    <2>1. exec'[c].pc = "mira"
      BY <1>14 DEF ExecConfirma, Pasa, TypeOK
    <2> QED
      BY <1>14, <1>b, <2>1 DEF ExecConfirma, EnHilo, Activo
<1>15. CASE ExecEspera(c)
    <2>1. exec'[c].pc = "bloquea"
      BY <1>15 DEF ExecEspera, Pasa, TypeOK
    <2> QED
      BY <1>15, <1>b, <2>1 DEF ExecEspera, EnHilo, Activo
<1>16. CASE ExecSinSemaforo(c)
    <2>1. exec'[c].pc = "sin_semaforo"
      BY <1>16 DEF ExecSinSemaforo, Pasa, TypeOK
    <2> QED
      BY <1>16, <1>b, <2>1 DEF ExecSinSemaforo, EnHilo, Activo
<1>17. CASE ExecBloquea(c)
    <2>1. /\ exec'[c].pc \in {"fuera", "colgado"}
          /\ lista'[c] = IF lista[c] = "exec" THEN "blocked" ELSE lista[c]
      BY <1>17 DEF ExecBloquea, Pasa, TypeOK
    <2>2. lista[c] \in {"exec", "exit"}
      BY <1>17 DEF ExecBloquea, Hilo, TypeOK
    <2>3. task_list' = task_list /\ pedidos' = pedidos
      BY <1>17 DEF ExecBloquea
    <2> QED
      BY <2>1, <2>2, <2>3 DEF Hilo, Activo
<1>18. CASE Despierta(c)
    <2>1. lista'[c] = "ready" /\ exec[c].pc = "fuera" /\ lista[c] = "blocked"
      BY <1>18 DEF Despierta, TypeOK
    <2>2. task_list' = task_list /\ pedidos' = pedidos /\ exec' = exec
      BY <1>18 DEF Despierta
    <2> QED
      BY <2>1, <2>2 DEF Hilo
<1>19. CASE ExecPideMemoria(c)
    <2>1. exec'[c].pc = "lee_codigo"
      BY <1>19 DEF ExecPideMemoria, Pasa, TypeOK
    <2> QED
      BY <1>19, <1>b, <2>1 DEF ExecPideMemoria, EnHilo, Activo
<1>20. CASE ExecSinMemoria(c)
    <2>1. exec'[c].pc = "mira"
      BY <1>20 DEF ExecSinMemoria, Pasa, TypeOK
    <2> QED
      BY <1>20, <1>b, <2>1 DEF ExecSinMemoria, EnHilo, Activo
<1>21. CASE ExecLeeCodigo(c)
    <2>1. CASE exec' = exec
      BY <1>21, <1>a, <2>1 DEF ExecLeeCodigo
    <2>2. CASE Pasa(c, "lee_resto")
      <3>1. exec'[c].pc = "lee_resto"
        BY <2>2 DEF Pasa, TypeOK
      <3> QED
        BY <1>21, <1>b, <3>1 DEF ExecLeeCodigo, EnHilo, Activo
    <2> QED
      BY <1>21, <2>1, <2>2 DEF ExecLeeCodigo
<1>22. CASE ExecLeeResto(c)
    <2>1. exec'[c].pc = "mira"
      BY <1>22 DEF ExecLeeResto, Pasa, TypeOK
    <2> QED
      BY <1>22, <1>b, <2>1 DEF ExecLeeResto, EnHilo, Activo
<1>23. CASE EligeVictima(c)
    BY <1>23, <1>a DEF EligeVictima
<1>24. CASE SalidaMueve(c)
    <2>1. /\ lista'[c] = "exit" /\ exec' = exec /\ pedidos' = pedidos
          /\ task_list'[c] = IF lista[c] = "exec"
                             THEN <<Desconexion>> \o task_list[c]
                             ELSE task_list[c]
      BY <1>24 DEF SalidaMueve, TypeOK
    <2>2. lista[c] \in {"ready", "exec", "blocked"}
      BY <1>24 DEF SalidaMueve, Marcados, Etapa, TypeOK
    <2>3. CASE lista[c] = "exec"
      <3>1. /\ task_list'[c] # <<>> /\ task_list'[c][1] = Desconexion
            /\ \A i \in DOMAIN task_list'[c] :
                 \/ i = 1
                 \/ i - 1 \in DOMAIN task_list[c]
                      /\ task_list'[c][i] = task_list[c][i - 1]
        BY <1>0, <1>l, <2>1, <2>3, TrasPrefijo
      <3> QED
        BY <2>1, <2>3, <3>1 DEF Hilo
    <2>4. CASE lista[c] # "exec"
      BY <2>1, <2>2, <2>4 DEF Hilo, Activo
    <2> QED
      BY <2>3, <2>4
<1>25. CASE MemoriaAtiende(c)
    BY <1>25, <1>a DEF MemoriaAtiende
<1>26. CASE saliendo = c /\ SalidaAvisa
    BY <1>26, <1>a DEF SalidaAvisa
<1> QED
  BY <1>1, <1>2, <1>3, <1>4, <1>5, <1>6, <1>7, <1>8, <1>9, <1>10, <1>11,
     <1>12, <1>12b, <1>13, <1>14, <1>15, <1>16, <1>17, <1>18, <1>19, <1>20,
     <1>21, <1>22, <1>23, <1>24, <1>25, <1>26
     DEF PasoDe, Cliente, Exec, Atiende

LEMMA HilosInductivos ==
  ASSUME IInv, [Next]_vars
  PROVE  Hilos'
PROOF
<1> USE DEF sockets, clientes, conexiones, salidas, memoria, kernel, ajenos
<1> TypeOK /\ Etapas /\ Enviados /\ Hilos BY DEF IInv
<1>0. Nadie \notin Carpinchos
  BY ConstantesTipadas
<1>1. ASSUME NEW d \in Carpinchos, Igual(d)
      PROVE  Hilo(d)'
  BY <1>1 DEF Igual, Hilos, Hilo
<1>2. CASE PasoComun
  <2>1. \A d \in Carpinchos : Igual(d)
    BY <1>2, IgualesTodos
  <2>2. saliendo' = saliendo /\ a_medias' = a_medias
    BY <1>2 DEF PasoComun, ConectaMemoria, Memoria, SalidaNadie, vars
  <2>3. de_memoria # <<>> => de_memoria' # <<>>
    <3>1. CASE Memoria
      <4>1. PICK r : de_memoria' = Append(de_memoria, r)
        BY <3>1 DEF Memoria
      <4>2. de_memoria \in Seq(Relevos) /\ de_memoria' \in Seq(Relevos)
        BY TipoInductivo DEF TypeOK
      <4> QED
        BY <4>1, <4>2
    <3> QED
      BY <1>2, <3>1 DEF PasoComun, ConectaMemoria, SalidaNadie, vars
  <2>4. saliendo # Nadie => saliendo \in Carpinchos
    BY DEF TypeOK
  <2>5. a_medias # Nadie => a_medias \in Carpinchos
    BY DEF TypeOK
  <2> QED
    BY <1>1, <2>1, <2>2, <2>3, <2>4, <2>5 DEF Hilos, Igual
<1>3. ASSUME NEW c \in Carpinchos, PasoDe(c)
      PROVE  Hilos'
  <2>1. \A d \in Carpinchos : d # c => Igual(d)
    BY <1>3, IgualesLosDemas
  <2>2. \A d \in Carpinchos : Hilo(d)'
    BY <1>1, <1>3, <2>1, HiloInductivo
  <2>3. saliendo' # Nadie => lista'[saliendo'] = "exit"
    <3>1. \A d \in Carpinchos : lista[d] = "exit" => lista'[d] = "exit"
      BY <1>3, <2>1, ExitEsFinal DEF Igual
    <3>2. \/ saliendo' \in {saliendo, Nadie}
          \/ saliendo' = c /\ lista'[c] = "exit"
<4>1. CASE MateInit(c)
    BY <4>1 DEF MateInit
<4>2. CASE Llama(c)
    BY <4>2 DEF Llama
<4>3. CASE Gira(c)
    BY <4>3 DEF Gira
<4>4. CASE Recibe(c)
    BY <4>4 DEF Recibe
<4>5. CASE MateClose(c)
    BY <4>5 DEF MateClose, Cierra
<4>6. CASE Muere(c)
    BY <4>6 DEF Muere, Cierra
<4>7. CASE Acepta(c)
    BY <4>7 DEF Acepta
<4>8. CASE AtiendeNuevo(c)
    BY <4>8 DEF AtiendeNuevo
<4>9. CASE AtiendeTarea(c)
    BY <4>9 DEF AtiendeTarea
<4>10. CASE AtiendeDesconexion(c)
    BY <4>10 DEF AtiendeDesconexion
<4>11. CASE Despacha(c)
    BY <4>11 DEF Despacha
<4>12. CASE ExecEmpieza(c)
    BY <4>12 DEF ExecEmpieza
<4>12b. CASE NoEmpieza(c)
    BY <4>12b DEF NoEmpieza
<4>13. CASE ExecToma(c)
    BY <4>13 DEF ExecToma
<4>14. CASE ExecConfirma(c)
    BY <4>14 DEF ExecConfirma
<4>15. CASE ExecEspera(c)
    BY <4>15 DEF ExecEspera
<4>16. CASE ExecSinSemaforo(c)
    BY <4>16 DEF ExecSinSemaforo
<4>17. CASE ExecBloquea(c)
    BY <4>17 DEF ExecBloquea
<4>18. CASE Despierta(c)
    BY <4>18 DEF Despierta
<4>19. CASE ExecPideMemoria(c)
    BY <4>19 DEF ExecPideMemoria
<4>20. CASE ExecSinMemoria(c)
    BY <4>20 DEF ExecSinMemoria
<4>21. CASE ExecLeeCodigo(c)
    BY <4>21 DEF ExecLeeCodigo
<4>22. CASE ExecLeeResto(c)
    BY <4>22 DEF ExecLeeResto
<4>23. CASE EligeVictima(c)
    BY <4>23 DEF EligeVictima
<4>24. CASE SalidaMueve(c)
    BY <4>24 DEF SalidaMueve, TypeOK
<4>25. CASE MemoriaAtiende(c)
    BY <4>25 DEF MemoriaAtiende
<4>26. CASE saliendo = c /\ SalidaAvisa
    BY <4>26 DEF SalidaAvisa
<4> QED
  BY <4>1, <4>2, <4>3, <4>4, <4>5, <4>6, <4>7, <4>8, <4>9, <4>10, <4>11,
     <4>12, <4>12b, <4>13, <4>14, <4>15, <4>16, <4>17, <4>18, <4>19, <4>20,
     <4>21, <4>22, <4>23, <4>24, <4>25, <4>26, <1>3
     DEF PasoDe, Cliente, Exec, Atiende
    <3> QED
      BY <3>1, <3>2 DEF Hilos, TypeOK
  <2>4. CASE ExecLeeCodigo(c)
    <3>1. CASE a_medias = Nadie
      <4>1. a_medias' = c /\ exec'[c].pc = "lee_resto"
            /\ de_memoria' = de_memoria /\ de_memoria # <<>>
        BY <2>4, <3>1 DEF ExecLeeCodigo, Pasa, TypeOK
      <4>2. \A d \in Carpinchos : d # c => exec'[d].pc # "lee_resto"
        BY <1>0, <2>1, <3>1 DEF Hilos, Igual
      <4> QED
        BY <2>2, <2>3, <4>1, <4>2 DEF Hilos
    <3>2. CASE a_medias # Nadie
      <4>1. a_medias' = a_medias /\ exec' = exec /\ de_memoria' = de_memoria
        BY <2>4, <3>2 DEF ExecLeeCodigo
      <4> QED
        BY <2>2, <2>3, <4>1 DEF Hilos
    <3> QED
      BY <3>1, <3>2
  <2>5. CASE ExecLeeResto(c)
    <3>1. exec[c].pc = "lee_resto" /\ exec'[c].pc = "mira" /\ a_medias' = Nadie
      BY <2>5 DEF ExecLeeResto, EnHilo, Pasa, TypeOK
    <3>2. \A d \in Carpinchos : d # c => exec'[d].pc # "lee_resto"
      BY <2>1, <3>1 DEF Hilos, Igual
    <3> QED
      BY <2>2, <2>3, <3>1, <3>2 DEF Hilos
  <2>6. CASE ~ExecLeeCodigo(c) /\ ~ExecLeeResto(c)
    <3>1. /\ a_medias' = a_medias /\ de_memoria' = de_memoria
          /\ exec'[c].pc = "lee_resto" <=> exec[c].pc = "lee_resto"
<4>1. CASE MateInit(c)
    BY <4>1 DEF MateInit, EnHilo, Pasa, TypeOK
<4>2. CASE Llama(c)
    BY <4>2 DEF Llama, EnHilo, Pasa, TypeOK
<4>3. CASE Gira(c)
    BY <4>3 DEF Gira, EnHilo, Pasa, TypeOK
<4>4. CASE Recibe(c)
    BY <4>4 DEF Recibe, EnHilo, Pasa, TypeOK
<4>5. CASE MateClose(c)
    BY <4>5 DEF MateClose, Cierra
<4>6. CASE Muere(c)
    BY <4>6 DEF Muere, Cierra
<4>7. CASE Acepta(c)
    BY <4>7 DEF Acepta, EnHilo, Pasa, TypeOK
<4>8. CASE AtiendeNuevo(c)
    BY <4>8 DEF AtiendeNuevo, EnHilo, Pasa, TypeOK
<4>9. CASE AtiendeTarea(c)
    BY <4>9 DEF AtiendeTarea, EnHilo, Pasa, TypeOK
<4>10. CASE AtiendeDesconexion(c)
    BY <4>10 DEF AtiendeDesconexion, EnHilo, Pasa, TypeOK
<4>11. CASE Despacha(c)
    BY <4>11 DEF Despacha, EnHilo, Pasa, TypeOK, Hilos, Hilo
<4>12. CASE ExecEmpieza(c)
    BY <4>12 DEF ExecEmpieza, EnHilo, Pasa, TypeOK
<4>12b. CASE NoEmpieza(c)
    BY <4>12b DEF NoEmpieza, EnHilo, Pasa, TypeOK
<4>13. CASE ExecToma(c)
    BY <4>13 DEF ExecToma, EnHilo, Pasa, TypeOK
<4>14. CASE ExecConfirma(c)
    BY <4>14 DEF ExecConfirma, EnHilo, Pasa, TypeOK
<4>15. CASE ExecEspera(c)
    BY <4>15 DEF ExecEspera, EnHilo, Pasa, TypeOK
<4>16. CASE ExecSinSemaforo(c)
    BY <4>16 DEF ExecSinSemaforo, EnHilo, Pasa, TypeOK
<4>17. CASE ExecBloquea(c)
    BY <4>17 DEF ExecBloquea, EnHilo, Pasa, TypeOK
<4>18. CASE Despierta(c)
    BY <4>18 DEF Despierta, EnHilo, Pasa, TypeOK
<4>19. CASE ExecPideMemoria(c)
    BY <4>19 DEF ExecPideMemoria, EnHilo, Pasa, TypeOK
<4>20. CASE ExecSinMemoria(c)
    BY <4>20 DEF ExecSinMemoria, EnHilo, Pasa, TypeOK
<4>21. CASE ExecLeeCodigo(c)
    BY <4>21, <2>6
<4>22. CASE ExecLeeResto(c)
    BY <4>22, <2>6
<4>23. CASE EligeVictima(c)
    BY <4>23 DEF EligeVictima, EnHilo, Pasa, TypeOK
<4>24. CASE SalidaMueve(c)
    BY <4>24 DEF SalidaMueve, EnHilo, Pasa, TypeOK
<4>25. CASE MemoriaAtiende(c)
    BY <4>25 DEF MemoriaAtiende, EnHilo, Pasa, TypeOK
<4>26. CASE saliendo = c /\ SalidaAvisa
    BY <4>26 DEF SalidaAvisa, EnHilo, Pasa, TypeOK
<4> QED
  BY <4>1, <4>2, <4>3, <4>4, <4>5, <4>6, <4>7, <4>8, <4>9, <4>10, <4>11,
     <4>12, <4>12b, <4>13, <4>14, <4>15, <4>16, <4>17, <4>18, <4>19, <4>20,
     <4>21, <4>22, <4>23, <4>24, <4>25, <4>26, <1>3
     DEF PasoDe, Cliente, Exec, Atiende
    <3>2. \A d \in Carpinchos :
            exec'[d].pc = "lee_resto" <=> exec[d].pc = "lee_resto"
      BY <2>1, <3>1 DEF Igual
    <3>3. a_medias # Nadie => a_medias \in Carpinchos
      BY DEF TypeOK
    <3> QED
      BY <2>2, <2>3, <3>1, <3>2, <3>3 DEF Hilos
  <2> QED
    BY <2>4, <2>5, <2>6
<1> QED
  BY <1>2, <1>3, Pasos
-----------------------------------------------------------------------------
(* One request at a time, in one place *)

\* What is sent goes at the end
LEMMA TrasEnvio ==
  ASSUME TypeOK, NEW c \in Carpinchos, NEW e
  PROVE  /\ Len(desde[c]) \in Nat
         /\ Len(Append(desde[c], e)) = Len(desde[c]) + 1
         /\ Append(desde[c], e) # <<>>
         /\ desde[c] = <<>> => Append(desde[c], e)[1] = e
         /\ \A i \in DOMAIN Append(desde[c], e) :
              \/ i \in DOMAIN desde[c] /\ Append(desde[c], e)[i] = desde[c][i]
              \/ Append(desde[c], e)[i] = e
PROOF
<1>1. desde[c] \in Seq(Paquetes)
  BY DEF TypeOK
<1>2. desde[c] \in Seq(Paquetes \cup {e})
  BY <1>1
<1>3. e \in Paquetes \cup {e} /\ Len(desde[c]) \in Nat
  BY <1>1
<1> QED
  BY <1>2, <1>3, TrasAppend

\* An exec thread pays what it owes
LEMMA CuentaTrasEnvio ==
  ASSUME TypeOK, NEW c \in Carpinchos, Etapa(c), Cuenta(c), Toca(c), ~Toca(c)',
         NEW cod, NEW n, Envia(c, cod, n),
         hacia'[c] = hacia[c], task_list'[c] = task_list[c],
         cliente'[c] = cliente[c]
  PROVE  /\ Cuenta(c)' /\ hacia[c] = <<>> /\ task_list[c] = <<>>
         /\ cliente[c].pc # "fin" =>
              /\ cliente[c].pc = "espera" /\ desde[c] = <<>>
              /\ desde'[c] # <<>> /\ desde'[c][1] = Paquete(cod, n)
PROOF
<1>1. PICK h \in Nat, t \in Nat, d \in Nat :
        h = Len(hacia[c]) /\ t = Len(task_list[c]) /\ d = Len(desde[c])
  BY DEF TypeOK
<1>6. /\ h = 0 => hacia[c] = <<>>
      /\ t = 0 => task_list[c] = <<>>
      /\ d = 0 => desde[c] = <<>>
  BY <1>1 DEF TypeOK
<1>2. Uno(Toca(c)) = 1 /\ Uno(Toca(c)') = 0
  BY DEF Uno
<1>3. Uno(cliente[c].pc = "espera") \in {0, 1}
      /\ (Uno(cliente[c].pc = "espera") = 1 => cliente[c].pc = "espera")
  BY DEF Uno
<1>4. CASE cliente[c].pc = "fin"
  <2>1. h + t + 1 <= 1
    BY <1>1, <1>2, <1>4 DEF Cuenta
  <2>2. h + t + 0 <= 1 /\ h = 0 /\ t = 0
    BY <2>1
  <2>3. Cuenta(c)'
    BY <1>1, <1>2, <1>4, <2>2 DEF Cuenta
  <2> QED
    BY <1>4, <1>6, <2>2, <2>3
<1>5. CASE cliente[c].pc # "fin"
  <2>1. h + t + d + 1 = Uno(cliente[c].pc = "espera")
    BY <1>1, <1>2, <1>5 DEF Cuenta
  <2>2. /\ Uno(cliente[c].pc = "espera") = 1
        /\ h = 0 /\ t = 0 /\ d = 0
    BY <1>3, <2>1
  <2>3. conexion[c] \notin {"cerrada", "reset"}
    BY <1>5 DEF Etapa, Cerrada
  <2>4. desde'[c] = Append(desde[c], Paquete(cod, n))
    BY <2>3, EnviaEfecto
  <2>5. /\ Len(desde'[c]) = 1 /\ desde'[c] # <<>>
        /\ desde'[c][1] = Paquete(cod, n)
    BY <1>1, <1>6, <2>2, <2>4, TrasEnvio
  <2>6. Cuenta(c)'
    BY <1>1, <1>2, <1>5, <2>2, <2>5 DEF Cuenta
  <2> QED
    BY <1>6, <1>3, <2>2, <2>5, <2>6
<1> QED
  BY <1>4, <1>5

\* Everybody works only while nothing ended
LEMMA NadaTermino ==
  ASSUME TypeOK, NEW c \in Carpinchos, PasoDe(c), caido' = "no"
  PROVE  caido = "no"
PROOF
<1> USE DEF sockets, clientes, conexiones, salidas, memoria, kernel, ajenos
<1>1. CASE MateInit(c)
  BY <1>1 DEF MateInit, EnHilo, EnKernel
<1>2. CASE Llama(c)
  BY <1>2 DEF Llama, EnHilo, EnKernel
<1>3. CASE Gira(c)
  BY <1>3 DEF Gira, EnHilo, EnKernel
<1>4. CASE Recibe(c)
  BY <1>4 DEF Recibe, EnHilo, EnKernel
<1>5. CASE MateClose(c)
  BY <1>5 DEF MateClose, Cierra
<1>6. CASE Muere(c)
  BY <1>6 DEF Muere, Cierra
<1>7. CASE Acepta(c)
  BY <1>7 DEF Acepta, EnHilo, EnKernel
<1>8. CASE AtiendeNuevo(c)
  BY <1>8 DEF AtiendeNuevo, EnHilo, EnKernel
<1>9. CASE AtiendeTarea(c)
  BY <1>9 DEF AtiendeTarea, EnHilo, EnKernel
<1>10. CASE AtiendeDesconexion(c)
  BY <1>10 DEF AtiendeDesconexion, EnHilo, EnKernel
<1>11. CASE Despacha(c)
  BY <1>11 DEF Despacha, EnHilo, EnKernel
<1>12. CASE ExecEmpieza(c)
  BY <1>12 DEF ExecEmpieza, EnHilo, EnKernel
<1>12b. CASE NoEmpieza(c)
  BY <1>12b DEF NoEmpieza, EnHilo, EnKernel
<1>13. CASE ExecToma(c)
  BY <1>13 DEF ExecToma, EnHilo, EnKernel
<1>14. CASE ExecConfirma(c)
  BY <1>14 DEF ExecConfirma, EnHilo, EnKernel
<1>15. CASE ExecEspera(c)
  BY <1>15 DEF ExecEspera, EnHilo, EnKernel
<1>16. CASE ExecSinSemaforo(c)
  BY <1>16 DEF ExecSinSemaforo, EnHilo, EnKernel
<1>17. CASE ExecBloquea(c)
  BY <1>17 DEF ExecBloquea, EnHilo, EnKernel
<1>18. CASE Despierta(c)
  BY <1>18 DEF Despierta, EnHilo, EnKernel
<1>19. CASE ExecPideMemoria(c)
  BY <1>19 DEF ExecPideMemoria, EnHilo, EnKernel
<1>20. CASE ExecSinMemoria(c)
  BY <1>20 DEF ExecSinMemoria, EnHilo, EnKernel
<1>21. CASE ExecLeeCodigo(c)
  BY <1>21 DEF ExecLeeCodigo, EnHilo, EnKernel
<1>22. CASE ExecLeeResto(c)
  BY <1>22 DEF ExecLeeResto, EnHilo, EnKernel
<1>23. CASE EligeVictima(c)
  BY <1>23 DEF EligeVictima, EnHilo, EnKernel
<1>24. CASE SalidaMueve(c)
  BY <1>24 DEF SalidaMueve, EnHilo, EnKernel
<1>25. CASE MemoriaAtiende(c)
  BY <1>25 DEF MemoriaAtiende, EnHilo, EnKernel
<1>26. CASE saliendo = c /\ SalidaAvisa
  BY <1>26 DEF SalidaAvisa, EnHilo, EnKernel
<1> QED
  BY <1>1, <1>2, <1>3, <1>4, <1>5, <1>6, <1>7, <1>8, <1>9, <1>10, <1>11,
     <1>12, <1>12b, <1>13, <1>14, <1>15, <1>16, <1>17, <1>18, <1>19, <1>20,
     <1>21, <1>22, <1>23, <1>24, <1>25, <1>26
     DEF PasoDe, Cliente, Exec, Atiende

LEMMA TailDeUno ==
  ASSUME NEW S, NEW s \in Seq(S), Len(s) = 1
  PROVE  s # <<>> /\ Tail(s) = <<>> /\ s[1] = Head(s)
PROOF
<1>1. s # <<>> /\ s[1] = Head(s)
  OBVIOUS
<1>2. Tail(s) \in Seq(S) /\ Len(Tail(s)) = 0
  BY <1>1
<1>3. \A q \in Seq(S) : Len(q) = 0 => q = <<>>
  OBVIOUS
<1> QED
  BY <1>1, <1>2, <1>3, Zenon

LEMMA Largos ==
  /\ Len(<<>>) = 0 /\ DOMAIN <<>> = {}
  /\ \A e : Len(<<e>>) = 1 /\ DOMAIN <<e>> = {1} /\ <<e>>[1] = e
OBVIOUS

\* What a carpincho is owed is in one place
LEMMA UnoPorVez ==
  ASSUME TypeOK, NEW c \in Carpinchos, Cuenta(c)
  PROVE  /\ Toca(c) => hacia[c] = <<>> /\ task_list[c] = <<>>
         /\ hacia[c] # <<>> => /\ Len(hacia[c]) = 1 /\ task_list[c] = <<>>
                               /\ ~Toca(c)
         /\ task_list[c] # <<>> => /\ Len(task_list[c]) = 1
                                   /\ hacia[c] = <<>> /\ ~Toca(c)
         /\ cliente[c].pc \notin {"fin", "espera"} =>
              /\ hacia[c] = <<>> /\ task_list[c] = <<>> /\ desde[c] = <<>>
              /\ ~Toca(c)
         /\ cliente[c].pc # "fin" /\ hacia[c] # <<>> =>
              cliente[c].pc = "espera" /\ desde[c] = <<>>
         /\ cliente[c].pc # "fin" /\ desde[c] # <<>> =>
              /\ cliente[c].pc = "espera" /\ Len(desde[c]) = 1
              /\ hacia[c] = <<>> /\ task_list[c] = <<>> /\ ~Toca(c)
PROOF
<1>1. PICK h \in Nat, t \in Nat, d \in Nat :
        h = Len(hacia[c]) /\ t = Len(task_list[c]) /\ d = Len(desde[c])
  BY DEF TypeOK
<1>2. /\ h = 0 <=> hacia[c] = <<>>
      /\ t = 0 <=> task_list[c] = <<>>
      /\ d = 0 <=> desde[c] = <<>>
  BY <1>1 DEF TypeOK
<1>3. PICK x \in {0, 1} : x = Uno(Toca(c)) /\ (x = 1 <=> Toca(c))
  BY DEF Uno
<1>4. PICK y \in {0, 1} : y = Uno(cliente[c].pc = "espera")
                            /\ (y = 1 <=> cliente[c].pc = "espera")
  BY DEF Uno
<1>5. CASE cliente[c].pc = "fin"
  <2>1. h + t + x <= 1
    BY <1>1, <1>3, <1>5 DEF Cuenta
  <2>2. (x = 1 => h = 0 /\ t = 0) /\ (h # 0 => h = 1 /\ t = 0 /\ x = 0)
        /\ (t # 0 => t = 1 /\ h = 0 /\ x = 0)
    BY <2>1
  <2> QED
    BY <1>1, <1>2, <1>3, <1>5, <2>2
<1>6. CASE cliente[c].pc # "fin"
  <2>1. h + t + d + x = y
    BY <1>1, <1>3, <1>4, <1>6 DEF Cuenta
  <2>2. /\ x = 1 => h = 0 /\ t = 0
        /\ h # 0 => h = 1 /\ t = 0 /\ x = 0 /\ d = 0 /\ y = 1
        /\ t # 0 => t = 1 /\ h = 0 /\ x = 0
        /\ d # 0 => d = 1 /\ h = 0 /\ t = 0 /\ x = 0 /\ y = 1
        /\ y = 0 => h = 0 /\ t = 0 /\ d = 0 /\ x = 0
    BY <2>1
  <2> QED
    BY <1>1, <1>2, <1>3, <1>4, <1>6, <2>2
<1> QED
  BY <1>5, <1>6

LEMMA OrdenInductivo ==
  ASSUME IInv, NEW c \in Carpinchos, PasoDe(c), caido' = "no",
         lista'[c] # "exit"
  PROVE  Orden(c)'
PROOF
<1> USE DEF sockets, clientes, conexiones, salidas, memoria, kernel, ajenos
<1>t. /\ TypeOK /\ Etapas /\ Enviados /\ Hilos
      /\ Hilo(c) /\ Etapa(c) /\ Enviado(c)
  BY DEF IInv, Hilos, Etapas, Enviados
<1> /\ TypeOK /\ Etapas /\ Enviados /\ Hilos
    /\ Hilo(c) /\ Etapa(c) /\ Enviado(c)
  BY <1>t
<1>o. lista[c] # "exit" /\ Cuenta(c) /\ Numeros(c) /\ SinMasPedidos(c)
      /\ SinTareasFueraDeExec
  BY ExitEsFinal, NadaTermino DEF IInv, EnOrden, Orden
<1> lista[c] # "exit" /\ Cuenta(c) /\ Numeros(c) /\ SinMasPedidos(c)
  BY <1>o
<1>0. /\ Desconexion \in Paquetes /\ Desconexion.cod = "CLIENTE_DESCONECTADO"
      /\ Desconexion.cod \notin DeCliente
      /\ "NUEVO_CARPINCHO" \notin DeCliente
      /\ MaxPedidos \in Nat
  BY ConstantesTipadas
     DEF Desconexion, Paquete, Paquetes, Codigos, DeCliente, DeKernel, DeMemoria
<1>l. task_list[c] \in Seq(Paquetes) /\ exec[c] \in Ejecuciones
      /\ hacia[c] \in Seq(Paquetes) /\ desde[c] \in Seq(Paquetes)
      /\ pedidos[c] \in Nat
  BY <1>0 DEF TypeOK, Ejecuciones
<1>u. Uno(TRUE) = 1 /\ Uno(FALSE) = 0
  BY DEF Uno
<1>a. ASSUME hacia'[c] = hacia[c], task_list'[c] = task_list[c],
             desde'[c] = desde[c], cliente'[c].pc = cliente[c].pc,
             Toca(c)' <=> Toca(c)
      PROVE  Cuenta(c)'
  BY <1>a DEF Cuenta, Uno
<1>b. ASSUME hacia'[c] = hacia[c], task_list'[c] = task_list[c],
             pedidos'[c] = pedidos[c],
             Toca(c)' => Toca(c) /\ exec'[c].task = exec[c].task
      PROVE  Numeros(c)'
  BY <1>b DEF Numeros
<1>c. ASSUME exec'[c].pc \notin {"sin_semaforo", "colgado"}
      PROVE  SinMasPedidos(c)'
  BY <1>c DEF SinMasPedidos
<1>d. ASSUME hacia'[c] = hacia[c], task_list'[c] = task_list[c],
             desde'[c] = desde[c], cliente'[c].pc = cliente[c].pc,
             desconectado'[c] = desconectado[c], pedidos'[c] = pedidos[c],
             exec'[c].pc \in {"sin_semaforo", "colgado"} =>
               exec[c].pc \in {"sin_semaforo", "colgado"}
      PROVE  SinMasPedidos(c)'
  BY <1>d DEF SinMasPedidos, SoloDesconexion
<1>e. ASSUME hacia'[c] = hacia[c], task_list'[c] = task_list[c],
             desde'[c] = desde[c], cliente'[c] = cliente[c],
             desconectado'[c] = desconectado[c], pedidos'[c] = pedidos[c],
             exec'[c] = exec[c], Toca(c)' <=> Toca(c)
      PROVE  Orden(c)'
  BY <1>a, <1>b, <1>d, <1>e DEF Orden
<1>1. CASE MateInit(c)
    <2>1. /\ hacia[c] = <<>> /\ task_list[c] = <<>> /\ ~Toca(c)
          /\ desde[c] = <<>> /\ cliente[c].pc = "afuera"
      BY <1>1, UnoPorVez DEF MateInit
    <2>2. /\ hacia'[c] = <<Paquete("NUEVO_CARPINCHO", 0)>>
          /\ cliente'[c].pc = "espera" /\ pedidos'[c] = 0
      BY <1>1, <2>1 DEF MateInit, Pide, TypeOK
    <2>3. /\ exec' = exec /\ lista' = lista /\ task_list' = task_list
          /\ desde' = desde
      BY <1>1 DEF MateInit
    <2>4. ~Toca(c)' /\ exec[c].pc \notin {"sin_semaforo", "colgado"}
      <3>1. lista[c] = "ninguna"
        BY <2>1 DEF Etapa
      <3> QED
        BY <2>1, <2>3, <3>1 DEF Toca, Debe, SinHilo, Hilo
    <2>5. Len(hacia'[c]) = 1 /\ DOMAIN hacia'[c] = {1}
          /\ hacia'[c][1].n = 0
      BY <2>2 DEF Paquete
    <2>6. Len(<<>>) = 0 /\ DOMAIN <<>> = {}
      OBVIOUS
    <2>7. Cuenta(c)'
      <3>1. Len(hacia'[c]) = 1 /\ Len(task_list'[c]) = 0
          /\ Len(desde'[c]) = 0
        BY <2>1, <2>2, <2>3, <2>4, Largos
      <3>2. Uno(Toca(c)') = 0 /\ Uno(cliente'[c].pc = "espera") = 1
        BY <2>1, <2>2, <2>3, <2>4 DEF Uno
      <3>3. cliente'[c].pc # "fin"
        BY <2>1, <2>2, <2>3, <2>4
      <3> QED
        BY <3>1, <3>2, <3>3 DEF Cuenta
    <2>8. Numeros(c)'
      BY <2>1, <2>2, <2>3, <2>4, <2>5, <2>6 DEF Numeros
    <2> QED
      BY <1>c, <2>3, <2>4, <2>7, <2>8 DEF Orden
<1>2. CASE Llama(c)
    <2>1. /\ hacia[c] = <<>> /\ task_list[c] = <<>> /\ ~Toca(c)
          /\ desde[c] = <<>> /\ cliente[c].pc = "corre"
      BY <1>2, UnoPorVez DEF Llama
    <2>2. PICK op : Pide(c, op, pedidos[c] + 1)
      BY <1>2 DEF Llama
    <2>3. /\ hacia'[c] = <<Paquete(op, pedidos[c] + 1)>>
          /\ cliente'[c].pc = "espera" /\ pedidos'[c] = pedidos[c] + 1
      BY <2>1, <2>2 DEF Pide, TypeOK
    <2>4. /\ exec' = exec /\ lista' = lista /\ task_list' = task_list
          /\ desde' = desde
      BY <1>2 DEF Llama
    <2>5. ~Toca(c)' /\ exec[c].pc \notin {"sin_semaforo", "colgado"}
      BY <1>2, <2>1, <2>4 DEF Toca, Debe, SinHilo, Llama, SinMasPedidos
    <2>6. Len(hacia'[c]) = 1 /\ DOMAIN hacia'[c] = {1}
          /\ hacia'[c][1].n = pedidos'[c]
      BY <2>3 DEF Paquete
    <2>7. Len(<<>>) = 0 /\ DOMAIN <<>> = {}
      OBVIOUS
    <2>8. Cuenta(c)'
      <3>1. Len(hacia'[c]) = 1 /\ Len(task_list'[c]) = 0
          /\ Len(desde'[c]) = 0
        BY <2>1, <2>3, <2>4, <2>5, Largos
      <3>2. Uno(Toca(c)') = 0 /\ Uno(cliente'[c].pc = "espera") = 1
        BY <2>1, <2>3, <2>4, <2>5 DEF Uno
      <3>3. cliente'[c].pc # "fin"
        BY <2>1, <2>3, <2>4, <2>5
      <3> QED
        BY <3>1, <3>2, <3>3 DEF Cuenta
    <2>9. Numeros(c)'
      BY <2>1, <2>4, <2>5, <2>6, <2>7 DEF Numeros
    <2> QED
      BY <1>c, <2>4, <2>5, <2>8, <2>9 DEF Orden
<1>3. CASE Gira(c)
    <2>1. /\ cliente'[c].pc = "gira" /\ cliente[c].pc = "corre"
          /\ desconectado'[c] = desconectado[c] /\ desconectado[c]
      BY <1>3 DEF Gira, TypeOK
    <2>2. /\ hacia' = hacia /\ desde' = desde /\ task_list' = task_list
          /\ exec' = exec /\ lista' = lista /\ pedidos' = pedidos
      BY <1>3 DEF Gira
    <2>3. Toca(c)' <=> Toca(c)
      BY <2>2 DEF Toca, Debe, SinHilo
    <2>4. Cuenta(c)'
      BY <2>1, <2>2, <2>3 DEF Cuenta, Uno
    <2>5. Numeros(c)'
      BY <1>b, <2>2, <2>3
    <2>6. SinMasPedidos(c)'
      BY <2>1, <2>2 DEF SinMasPedidos, SoloDesconexion
    <2> QED
      BY <2>4, <2>5, <2>6 DEF Orden
<1>4. CASE Recibe(c)
    <2>0. caido = "no" /\ escenario.servidor \in {"kernel", "memoria"}
      BY NadaTermino, ConstantesTipadas
    <2>1. /\ desde[c] # <<>> /\ Recibido(c, Head(desde[c]).cod)
          /\ desde'[c] = Tail(desde[c]) /\ cliente[c].pc = "espera"
      BY <1>4, <2>0 DEF Recibe, TypeOK
    <2>2. /\ Len(desde[c]) = 1 /\ hacia[c] = <<>> /\ task_list[c] = <<>>
          /\ ~Toca(c)
      BY <2>1, UnoPorVez
    <2>3. desde'[c] = <<>> /\ Head(desde[c]) = desde[c][1]
      BY <1>l, <2>1, <2>2, TailDeUno
    <2>4. /\ hacia' = hacia /\ task_list' = task_list /\ exec' = exec
          /\ lista' = lista /\ pedidos' = pedidos
      BY <1>4 DEF Recibe
    <2>5. /\ cliente'[c].pc = "corre"
          /\ desconectado'[c] = /\ desde[c][1].cod # Esperado(cliente[c].op)
                                /\ cliente[c].op # "NUEVO_CARPINCHO"
      BY <2>1, <2>3 DEF Recibido, TypeOK
    <2>6. ~Toca(c)'
      BY <2>2, <2>4 DEF Toca, Debe, SinHilo
    <2>7. Len(<<>>) = 0
      OBVIOUS
    <2>8. Cuenta(c)'
      <3>1. Len(hacia'[c]) = 0 /\ Len(task_list'[c]) = 0
          /\ Len(desde'[c]) = 0
        BY <2>2, <2>3, <2>4, <2>5, <2>6, Largos
      <3>2. Uno(Toca(c)') = 0 /\ Uno(cliente'[c].pc = "espera") = 0
        BY <2>2, <2>3, <2>4, <2>5, <2>6 DEF Uno
      <3>3. cliente'[c].pc # "fin"
        BY <2>2, <2>3, <2>4, <2>5, <2>6
      <3> QED
        BY <3>1, <3>2, <3>3 DEF Cuenta
    <2>9. Numeros(c)'
      BY <1>b, <2>4, <2>6
    <2>10. SinMasPedidos(c)'
      <3>1. SUFFICES ASSUME exec[c].pc \in {"sin_semaforo", "colgado"}
                     PROVE  SinMasPedidos(c)'
        BY <2>4 DEF SinMasPedidos
      <3>2. desde[c][1].cod = "OP_ERROR" /\ pedidos[c] > 0
            /\ SoloDesconexion(c) /\ task_list[c] = <<>>
        BY <2>1, <3>1 DEF SinMasPedidos
      <3>3. cliente[c].op # "NUEVO_CARPINCHO"
        BY <2>1, <3>2 DEF Etapa
      <3>4. Esperado(cliente[c].op) # "OP_ERROR"
        BY DEF Esperado, DeMemoria
      <3> QED
        BY <2>4, <2>5, <3>2, <3>3, <3>4 DEF SinMasPedidos, SoloDesconexion
    <2> QED
      BY <2>8, <2>9, <2>10 DEF Orden
<1>5. CASE MateClose(c)
    <2>1. /\ hacia[c] = <<>> /\ task_list[c] = <<>> /\ ~Toca(c)
          /\ cliente[c].pc = "corre"
      BY <1>5, UnoPorVez DEF MateClose
    <2>2. /\ cliente'[c].pc = "fin" /\ task_list' = task_list /\ exec' = exec
          /\ lista' = lista /\ pedidos' = pedidos
      BY <1>5 DEF MateClose, Cierra, TypeOK
    <2>3. hacia'[c] = <<>> \/ hacia'[c] = <<Desconexion>>
      BY <1>5, <2>1 DEF MateClose, TypeOK
    <2>4. /\ Len(hacia'[c]) \in {0, 1}
          /\ \A i \in DOMAIN hacia'[c] :
               hacia'[c][i].cod = "CLIENTE_DESCONECTADO"
      <3>1. CASE hacia'[c] = <<>>
        BY <3>1, Largos
      <3>2. CASE hacia'[c] = <<Desconexion>>
        <4>1. Desconexion.cod = "CLIENTE_DESCONECTADO"
          BY DEF Desconexion, Paquete
        <4>2. /\ Len(hacia'[c]) = 1 /\ DOMAIN hacia'[c] = {1}
              /\ hacia'[c][1] = Desconexion
          BY <3>2, Largos
        <4> QED
          BY <4>1, <4>2
      <3> QED
        BY <2>3, <3>1, <3>2
    <2>5. ~Toca(c)' /\ Len(<<>>) = 0
      BY <2>1, <2>2 DEF Toca, Debe, SinHilo
    <2>6. Cuenta(c)'
      <3>1. Len(task_list'[c]) = 0
        BY <2>1, <2>2, Largos
      <3>2. Uno(Toca(c)') = 0
        BY <2>5 DEF Uno
      <3>3. Len(hacia'[c]) + Len(task_list'[c]) + Uno(Toca(c)') <= 1
        <4>1. PICK h \in {0, 1} : h = Len(hacia'[c])
          BY <2>4
        <4>2. h + 0 + 0 <= 1
          OBVIOUS
        <4> QED
          BY <3>1, <3>2, <4>1, <4>2
      <3> QED
        BY <2>2, <3>3 DEF Cuenta
    <2>7. Numeros(c)'
      BY <2>2, <2>4, <2>5 DEF Numeros
    <2>8. SinMasPedidos(c)'
      BY <2>1, <2>2, <2>4 DEF SinMasPedidos, SoloDesconexion
    <2> QED
      BY <2>6, <2>7, <2>8 DEF Orden
<1>6. CASE Muere(c)
    <2>1. /\ cliente'[c].pc = "fin" /\ cliente[c].pc # "fin"
      BY <1>6 DEF Muere, Cierra, TypeOK
    <2>2. /\ hacia' = hacia /\ task_list' = task_list /\ exec' = exec
          /\ lista' = lista /\ pedidos' = pedidos
      BY <1>6 DEF Muere, Cierra
    <2>3. Toca(c)' <=> Toca(c)
      BY <2>2 DEF Toca, Debe, SinHilo
    <2>4. Cuenta(c)'
      <3>1. PICK h \in Nat, t \in Nat, d \in Nat :
              h = Len(hacia[c]) /\ t = Len(task_list[c]) /\ d = Len(desde[c])
        BY <1>l
      <3>2. PICK x \in {0, 1}, y \in {0, 1} :
              x = Uno(Toca(c)) /\ y = Uno(cliente[c].pc = "espera")
        BY DEF Uno
      <3>3. h + t + d + x = y
        BY <2>1, <3>1, <3>2 DEF Cuenta
      <3>4. h + t + x <= 1
        BY <3>3
      <3> QED
        BY <2>1, <2>2, <2>3, <3>1, <3>2, <3>4 DEF Cuenta, Uno
    <2>5. Numeros(c)'
      BY <1>b, <2>2, <2>3
    <2>6. SinMasPedidos(c)'
      BY <2>1, <2>2 DEF SinMasPedidos, SoloDesconexion
    <2> QED
      BY <2>4, <2>5, <2>6 DEF Orden
<1>7. CASE Acepta(c)
    <2>1. /\ hacia' = hacia /\ task_list' = task_list /\ desde' = desde
          /\ cliente' = cliente /\ pedidos' = pedidos /\ exec' = exec
          /\ desconectado' = desconectado /\ lista' = lista
      BY <1>7 DEF Acepta
    <2>2. Toca(c)' <=> Toca(c)
      BY <2>1 DEF Toca, Debe, SinHilo
    <2> QED
      BY <1>e, <2>1, <2>2
<1>8. CASE AtiendeNuevo(c)
    <2>1. /\ lista[c] = "ninguna" /\ hacia[c] # <<>>
          /\ Head(hacia[c]).cod = "NUEVO_CARPINCHO"
      BY <1>8, RecienEntra DEF Entra
    <2>2. /\ Len(hacia[c]) = 1 /\ task_list[c] = <<>> /\ ~Toca(c)
      BY <2>1, UnoPorVez
    <2>3. /\ hacia'[c] = <<>> /\ lista'[c] = "ready"
          /\ exec'[c].pc = "fuera" /\ exec'[c].task = Head(hacia[c])
      <3>1. hacia'[c] = Tail(hacia[c]) /\ lista'[c] = "ready"
            /\ exec'[c].pc = exec[c].pc /\ exec'[c].task = Head(hacia[c])
        BY <1>8, <2>1 DEF AtiendeNuevo, Leido, TypeOK
      <3>2. Tail(hacia[c]) = <<>>
        BY <1>l, <2>2, TailDeUno
      <3> QED
        BY <2>1, <3>1, <3>2 DEF Hilo
    <2>4. /\ task_list' = task_list /\ pedidos' = pedidos /\ desde' = desde
          /\ cliente' = cliente
      BY <1>8 DEF AtiendeNuevo
    <2>5. Toca(c)' /\ Len(<<>>) = 0 /\ DOMAIN <<>> = {}
      BY <2>3 DEF Toca, Debe, SinHilo
    <2>6. Cuenta(c)'
      <3>1. Len(hacia'[c]) = 0 /\ Len(task_list'[c]) = 0 /\ Len(task_list[c]) = 0
        BY <2>2, <2>3, <2>4, Largos
      <3>2. Uno(Toca(c)') = 1 /\ Uno(Toca(c)) = 0
        BY <2>2, <2>5 DEF Uno
      <3>3. Len(desde[c]) \in Nat /\ Len(hacia[c]) = 1
        BY <1>l, <2>2
      <3> QED
        BY <2>4, <3>1, <3>2, <3>3 DEF Cuenta
    <2>7. Head(hacia[c]).n = pedidos[c]
      <3>1. 1 \in DOMAIN hacia[c] /\ hacia[c][1] = Head(hacia[c])
        BY <1>l, <2>1, TrasTail
      <3> QED
        BY <2>1, <3>1 DEF Numeros
    <2>8. Numeros(c)'
      BY <2>2, <2>3, <2>4, <2>5, <2>7 DEF Numeros
    <2> QED
      BY <1>c, <2>3, <2>6, <2>8 DEF Orden
<1>9. CASE AtiendeTarea(c)
    <2>1. PICK op \in DeCliente : Lee(c, op)
      BY <1>9 DEF AtiendeTarea, DeCliente
    <2>2. op \notin {"CLIENTE_DESCONECTADO", "NUEVO_CARPINCHO"}
      BY DEF DeCliente, DeKernel, DeMemoria
    <2>3. hacia[c] # <<>> /\ Head(hacia[c]).cod = op
      BY <2>1, <2>2 DEF Lee
    <2>4. Len(hacia[c]) = 1 /\ task_list[c] = <<>> /\ ~Toca(c)
      BY <2>3, UnoPorVez
    <2>5. /\ hacia'[c] = Tail(hacia[c])
          /\ task_list'[c] = Append(task_list[c], Head(hacia[c]))
      BY <1>9, <2>3 DEF AtiendeTarea, Leido, TypeOK
    <2>6. hacia'[c] = <<>> /\ task_list'[c] = <<Head(hacia[c])>>
      <3>1. PICK m \in Paquetes : m = Head(hacia[c])
        BY <1>l, <2>3, TrasTail
      <3>2. Append(<<>>, m) = <<m>>
        OBVIOUS
      <3> QED
        BY <1>l, <2>4, <2>5, <3>1, <3>2, TailDeUno
    <2>7. 1 \in DOMAIN hacia[c] /\ hacia[c][1] = Head(hacia[c])
      BY <1>l, <2>3, TrasTail
    <2>8. Head(hacia[c]).n = pedidos[c]
      BY <2>2, <2>3, <2>7 DEF Numeros
    <2>9. exec[c].pc \notin {"sin_semaforo", "colgado"}
      BY <2>2, <2>3, <2>7 DEF SinMasPedidos, SoloDesconexion
    <2>10. /\ desde' = desde /\ cliente' = cliente /\ pedidos' = pedidos
           /\ exec' = exec /\ lista' = lista
      BY <1>9 DEF AtiendeTarea
    <2>11. ~Toca(c)'
      BY <2>4, <2>10 DEF Toca, Debe, SinHilo
    <2>12. /\ Len(<<>>) = 0 /\ DOMAIN <<>> = {}
           /\ Len(<<Head(hacia[c])>>) = 1 /\ DOMAIN <<Head(hacia[c])>> = {1}
      OBVIOUS
    <2>13. Cuenta(c)'
      <3>1. Len(hacia'[c]) = 0 /\ Len(task_list'[c]) = 1
            /\ Len(hacia[c]) = 1 /\ Len(task_list[c]) = 0
        BY <2>4, <2>6, <2>12
      <3> QED
        BY <1>l, <1>u, <2>4, <2>10, <2>11, <3>1 DEF Cuenta, Uno
    <2>14. Numeros(c)'
      BY <2>6, <2>8, <2>10, <2>11, <2>12 DEF Numeros
    <2> QED
      BY <1>c, <2>9, <2>10, <2>13, <2>14 DEF Orden
<1>10. CASE AtiendeDesconexion(c)
    <2>1. /\ task_list' = task_list /\ desde' = desde /\ cliente' = cliente
          /\ pedidos' = pedidos /\ exec' = exec /\ lista' = lista
          /\ desconectado' = desconectado
      BY <1>10 DEF AtiendeDesconexion
    <2>2. Toca(c)' <=> Toca(c)
      BY <2>1 DEF Toca, Debe, SinHilo
    <2>3. CASE hacia[c] = <<>>
      <3>1. hacia'[c] = hacia[c]
        BY <1>10, <2>3 DEF AtiendeDesconexion, Leido, TypeOK
      <3> QED
        BY <1>e, <2>1, <2>2, <3>1
    <2>4. CASE hacia[c] # <<>>
      <3>1. hacia'[c] = Tail(hacia[c])
            /\ Head(hacia[c]).cod = "CLIENTE_DESCONECTADO"
        BY <1>10, <2>4 DEF AtiendeDesconexion, Leido, Lee, TypeOK
      <3>2. 1 \in DOMAIN hacia[c] /\ hacia[c][1] = Head(hacia[c])
        BY <1>l, <2>4, TrasTail
      <3>3. cliente[c].pc = "fin"
        BY <3>1, <3>2 DEF Enviado
      <3>4. /\ Len(hacia[c]) = 1 /\ task_list[c] = <<>> /\ ~Toca(c)
            /\ hacia'[c] = <<>>
        BY <1>l, <2>4, <3>1, UnoPorVez, TailDeUno
      <3>5. Len(<<>>) = 0 /\ DOMAIN <<>> = {}
        OBVIOUS
      <3>6. Cuenta(c)'
        BY <1>u, <2>1, <2>2, <3>3, <3>4, <3>5 DEF Cuenta, Uno
      <3>7. Numeros(c)'
        BY <2>1, <2>2, <3>4, <3>5 DEF Numeros
      <3>8. SinMasPedidos(c)'
        BY <2>1, <3>4, <3>5 DEF SinMasPedidos, SoloDesconexion
      <3> QED
        BY <3>6, <3>7, <3>8 DEF Orden
    <2> QED
      BY <2>3, <2>4
<1>11. CASE Despacha(c)
    <2>1. /\ lista[c] = "ready" /\ lista'[c] = "exec"
          /\ exec[c].pc = "fuera" /\ exec'[c].pc = "empieza"
          /\ exec'[c].task = exec[c].task
      BY <1>11 DEF Despacha, Pasa, Hilo, TypeOK
    <2>2. /\ hacia' = hacia /\ task_list' = task_list /\ desde' = desde
          /\ cliente' = cliente /\ pedidos' = pedidos
      BY <1>11 DEF Despacha
    <2>3. Toca(c) /\ Toca(c)'
      BY <2>1 DEF Toca, Debe, SinHilo
    <2> QED
      BY <1>a, <1>b, <1>c, <2>1, <2>2, <2>3 DEF Orden
<1>12. CASE ExecEmpieza(c)
    <2>1. PICK cod, n : Envia(c, cod, n)
      BY <1>12, QuienEnvia
    <2>2. /\ exec[c].pc = "empieza" /\ exec'[c].pc = "mira"
          /\ hacia' = hacia /\ task_list' = task_list /\ cliente' = cliente
          /\ pedidos' = pedidos /\ lista' = lista
      BY <1>12 DEF ExecEmpieza, EnHilo, Pasa, TypeOK
    <2>3. Toca(c) /\ ~Toca(c)'
      BY <2>2 DEF Toca, Debe, SinHilo
    <2>4. Cuenta(c)'
      BY <2>1, <2>2, <2>3, CuentaTrasEnvio
    <2> QED
      BY <1>b, <1>c, <2>2, <2>3, <2>4 DEF Orden
<1>12b. CASE NoEmpieza(c)
    <2>1. /\ exec[c].pc = "empieza" /\ exec'[c].pc = "fuera"
          /\ exec'[c].task = exec[c].task
      BY <1>12b DEF NoEmpieza, EnHilo, Pasa, TypeOK
    <2>2. /\ hacia' = hacia /\ task_list' = task_list /\ desde' = desde
          /\ cliente' = cliente /\ pedidos' = pedidos /\ lista' = lista
      BY <1>12b DEF NoEmpieza
    <2>e. lista[c] = "exec"
      BY <2>1 DEF Hilo, TypeOK
    <2>3. Toca(c) /\ Toca(c)'
      BY <2>1, <2>2, <2>e DEF Toca, Debe, SinHilo
    <2> QED
      BY <1>a, <1>b, <1>c, <2>1, <2>2, <2>3 DEF Orden
<1>13. CASE ExecToma(c)
    <2>1. /\ task_list[c] # <<>> /\ exec[c].pc = "mira"
          /\ lista' = lista /\ pedidos' = pedidos /\ hacia' = hacia
          /\ desde' = desde /\ cliente' = cliente
      BY <1>13 DEF ExecToma, EnHilo
    <2>2. PICK t \in Paquetes : t = Head(task_list[c])
      BY <1>l, <2>1, TrasTail
    <2>3. /\ exec'[c] = [pc |-> IF t = Desconexion THEN "fuera" ELSE "hace",
                         task |-> t]
          /\ task_list'[c] = Tail(task_list[c])
      BY <1>13, <2>2 DEF ExecToma, TypeOK
    <2>4. 1 \in DOMAIN task_list[c] /\ task_list[c][1] = t
      BY <1>l, <2>1, <2>2, TrasTail
    <2>5. t # Desconexion /\ t.n = pedidos[c]
      BY <1>0, <2>4 DEF Hilo, Numeros
    <2>6. exec'[c].pc = "hace" /\ exec'[c].task = t
      BY <2>3, <2>5
    <2>7. Len(task_list[c]) = 1 /\ hacia[c] = <<>> /\ ~Toca(c)
      BY <2>1, UnoPorVez
    <2>8. task_list'[c] = <<>> /\ Toca(c)' /\ Len(<<>>) = 0 /\ DOMAIN <<>> = {}
      BY <1>l, <2>1, <2>3, <2>6, <2>7, TailDeUno, Largos DEF Toca, Debe, SinHilo
    <2>9. Cuenta(c)'
      <3>1. Len(task_list'[c]) = 0
        BY <2>8
      <3> QED
        BY <1>l, <1>u, <2>1, <2>7, <2>8, <3>1 DEF Cuenta, Uno
    <2>10. Numeros(c)'
      BY <2>1, <2>5, <2>6, <2>7, <2>8 DEF Numeros
    <2> QED
      BY <1>c, <2>6, <2>9, <2>10 DEF Orden
<1>14. CASE ExecConfirma(c)
    <2>1. PICK cod, n : Envia(c, cod, n)
      BY <1>14, QuienEnvia
    <2>2. /\ exec[c].pc = "hace" /\ exec'[c].pc = "mira"
          /\ hacia' = hacia /\ task_list' = task_list /\ cliente' = cliente
          /\ pedidos' = pedidos /\ lista' = lista
      BY <1>14 DEF ExecConfirma, EnHilo, Pasa, TypeOK
    <2>3. Toca(c) /\ ~Toca(c)'
      BY <2>2 DEF Toca, Debe, SinHilo
    <2>4. Cuenta(c)'
      BY <2>1, <2>2, <2>3, CuentaTrasEnvio
    <2> QED
      BY <1>b, <1>c, <2>2, <2>3, <2>4 DEF Orden
<1>15. CASE ExecEspera(c)
    <2>1. /\ exec[c].pc = "hace" /\ exec'[c].pc = "bloquea"
          /\ exec'[c].task = exec[c].task
      BY <1>15 DEF ExecEspera, EnHilo, Pasa, TypeOK
    <2>2. /\ hacia' = hacia /\ task_list' = task_list /\ desde' = desde
          /\ cliente' = cliente /\ pedidos' = pedidos
      BY <1>15 DEF ExecEspera
    <2>3. Toca(c) /\ Toca(c)'
      BY <2>1 DEF Toca, Debe, SinHilo
    <2> QED
      BY <1>a, <1>b, <1>c, <2>1, <2>2, <2>3 DEF Orden
<1>16. CASE ExecSinSemaforo(c)
    <2>1. Envia(c, "OP_ERROR", exec[c].task.n)
      BY <1>16 DEF ExecSinSemaforo
    <2>2. /\ exec[c].pc = "hace" /\ exec'[c].pc = "sin_semaforo"
          /\ hacia' = hacia /\ task_list' = task_list /\ cliente' = cliente
          /\ pedidos' = pedidos /\ lista' = lista
      BY <1>16 DEF ExecSinSemaforo, EnHilo, Pasa, TypeOK
    <2>3. Toca(c) /\ ~Toca(c)'
      BY <2>2 DEF Toca, Debe, SinHilo
    <2>4. /\ Cuenta(c)' /\ hacia[c] = <<>> /\ task_list[c] = <<>>
          /\ cliente[c].pc # "fin" =>
               /\ cliente[c].pc = "espera" /\ desde'[c] # <<>>
               /\ desde'[c][1] = Paquete("OP_ERROR", exec[c].task.n)
      BY <2>1, <2>2, <2>3, CuentaTrasEnvio
    <2>5. SinMasPedidos(c)'
      <3>1. pedidos[c] > 0
        BY <2>2 DEF Hilo
      <3>2. Paquete("OP_ERROR", exec[c].task.n).cod = "OP_ERROR"
            /\ DOMAIN <<>> = {}
        BY DEF Paquete
      <3> QED
        BY <2>2, <2>4, <3>1, <3>2 DEF SinMasPedidos, SoloDesconexion
    <2> QED
      BY <1>b, <2>2, <2>3, <2>4, <2>5 DEF Orden
<1>17. CASE ExecBloquea(c)
    <2>1. /\ lista[c] = "exec" /\ lista'[c] = "blocked"
          /\ exec'[c].task = exec[c].task
          /\ \/ exec[c].pc = "bloquea" /\ exec'[c].pc = "fuera"
             \/ exec[c].pc = "sin_semaforo" /\ exec'[c].pc = "colgado"
      BY <1>17 DEF ExecBloquea, Pasa, Hilo, TypeOK
    <2>2. /\ hacia' = hacia /\ task_list' = task_list /\ desde' = desde
          /\ cliente' = cliente /\ pedidos' = pedidos
          /\ desconectado' = desconectado
      BY <1>17 DEF ExecBloquea
    <2>3. Toca(c)' <=> Toca(c)
      BY <2>1 DEF Toca, Debe, SinHilo
    <2> QED
      BY <1>a, <1>b, <1>d, <2>1, <2>2, <2>3 DEF Orden
<1>18. CASE Despierta(c)
    <2>1. lista[c] = "blocked" /\ lista'[c] = "ready" /\ exec[c].pc = "fuera"
      BY <1>18 DEF Despierta, TypeOK
    <2>2. /\ hacia' = hacia /\ task_list' = task_list /\ desde' = desde
          /\ cliente' = cliente /\ pedidos' = pedidos /\ exec' = exec
          /\ desconectado' = desconectado
      BY <1>18 DEF Despierta
    <2>3. Toca(c)' <=> Toca(c)
      BY <2>1, <2>2 DEF Toca, Debe, SinHilo
    <2> QED
      BY <1>e, <2>2, <2>3
<1>19. CASE ExecPideMemoria(c)
    <2>1. /\ exec[c].pc = "hace" /\ exec'[c].pc = "lee_codigo"
          /\ exec'[c].task = exec[c].task
      BY <1>19 DEF ExecPideMemoria, EnHilo, Pasa, TypeOK
    <2>2. /\ hacia' = hacia /\ task_list' = task_list /\ desde' = desde
          /\ cliente' = cliente /\ pedidos' = pedidos
      BY <1>19 DEF ExecPideMemoria
    <2>3. Toca(c) /\ Toca(c)'
      BY <2>1 DEF Toca, Debe, SinHilo
    <2> QED
      BY <1>a, <1>b, <1>c, <2>1, <2>2, <2>3 DEF Orden
<1>20. CASE ExecSinMemoria(c)
    <2>1. PICK cod, n : Envia(c, cod, n)
      BY <1>20, QuienEnvia
    <2>2. /\ exec[c].pc = "lee_codigo" /\ exec'[c].pc = "mira"
          /\ hacia' = hacia /\ task_list' = task_list /\ cliente' = cliente
          /\ pedidos' = pedidos /\ lista' = lista
      BY <1>20 DEF ExecSinMemoria, EnHilo, Pasa, TypeOK
    <2>3. Toca(c) /\ ~Toca(c)'
      BY <2>2 DEF Toca, Debe, SinHilo
    <2>4. Cuenta(c)'
      BY <2>1, <2>2, <2>3, CuentaTrasEnvio
    <2> QED
      BY <1>b, <1>c, <2>2, <2>3, <2>4 DEF Orden
<1>21. CASE ExecLeeCodigo(c)
    <2>1. /\ exec[c].pc = "lee_codigo" /\ exec'[c].pc = "lee_resto"
          /\ exec'[c].task = exec[c].task
      BY <1>21 DEF ExecLeeCodigo, EnHilo, Pasa, TypeOK
    <2>2. /\ hacia' = hacia /\ task_list' = task_list /\ desde' = desde
          /\ cliente' = cliente /\ pedidos' = pedidos
      BY <1>21 DEF ExecLeeCodigo
    <2>3. Toca(c) /\ Toca(c)'
      BY <2>1 DEF Toca, Debe, SinHilo
    <2> QED
      BY <1>a, <1>b, <1>c, <2>1, <2>2, <2>3 DEF Orden
<1>22. CASE ExecLeeResto(c)
    <2>1. PICK cod, n : Envia(c, cod, n)
      BY <1>22, QuienEnvia
    <2>2. /\ exec[c].pc = "lee_resto" /\ exec'[c].pc = "mira"
          /\ hacia' = hacia /\ task_list' = task_list /\ cliente' = cliente
          /\ pedidos' = pedidos /\ lista' = lista
      BY <1>22 DEF ExecLeeResto, EnHilo, Pasa, TypeOK
    <2>3. Toca(c) /\ ~Toca(c)'
      BY <2>2 DEF Toca, Debe, SinHilo
    <2>4. Cuenta(c)'
      BY <2>1, <2>2, <2>3, CuentaTrasEnvio
    <2> QED
      BY <1>b, <1>c, <2>2, <2>3, <2>4 DEF Orden
<1>23. CASE EligeVictima(c)
    <2>1. /\ hacia' = hacia /\ task_list' = task_list /\ desde' = desde
          /\ cliente' = cliente /\ pedidos' = pedidos /\ exec' = exec
          /\ desconectado' = desconectado /\ lista' = lista
      BY <1>23 DEF EligeVictima
    <2>2. Toca(c)' <=> Toca(c)
      BY <2>1 DEF Toca, Debe, SinHilo
    <2> QED
      BY <1>e, <2>1, <2>2
<1>24. CASE SalidaMueve(c)
  BY <1>24 DEF SalidaMueve, TypeOK
<1>25. CASE MemoriaAtiende(c)
    <2>1. PICK cod, n : Envia(c, cod, n)
      BY <1>25, QuienEnvia
    <2>2. /\ lista[c] = "ninguna" /\ task_list' = task_list /\ exec' = exec
          /\ lista' = lista /\ pedidos' = pedidos /\ cliente' = cliente
          /\ hacia[c] = <<>> => cliente[c].pc = "fin"
      BY <1>25 DEF MemoriaAtiende, Etapa, Lee
    <2>3. ~Toca(c) /\ ~Toca(c)' /\ exec'[c].pc = "fuera"
      BY <2>2 DEF Toca, Debe, SinHilo, Hilo
    <2>4. hacia'[c] = IF hacia[c] = <<>> THEN <<>> ELSE Tail(hacia[c])
      BY <1>25 DEF MemoriaAtiende, Leido, TypeOK
    <2>5. /\ hacia'[c] = <<>> /\ Len(<<>>) = 0 /\ DOMAIN <<>> = {}
          /\ hacia[c] # <<>> => Len(hacia[c]) = 1 /\ task_list[c] = <<>>
      BY <1>l, <2>4, UnoPorVez, TailDeUno, Largos
    <2>6. Numeros(c)'
      BY <2>2, <2>3, <2>5 DEF Numeros
    <2>7. Cuenta(c)'
      <3>1. CASE cliente[c].pc = "fin"
        <4>1. Len(task_list[c]) \in Nat /\ Len(hacia[c]) \in Nat
          BY <1>l
        <4>2. Len(hacia[c]) + Len(task_list[c]) + 0 <= 1
          BY <1>u, <2>3, <3>1 DEF Cuenta, Uno
        <4>3. Len(hacia'[c]) + Len(task_list'[c]) + 0 <= 1
          <5>1. Len(hacia'[c]) = 0 /\ task_list'[c] = task_list[c]
            BY <2>2, <2>5
          <5>2. PICK h \in Nat, t \in Nat :
                  h = Len(hacia[c]) /\ t = Len(task_list[c])
            BY <4>1
          <5>3. h + t + 0 <= 1 => 0 + t + 0 <= 1
            OBVIOUS
          <5> QED
            BY <4>2, <5>1, <5>2, <5>3
        <4> QED
          BY <2>2, <2>3, <3>1, <4>3 DEF Cuenta, Uno
      <3>2. CASE cliente[c].pc # "fin"
        <4>1. hacia[c] # <<>> /\ cliente[c].pc = "espera" /\ desde[c] = <<>>
          BY <2>2, <3>2, UnoPorVez
        <4>2. conexion[c] \notin {"cerrada", "reset"}
          BY <3>2 DEF Etapa, Cerrada
        <4>3. desde'[c] = Append(desde[c], Paquete(cod, n))
          BY <2>1, <4>2, EnviaEfecto
        <4>4. Len(desde'[c]) = 1
          BY <2>5, <4>1, <4>3, TrasEnvio
        <4> QED
          BY <1>u, <2>2, <2>3, <2>5, <4>1, <4>4 DEF Cuenta, Uno
      <3> QED
        BY <3>1, <3>2
    <2> QED
      BY <1>c, <2>3, <2>6, <2>7 DEF Orden
<1>26. CASE saliendo = c /\ SalidaAvisa
    <2>1. lista[c] = "exit"
      BY <1>26 DEF SalidaAvisa, Hilos
    <2> QED
      BY <2>1
<1> QED
  BY <1>1, <1>2, <1>3, <1>4, <1>5, <1>6, <1>7, <1>8, <1>9, <1>10, <1>11,
     <1>12, <1>12b, <1>13, <1>14, <1>15, <1>16, <1>17, <1>18, <1>19, <1>20,
     <1>21, <1>22, <1>23, <1>24, <1>25, <1>26
     DEF PasoDe, Cliente, Exec, Atiende

LEMMA SinTareasInductivo ==
  ASSUME IInv, NEW c \in Carpinchos, PasoDe(c)
  PROVE  /\ caido' # "salida"
         /\ lista'[c] \notin {"exec", "exit"} => task_list'[c] = <<>>
PROOF
<1> USE DEF sockets, clientes, conexiones, salidas, memoria, kernel, ajenos
<1>t. /\ TypeOK /\ Etapas /\ Enviados /\ Hilos /\ EnOrden
      /\ Hilo(c) /\ Etapa(c) /\ Enviado(c) /\ SinTareasFueraDeExec
  BY DEF IInv, Hilos, Etapas, Enviados
<1> /\ TypeOK /\ Etapas /\ Enviados /\ Hilos
    /\ Hilo(c) /\ Etapa(c) /\ Enviado(c)
  BY <1>t
<1>s. /\ caido # "salida"
      /\ lista[c] \notin {"exec", "exit"} => task_list[c] = <<>>
  BY <1>t DEF SinTareasFueraDeExec
<1>e. ASSUME NEW d \in Carpinchos, NEW cod, NEW n, Envia(d, cod, n)
      PROVE  caido' # "salida"
  BY <1>e, <1>s, EnviaEfecto, ConstantesTipadas
<1>p. ASSUME caido = "no", lista[c] # "exit"
      PROVE  Cuenta(c) /\ Numeros(c) /\ SinMasPedidos(c)
  BY <1>p, <1>t DEF EnOrden, Orden
<1>1. CASE MateInit(c)
  BY <1>1, <1>s DEF MateInit
<1>2. CASE Llama(c)
  BY <1>2, <1>s DEF Llama
<1>3. CASE Gira(c)
  BY <1>3, <1>s DEF Gira
<1>4. CASE Recibe(c)
  BY <1>4, <1>s DEF Recibe
<1>5. CASE MateClose(c)
  BY <1>5, <1>s DEF MateClose, Cierra
<1>6. CASE Muere(c)
  BY <1>6, <1>s DEF Muere, Cierra
<1>7. CASE Acepta(c)
  BY <1>7, <1>s DEF Acepta
<1>8. CASE AtiendeNuevo(c)
    <2>1. lista[c] = "ninguna"
      BY <1>8, RecienEntra DEF Entra
    <2> QED
      BY <1>8, <1>s, <2>1 DEF AtiendeNuevo
<1>9. CASE AtiendeTarea(c)
    <2>1. PICK op \in DeCliente : Lee(c, op)
      BY <1>9 DEF AtiendeTarea, DeCliente
    <2>2. op \notin {"CLIENTE_DESCONECTADO", "NUEVO_CARPINCHO"}
      BY DEF DeCliente, DeKernel, DeMemoria
    <2>3. hacia[c] # <<>> /\ Head(hacia[c]).cod = op
      BY <2>1, <2>2 DEF Lee
    <2>4. hacia[c] \in Seq(Paquetes)
      BY DEF TypeOK
    <2>5. 1 \in DOMAIN hacia[c] /\ hacia[c][1] = Head(hacia[c])
      BY <2>3, <2>4, TrasTail
    <2>6. lista[c] # "ninguna" /\ caido = "no"
      BY <1>9, <2>1, <2>2, YaEntro DEF AtiendeTarea, EnKernel
    <2>7. lista[c] \in {"exec", "exit"}
      <3>1. SUFFICES ASSUME lista[c] \in {"ready", "blocked"} PROVE FALSE
        BY <2>6 DEF TypeOK
      <3>2. ~Toca(c) /\ SinMasPedidos(c)
        BY <1>p, <2>3, <2>6, <3>1, UnoPorVez
      <3>3. exec[c].pc \in {"fuera", "colgado"}
        BY <3>1 DEF Hilo
      <3> QED
        BY <2>2, <2>3, <2>5, <3>1, <3>2, <3>3
           DEF Toca, Debe, SinHilo, SinMasPedidos, SoloDesconexion
    <2> QED
      BY <1>9, <1>s, <2>7 DEF AtiendeTarea
<1>10. CASE AtiendeDesconexion(c)
  BY <1>10, <1>s DEF AtiendeDesconexion
<1>11. CASE Despacha(c)
  BY <1>11, <1>s DEF Despacha, TypeOK
<1>12. CASE ExecEmpieza(c)
    <2>1. PICK cod, n : Envia(c, cod, n)
      BY <1>12, QuienEnvia
    <2> QED
      BY <1>12, <2>1, <1>e, <1>s DEF ExecEmpieza
<1>12b. CASE NoEmpieza(c)
  BY <1>12b, <1>s DEF NoEmpieza
<1>13. CASE ExecToma(c)
  BY <1>13, <1>s DEF ExecToma, EnHilo, Hilo, TypeOK
<1>14. CASE ExecConfirma(c)
    <2>1. PICK cod, n : Envia(c, cod, n)
      BY <1>14, QuienEnvia
    <2> QED
      BY <1>14, <2>1, <1>e, <1>s DEF ExecConfirma
<1>15. CASE ExecEspera(c)
  BY <1>15, <1>s DEF ExecEspera
<1>16. CASE ExecSinSemaforo(c)
    <2>1. PICK cod, n : Envia(c, cod, n)
      BY <1>16, QuienEnvia
    <2> QED
      BY <1>16, <2>1, <1>e, <1>s DEF ExecSinSemaforo
<1>17. CASE ExecBloquea(c)
    <2>1. caido = "no" /\ caido' = caido /\ task_list' = task_list
          /\ exec[c].pc \in {"bloquea", "sin_semaforo"}
      BY <1>17 DEF ExecBloquea, EnKernel
    <2>2. lista[c] # "exit" => task_list[c] = <<>>
      BY <1>p, <2>1, UnoPorVez DEF Toca, Debe, SinHilo, SinMasPedidos
    <2>3. lista[c] = "exit" => lista'[c] = "exit"
      BY <1>17 DEF ExecBloquea, TypeOK
    <2> QED
      BY <2>1, <2>2, <2>3
<1>18. CASE Despierta(c)
  BY <1>18, <1>s DEF Despierta, TypeOK
<1>19. CASE ExecPideMemoria(c)
  BY <1>19, <1>s DEF ExecPideMemoria
<1>20. CASE ExecSinMemoria(c)
    <2>1. PICK cod, n : Envia(c, cod, n)
      BY <1>20, QuienEnvia
    <2> QED
      BY <1>20, <2>1, <1>e, <1>s DEF ExecSinMemoria
<1>21. CASE ExecLeeCodigo(c)
  BY <1>21, <1>s DEF ExecLeeCodigo
<1>22. CASE ExecLeeResto(c)
    <2>1. PICK cod, n : Envia(c, cod, n)
      BY <1>22, QuienEnvia
    <2> QED
      BY <1>22, <2>1, <1>e, <1>s DEF ExecLeeResto
<1>23. CASE EligeVictima(c)
  BY <1>23, <1>s DEF EligeVictima
<1>24. CASE SalidaMueve(c)
  BY <1>24, <1>s DEF SalidaMueve, Marcados, TypeOK
<1>25. CASE MemoriaAtiende(c)
    <2>1. PICK cod, n : Envia(c, cod, n)
      BY <1>25, QuienEnvia
    <2> QED
      BY <1>25, <2>1, <1>e, <1>s DEF MemoriaAtiende
<1>26. CASE saliendo = c /\ SalidaAvisa
    <2>1. PICK cod, n : Envia(c, cod, n)
      BY <1>26, QuienEnvia
    <2> QED
      BY <1>26, <2>1, <1>e, <1>s DEF SalidaAvisa
<1> QED
  BY <1>1, <1>2, <1>3, <1>4, <1>5, <1>6, <1>7, <1>8, <1>9, <1>10, <1>11,
     <1>12, <1>12b, <1>13, <1>14, <1>15, <1>16, <1>17, <1>18, <1>19, <1>20,
     <1>21, <1>22, <1>23, <1>24, <1>25, <1>26
     DEF PasoDe, Cliente, Exec, Atiende

LEMMA EnOrdenInductivo ==
  ASSUME IInv, [Next]_vars
  PROVE  SinTareasFueraDeExec' /\ EnOrden'
PROOF
<1> TypeOK /\ SinTareasFueraDeExec /\ EnOrden BY DEF IInv
<1>1. ASSUME NEW d \in Carpinchos, Igual(d),
             lista[d] \notin {"exec", "exit"} => task_list[d] = <<>>
      PROVE  lista'[d] \notin {"exec", "exit"} => task_list'[d] = <<>>
  BY <1>1 DEF Igual
<1>2. ASSUME NEW d \in Carpinchos, Igual(d), Orden(d)
      PROVE  Orden(d)'
  <2>1. Cuenta(d)'
    BY <1>2 DEF Igual, Orden, Cuenta, Toca, Debe, SinHilo
  <2>2. Numeros(d)'
    BY <1>2 DEF Igual, Orden, Numeros, Toca, Debe, SinHilo
  <2>3. SinMasPedidos(d)'
    BY <1>2 DEF Igual, Orden, SinMasPedidos, SoloDesconexion
  <2> QED
    BY <2>1, <2>2, <2>3 DEF Orden
<1>3. CASE PasoComun
  <2>1. caido' = caido
    BY <1>3 DEF PasoComun, ConectaMemoria, Memoria, SalidaNadie, vars
  <2>2. \A d \in Carpinchos : Igual(d)
    BY <1>3, IgualesTodos
  <2>3. SinTareasFueraDeExec'
    BY <1>1, <2>1, <2>2 DEF SinTareasFueraDeExec
  <2>4. EnOrden'
    BY <1>2, <2>1, <2>2 DEF EnOrden, Igual
  <2> QED
    BY <2>3, <2>4
<1>4. ASSUME NEW c \in Carpinchos, PasoDe(c)
      PROVE  SinTareasFueraDeExec' /\ EnOrden'
  <2>1. \A d \in Carpinchos : d # c => Igual(d)
    BY <1>4, IgualesLosDemas
  <2>2. SinTareasFueraDeExec'
    <3>1. /\ caido' # "salida"
          /\ lista'[c] \notin {"exec", "exit"} => task_list'[c] = <<>>
      BY <1>4, SinTareasInductivo
    <3> QED
      BY <1>1, <2>1, <3>1 DEF SinTareasFueraDeExec
  <2>3. EnOrden'
    <3>1. SUFFICES ASSUME caido' = "no", NEW d \in Carpinchos,
                          lista'[d] # "exit"
                   PROVE  Orden(d)'
      BY DEF EnOrden
    <3>2. caido = "no"
      BY <1>4, <3>1, NadaTermino
    <3>3. CASE d = c
      BY <1>4, <3>1, <3>3, OrdenInductivo
    <3>4. CASE d # c
      BY <1>2, <2>1, <3>1, <3>2, <3>4 DEF EnOrden, Igual
    <3> QED
      BY <3>3, <3>4
  <2> QED
    BY <2>2, <2>3
<1> QED
  BY <1>3, <1>4, Pasos

LEMMA Inicio ==
  ASSUME Init
  PROVE  IInv
PROOF
<1>0. Nadie \notin Carpinchos /\ MaxPedidos \in Nat
  BY PedidosOK
<1>1. Desconexion \in Paquetes
  BY <1>0 DEF Desconexion, Paquete, Paquetes, Codigos
<1>2. TypeOK
  <2>1. <<>> \in Seq(Paquetes) /\ <<>> \in Seq(Relevos) /\ 0 \in 0..MaxPedidos
    BY <1>0
  <2>2. cliente \in [Carpinchos -> Clientes]
    BY DEF Init, Clientes
  <2>3. exec \in [Carpinchos -> Ejecuciones]
    BY <1>1 DEF Init, Ejecuciones
  <2>4. /\ hacia \in [Carpinchos -> Seq(Paquetes)]
        /\ desde \in [Carpinchos -> Seq(Paquetes)]
        /\ task_list \in [Carpinchos -> Seq(Paquetes)]
        /\ pedidos \in [Carpinchos -> 0..MaxPedidos]
    BY <2>1 DEF Init
  <2> QED
    BY <2>1, <2>2, <2>3, <2>4 DEF Init, TypeOK, Clientes, Ejecuciones
<1>3. UnoEntra /\ Etapas
  BY DEF Init, UnoEntra, Entra, Etapas, Etapa, Cerrada
<1>4. Enviados
  BY Largos DEF Init, Enviados, Enviado
<1>5. Hilos
  BY Largos DEF Init, Hilos, Hilo, Activo
<1>6. SinTareasFueraDeExec
  BY DEF Init, SinTareasFueraDeExec
<1>7. EnOrden
  <2>1. ASSUME NEW c \in Carpinchos
        PROVE  Orden(c)
    <3>1. /\ hacia[c] = <<>> /\ desde[c] = <<>> /\ task_list[c] = <<>>
          /\ cliente[c].pc = "afuera" /\ exec[c].pc = "fuera"
          /\ lista[c] = "ninguna"
      BY DEF Init
    <3>2. ~Toca(c)
      BY <3>1 DEF Toca, Debe, SinHilo
    <3>3. Cuenta(c)
      BY <3>1, <3>2, Largos DEF Cuenta, Uno
    <3> QED
      BY <3>1, <3>2, <3>3, Largos DEF Orden, Numeros, SinMasPedidos
  <2> QED
    BY <2>1 DEF EnOrden
<1> QED
  BY <1>2, <1>3, <1>4, <1>5, <1>6, <1>7 DEF IInv

LEMMA Inductivo ==
  ASSUME IInv, [Next]_vars
  PROVE  IInv'
BY TipoInductivo, UnoInductivo, EtapasInductivas, EnviadosInductivos,
   HilosInductivos, EnOrdenInductivo DEF IInv

LEMMA SiempreIInv == Spec => []IInv
PROOF
<1>1. Init => IInv
  BY Inicio
<1>2. IInv /\ [Next]_vars => IInv'
  BY Inductivo
<1> QED
  BY <1>1, <1>2, PTL DEF Spec

\* The types, and libre_para_inicializar_proceso, which one thread takes and
\* another gives back, stays a mutex.
THEOREM TipoCorrecto == Spec => []TypeOK
PROOF
<1>1. IInv => TypeOK
  BY DEF IInv
<1> QED
  BY <1>1, SiempreIInv, PTL

\* Until its exit is asked for, what a carpincho asked is in one place: sent,
\* a task, answered, or in the hands of its exec thread.
THEOREM UnaSolaRespuesta == Spec => []UnaRespuesta
PROOF
<1>1. ASSUME IInv PROVE UnaRespuesta
  <2>1. SUFFICES ASSUME NEW c \in Carpinchos, caido = "no",
                        c \notin salida_exit, cliente[c].pc # "fin"
                 PROVE  Len(hacia[c]) + Len(task_list[c]) + Len(desde[c])
                          + (IF Toca(c) THEN 1 ELSE 0)
                        = IF cliente[c].pc = "espera" THEN 1 ELSE 0
    BY DEF UnaRespuesta, Toca
  <2>2. lista[c] # "exit"
    BY <1>1, <2>1 DEF IInv, Etapas, Etapa
  <2>3. Cuenta(c)
    BY <1>1, <2>1, <2>2 DEF IInv, EnOrden, Orden
  <2> QED
    BY <2>1, <2>3 DEF Cuenta, Uno
<1> QED
  BY <1>1, SiempreIInv, PTL

\* hilo_salida_a_exit never meets tasks to free outside lista_exec, so its
\* loop that does not advance has nothing to do.
THEOREM SinTareasFuera == Spec => []SinTareasFueraDeExec
PROOF
<1>1. IInv => SinTareasFueraDeExec
  BY DEF IInv
<1> QED
  BY <1>1, SiempreIInv, PTL
-----------------------------------------------------------------------------
(* The kernel survives the ends of the connections, if none is killed *)

\* To send what is pending for one in lista_exit is safe, and keeps count
LEMMA CierreTrasEnvio ==
  ASSUME TypeOK, NEW c \in Carpinchos, Etapa(c), Cierre(c),
         lista[c] = "exit", lista'[c] = "exit", cliente'[c] = cliente[c],
         NEW p \in Nat, Pendientes(c) = p + 1, Pendientes(c)' = p,
         NEW cod, NEW n, Envia(c, cod, n)
  PROVE  Cierre(c)' /\ conexion[c] # "reset"
PROOF
<1>1. PICK d \in Nat : d = Len(desde[c])
  BY DEF TypeOK
<1>2. PICK y \in {0, 1} : y = Uno(cliente[c].pc = "espera")
  BY DEF Uno
<1>3. CASE cliente[c].pc = "fin"
  <2>1. p + 1 <= Uno(conexion[c] = "cerrada")
    BY <1>3 DEF Cierre
  <2>2. conexion[c] = "cerrada" /\ p = 0
    <3>1. PICK z \in {0, 1} : /\ z = Uno(conexion[c] = "cerrada")
                              /\ z = 1 <=> conexion[c] = "cerrada"
      BY DEF Uno
    <3>2. p + 1 <= z
      BY <2>1, <3>1
    <3>3. z = 1 /\ p = 0
      BY <3>2
    <3> QED
      BY <3>1, <3>3
  <2>3. Pendientes(c)' <= Uno(conexion'[c] = "cerrada")
    <3>1. Uno(conexion'[c] = "cerrada") \in {0, 1}
      BY DEF Uno
    <3> QED
      BY <2>2, <3>1
  <2> QED
    BY <1>3, <2>2, <2>3 DEF Cierre
<1>4. CASE cliente[c].pc # "fin"
  <2>1. d + (p + 1) <= 1 + y
    BY <1>1, <1>2, <1>4 DEF Cierre
  <2>2. conexion[c] \notin {"cerrada", "reset"}
    BY <1>4 DEF Etapa, Cerrada
  <2>3. Len(desde'[c]) = d + 1
    BY <1>1, <2>2, EnviaEfecto, TrasEnvio
  <2>4. (d + 1) + p <= 1 + y
    BY <2>1
  <2>5. Len(desde'[c]) + Pendientes(c)' <= 1 + Uno(cliente'[c].pc = "espera")
    BY <1>2, <2>3, <2>4
  <2> QED
    BY <1>4, <2>2, <2>5 DEF Cierre
<1> QED
  BY <1>3, <1>4

\* No exec thread owes anything to one that ended before its exit
LEMMA FinSinDeuda ==
  ASSUME Cierres, caido = "no", ConKernel, NEW c \in Carpinchos,
         lista[c] # "exit", cliente[c].pc = "fin"
  PROVE  /\ ~Toca(c) /\ exec[c].pc \notin Envian /\ task_list[c] = <<>>
         /\ SoloDesconexion(c) /\ conexion[c] = "cerrada"
BY DEF Cierres, Cierre, Toca, Debe, SinHilo, Envian, Activo

\* An exec thread that sends what it has pending
LEMMA CierreDeExec ==
  ASSUME IInv, Cierres, caido = "no", ConKernel, NEW c \in Carpinchos,
         exec[c].pc \in Envian, exec'[c].pc \notin Envian,
         lista' = lista, saliendo' = saliendo, cliente' = cliente,
         NEW cod, NEW n, Envia(c, cod, n)
  PROVE  Cierre(c)' /\ conexion[c] # "reset"
PROOF
<1>1. TypeOK /\ Etapa(c) /\ Cierre(c)
  BY DEF IInv, Etapas, Cierres
<1>2. CASE lista[c] = "exit"
  <2>1. PICK p \in {0, 1} : p = Uno(saliendo = c)
    BY DEF Uno
  <2>2. Pendientes(c) = p + 1 /\ Pendientes(c)' = p
    <3>1. Uno(exec[c].pc \in Envian) = 1 /\ Uno(exec'[c].pc \in Envian) = 0
      BY DEF Uno
    <3> QED
      BY <2>1, <3>1 DEF Pendientes
  <2> QED
    BY <1>1, <1>2, <2>2, CierreTrasEnvio
<1>3. CASE lista[c] # "exit"
  <2>1. cliente[c].pc # "fin"
    BY <1>3, FinSinDeuda
  <2> QED
    BY <1>1, <1>3, <2>1 DEF Cierre, Etapa, Cerrada
<1> QED
  BY <1>2, <1>3

\* hilo_salida_a_exit sends the error of the exit
LEMMA CierreDeSalida ==
  ASSUME IInv, Cierres, caido = "no", ConKernel, NEW c \in Carpinchos,
         saliendo = c, SalidaAvisa
  PROVE  Cierre(c)' /\ conexion[c] # "reset"
PROOF
<1>1. TypeOK /\ Etapa(c) /\ Cierre(c) /\ Nadie # c
  BY ConstantesTipadas DEF IInv, Etapas, Cierres
<1>2. /\ lista[c] = "exit" /\ lista' = lista /\ cliente' = cliente
      /\ exec' = exec /\ saliendo' = Nadie /\ Envia(c, "OP_ERROR", 0)
  BY <1>1 DEF SalidaAvisa, IInv, Hilos, clientes
<1>3. PICK p \in {0, 1} : p = Uno(exec[c].pc \in Envian)
  BY DEF Uno
<1>4. Pendientes(c) = p + 1 /\ Pendientes(c)' = p
  <2>1. Uno(saliendo = c) = 1 /\ Uno(saliendo' = c) = 0
    BY <1>1, <1>2 DEF Uno
  <2>2. Uno(exec'[c].pc \in Envian) = p
    BY <1>2, <1>3
  <2> QED
    BY <1>3, <2>1, <2>2 DEF Pendientes
<1> QED
  BY <1>1, <1>2, <1>4, CierreTrasEnvio

LEMMA CierreInductivo ==
  ASSUME IInv, Cierres, muertos' = {}, caido' = "no", ConKernel,
         NEW c \in Carpinchos, PasoDe(c)
  PROVE  Cierre(c)'
PROOF
<1> USE DEF sockets, clientes, conexiones, salidas, memoria, kernel, ajenos
<1>t. /\ TypeOK /\ Etapas /\ Enviados /\ Hilos /\ EnOrden
      /\ Hilo(c) /\ Etapa(c) /\ Enviado(c) /\ SinTareasFueraDeExec
  BY DEF IInv, Hilos, Etapas, Enviados
<1> /\ TypeOK /\ Etapas /\ Enviados /\ Hilos
    /\ Hilo(c) /\ Etapa(c) /\ Enviado(c)
  BY <1>t
<1>n. caido = "no" /\ Nadie \notin Carpinchos
      /\ escenario.servidor \in {"kernel", "memoria"}
  BY NadaTermino, ConstantesTipadas
<1>c. Cierre(c)
  BY <1>n DEF Cierres
<1>o. lista[c] # "exit" => Cuenta(c) /\ Numeros(c) /\ SinMasPedidos(c)
  BY <1>n, <1>t DEF EnOrden, Orden
<1>a. ASSUME lista[c] # "exit" => cliente[c].pc # "fin",
             cliente'[c] = cliente[c], desde'[c] = desde[c],
             conexion'[c] = conexion[c],
             lista'[c] = "exit" <=> lista[c] = "exit",
             exec'[c].pc \in Envian => exec[c].pc \in Envian,
             saliendo' = saliendo
      PROVE  Cierre(c)'
  <2>1. lista'[c] # "exit" => cliente'[c].pc # "fin"
    BY <1>a
  <2>2. ASSUME lista'[c] = "exit", cliente'[c].pc # "fin"
        PROVE  Len(desde'[c]) + Pendientes(c)' <= 1 + Uno(cliente'[c].pc = "espera")
    <3>1. Len(desde[c]) + Pendientes(c) <= 1 + Uno(cliente[c].pc = "espera")
      BY <1>a, <1>c, <2>2 DEF Cierre
    <3>2. PICK d \in Nat : d = Len(desde[c])
      BY DEF TypeOK
    <3>3. PICK y \in {0, 1} : y = Uno(cliente[c].pc = "espera")
      BY DEF Uno
    <3>4. PICK p \in {0, 1, 2}, q \in {0, 1, 2} :
             p = Pendientes(c) /\ q = Pendientes(c)' /\ q <= p
      <4>1. PICK u \in {0, 1}, v \in {0, 1}, w \in {0, 1} :
              /\ u = Uno(saliendo = c) /\ v = Uno(exec[c].pc \in Envian)
              /\ w = Uno(exec'[c].pc \in Envian) /\ w <= v
        BY <1>a DEF Uno
      <4>2. Uno(saliendo' = c) = u
        BY <1>a, <4>1
      <4>3. Pendientes(c) = u + v /\ Pendientes(c)' = u + w
        BY <4>1, <4>2 DEF Pendientes
      <4>4. u + v \in {0, 1, 2} /\ u + w \in {0, 1, 2} /\ u + w <= u + v
        BY <4>1
      <4> QED
        BY <4>3, <4>4
    <3>5. d + p <= 1 + y => d + q <= 1 + y
      BY <3>4
    <3>6. d + q <= 1 + y
      BY <3>1, <3>2, <3>3, <3>4, <3>5
    <3> QED
      BY <1>a, <3>2, <3>3, <3>4, <3>6
  <2>3. ASSUME lista'[c] = "exit", cliente'[c].pc = "fin"
        PROVE  Pendientes(c)' <= Uno(conexion'[c] = "cerrada")
    <3>1. Pendientes(c) <= Uno(conexion[c] = "cerrada")
      BY <1>a, <1>c, <2>3 DEF Cierre
    <3>2. PICK z \in {0, 1} : z = Uno(conexion[c] = "cerrada")
      BY DEF Uno
    <3>3. PICK u \in {0, 1}, v \in {0, 1}, w \in {0, 1} :
              /\ u = Uno(saliendo = c) /\ v = Uno(exec[c].pc \in Envian)
              /\ w = Uno(exec'[c].pc \in Envian) /\ w <= v
      BY <1>a DEF Uno
    <3>4. Uno(saliendo' = c) = u
      BY <1>a, <3>3
    <3>5. Pendientes(c) = u + v /\ Pendientes(c)' = u + w
      BY <3>3, <3>4 DEF Pendientes
    <3>6. u + v <= z => u + w <= z
      BY <3>3
    <3> QED
      BY <1>a, <3>1, <3>2, <3>5, <3>6
  <2> QED
    BY <2>1, <2>2, <2>3 DEF Cierre
<1>b. ASSUME lista'[c] # "exit", cliente'[c].pc # "fin"
      PROVE  Cierre(c)'
  BY <1>b DEF Cierre
<1>f. lista[c] # "exit" /\ cliente[c].pc = "fin" =>
        /\ ~Toca(c) /\ exec[c].pc \notin Envian /\ task_list[c] = <<>>
        /\ SoloDesconexion(c) /\ conexion[c] = "cerrada"
  BY <1>n, FinSinDeuda
<1>1. CASE MateInit(c)
    <2>1. lista'[c] = "ninguna" /\ cliente'[c].pc = "espera"
      BY <1>1 DEF MateInit, Pide, Etapa, TypeOK
    <2> QED
      BY <1>b, <2>1
<1>2. CASE Llama(c)
    <2>1. /\ cliente'[c].pc = "espera" /\ lista' = lista
          /\ exec' = exec /\ saliendo' = saliendo
      BY <1>2 DEF Llama, Pide, TypeOK
    <2>2. CASE lista[c] # "exit"
      BY <1>b, <2>1, <2>2
    <2>3. CASE lista[c] = "exit"
      <3>1. Len(desde[c]) + Pendientes(c) <= 1 + Uno(cliente[c].pc = "espera")
        BY <1>2, <1>c, <2>3 DEF Cierre, Llama
      <3>2. PICK d \in Nat : d = Len(desde[c])
        BY DEF TypeOK
      <3>3. PICK p \in {0, 1, 2} : p = Pendientes(c)
        <4>1. Uno(saliendo = c) \in {0, 1} /\ Uno(exec[c].pc \in Envian) \in {0, 1}
          BY DEF Uno
        <4> QED
          BY <4>1 DEF Pendientes
      <3>4. Pendientes(c)' = p
        BY <2>1, <3>3 DEF Pendientes
      <3>5. /\ Uno(cliente[c].pc = "espera") = 0
            /\ Uno(cliente'[c].pc = "espera") = 1
        BY <1>2, <2>1 DEF Llama, Uno
      <3>6. d + p <= 1 + 1
        BY <3>1, <3>2, <3>3, <3>5
      <3>7. desde' = desde
        BY <1>2 DEF Llama
      <3> QED
        BY <2>1, <2>3, <3>2, <3>4, <3>5, <3>6, <3>7 DEF Cierre
    <2> QED
      BY <2>2, <2>3
<1>3. CASE Gira(c)
    <2>1. /\ cliente'[c].pc = "gira" /\ lista' = lista
          /\ exec' = exec /\ saliendo' = saliendo
      BY <1>3 DEF Gira, TypeOK
    <2>2. CASE lista[c] # "exit"
      BY <1>b, <2>1, <2>2
    <2>3. CASE lista[c] = "exit"
      <3>1. Len(desde[c]) + Pendientes(c) <= 1 + Uno(cliente[c].pc = "espera")
        BY <1>3, <1>c, <2>3 DEF Cierre, Gira
      <3>2. PICK d \in Nat : d = Len(desde[c])
        BY DEF TypeOK
      <3>3. PICK p \in {0, 1, 2} : p = Pendientes(c)
        <4>1. Uno(saliendo = c) \in {0, 1} /\ Uno(exec[c].pc \in Envian) \in {0, 1}
          BY DEF Uno
        <4> QED
          BY <4>1 DEF Pendientes
      <3>4. Pendientes(c)' = p
        BY <2>1, <3>3 DEF Pendientes
      <3>5. /\ Uno(cliente[c].pc = "espera") = 0
            /\ Uno(cliente'[c].pc = "espera") = 0
        BY <1>3, <2>1 DEF Gira, Uno
      <3>6. d + p <= 1 + 0
        BY <3>1, <3>2, <3>3, <3>5
      <3>7. desde' = desde
        BY <1>3 DEF Gira
      <3> QED
        BY <2>1, <2>3, <3>2, <3>4, <3>5, <3>6, <3>7 DEF Cierre
    <2> QED
      BY <2>2, <2>3
<1>4. CASE Recibe(c)
    <2>1. /\ cliente'[c].pc = "corre" /\ lista' = lista
          /\ exec' = exec /\ saliendo' = saliendo
      BY <1>4 DEF Recibe, Recibido, TypeOK
    <2>2. CASE lista[c] # "exit"
      BY <1>b, <2>1, <2>2
    <2>3. CASE lista[c] = "exit"
      <3>1. Len(desde[c]) + Pendientes(c) <= 1 + Uno(cliente[c].pc = "espera")
        BY <1>4, <1>c, <2>3 DEF Cierre, Recibe
      <3>2. PICK d \in Nat : d = Len(desde[c])
        BY DEF TypeOK
      <3>3. PICK p \in {0, 1, 2} : p = Pendientes(c)
        <4>1. Uno(saliendo = c) \in {0, 1} /\ Uno(exec[c].pc \in Envian) \in {0, 1}
          BY DEF Uno
        <4> QED
          BY <4>1 DEF Pendientes
      <3>4. Pendientes(c)' = p
        BY <2>1, <3>3 DEF Pendientes
      <3>5. /\ Uno(cliente[c].pc = "espera") = 1
            /\ Uno(cliente'[c].pc = "espera") = 0
        BY <1>4, <2>1 DEF Recibe, Uno
      <3>6. d + p <= 1 + 1
        BY <3>1, <3>2, <3>3, <3>5
      <3>7. desde[c] # <<>> /\ desde'[c] = Tail(desde[c])
        BY <1>4, <1>n DEF Recibe, TypeOK
      <3>8. Len(desde'[c]) = d - 1 /\ d # 0
        <4>1. desde[c] \in Seq(Paquetes)
          BY DEF TypeOK
        <4> QED
          BY <3>2, <3>7, <4>1, TrasTail
      <3>9. (d - 1) + p <= 1 + 0
        BY <3>6, <3>8
      <3> QED
        BY <2>1, <2>3, <3>4, <3>5, <3>8, <3>9 DEF Cierre
    <2> QED
      BY <2>2, <2>3
<1>5. CASE MateClose(c)
    <2>1. /\ cliente'[c].pc = "fin" /\ lista' = lista /\ cliente[c].pc = "corre"
          /\ exec' = exec /\ saliendo' = saliendo /\ task_list' = task_list
          /\ conexion'[c] = IF desde[c] = <<>> THEN "cerrada" ELSE "reset"
      BY <1>5 DEF MateClose, Cierra, TypeOK
    <2>2. CASE lista[c] # "exit"
      <3>1. /\ hacia[c] = <<>> /\ task_list[c] = <<>> /\ ~Toca(c)
            /\ desde[c] = <<>>
        BY <1>o, <2>1, <2>2, UnoPorVez
      <3>2. hacia'[c] = <<>> \/ hacia'[c] = <<Desconexion>>
        BY <1>5, <3>1 DEF MateClose, TypeOK
      <3>3. SoloDesconexion(c)'
        BY <3>2, Largos DEF SoloDesconexion, Desconexion, Paquete
      <3>4. ~Toca(c)'
        BY <2>1, <3>1 DEF Toca, Debe, SinHilo
      <3> QED
        BY <2>1, <2>2, <3>1, <3>3, <3>4 DEF Cierre
    <2>3. CASE lista[c] = "exit"
      <3>1. Len(desde[c]) + Pendientes(c) <= 1 + Uno(cliente[c].pc = "espera")
        BY <1>5, <1>c, <2>1, <2>3 DEF Cierre
      <3>2. PICK d \in Nat : d = Len(desde[c])
        BY DEF TypeOK
      <3>3. PICK p \in {0, 1, 2} : p = Pendientes(c)
        <4>1. Uno(saliendo = c) \in {0, 1} /\ Uno(exec[c].pc \in Envian) \in {0, 1}
          BY DEF Uno
        <4> QED
          BY <4>1 DEF Pendientes
      <3>4. Pendientes(c)' = p
        BY <2>1, <3>3 DEF Pendientes
      <3>5. Uno(cliente[c].pc = "espera") = 0
        BY <2>1 DEF Uno
      <3>6. d + p <= 1 + 0
        BY <3>1, <3>2, <3>3, <3>5
      <3>7. d = 0 <=> desde[c] = <<>>
        BY <3>2 DEF TypeOK
      <3>8. p <= Uno(conexion'[c] = "cerrada")
        <4>1. CASE d = 0
          <5>1. Uno(conexion'[c] = "cerrada") = 1
            BY <2>1, <3>7, <4>1 DEF Uno
          <5>2. p <= 1
            BY <3>6, <4>1
          <5> QED
            BY <5>1, <5>2
        <4>2. CASE d # 0
          <5>1. p = 0
            BY <3>6, <4>2
          <5>2. Uno(conexion'[c] = "cerrada") \in {0, 1}
            BY DEF Uno
          <5> QED
            BY <5>1, <5>2
        <4> QED
          BY <4>1, <4>2
      <3> QED
        BY <2>1, <2>3, <3>4, <3>8 DEF Cierre
    <2> QED
      BY <2>2, <2>3
<1>6. CASE Muere(c)
  BY <1>6 DEF Muere
<1>7. CASE Acepta(c)
    <2>1. /\ hacia' = hacia /\ task_list' = task_list /\ desde' = desde
          /\ cliente' = cliente /\ exec' = exec /\ conexion' = conexion
          /\ lista' = lista /\ saliendo' = saliendo
      BY <1>7 DEF Acepta
    <2>2. Toca(c)' <=> Toca(c)
      BY <2>1 DEF Toca, Debe, SinHilo
    <2>3. Pendientes(c)' = Pendientes(c)
      BY <2>1 DEF Pendientes
    <2> QED
      BY <1>c, <2>1, <2>2, <2>3 DEF Cierre, SoloDesconexion
<1>8. CASE AtiendeNuevo(c)
    <2>1. /\ lista[c] = "ninguna" /\ hacia[c] # <<>>
          /\ hacia[c][1].cod = "NUEVO_CARPINCHO"
      BY <1>8, RecienEntra DEF Entra
    <2>2. 1 \in DOMAIN hacia[c]
      BY <2>1 DEF TypeOK
    <2>3. cliente[c].pc # "fin"
      BY <1>f, <2>1, <2>2 DEF SoloDesconexion
    <2>4. lista'[c] = "ready" /\ cliente' = cliente
      BY <1>8 DEF AtiendeNuevo, TypeOK
    <2> QED
      BY <1>b, <2>3, <2>4
<1>9. CASE AtiendeTarea(c)
    <2>1. PICK op \in DeCliente : Lee(c, op)
      BY <1>9 DEF AtiendeTarea, DeCliente
    <2>2. op # "CLIENTE_DESCONECTADO"
      BY DEF DeCliente, DeKernel, DeMemoria
    <2>3. hacia[c] # <<>> /\ Head(hacia[c]).cod = op
      BY <2>1, <2>2 DEF Lee
    <2>4. hacia[c] \in Seq(Paquetes)
      BY DEF TypeOK
    <2>5. 1 \in DOMAIN hacia[c] /\ hacia[c][1] = Head(hacia[c])
      BY <2>3, <2>4, TrasTail
    <2>6. lista[c] # "exit" => cliente[c].pc # "fin"
      BY <1>f, <2>2, <2>3, <2>5 DEF SoloDesconexion
    <2> QED
      BY <1>9, <1>a, <2>6 DEF AtiendeTarea
<1>10. CASE AtiendeDesconexion(c)
    <2>1. CASE lista[c] = "exit"
      BY <1>10, <1>a, <2>1 DEF AtiendeDesconexion
    <2>2. CASE lista[c] # "exit"
      <3>1. /\ lista' = lista /\ cliente' = cliente /\ exec' = exec
            /\ task_list' = task_list /\ conexion' = conexion
        BY <1>10 DEF AtiendeDesconexion
      <3>2. SoloDesconexion(c) => SoloDesconexion(c)'
        <4>1. hacia[c] \in Seq(Paquetes)
          BY DEF TypeOK
        <4>2. CASE hacia[c] = <<>>
          <5>1. hacia'[c] = hacia[c]
            BY <1>10, <4>2 DEF AtiendeDesconexion, Leido, TypeOK
          <5> QED
            BY <5>1 DEF SoloDesconexion
        <4>3. CASE hacia[c] # <<>>
          <5>1. hacia'[c] = Tail(hacia[c])
            BY <1>10, <4>3 DEF AtiendeDesconexion, Leido, TypeOK
          <5>2. \A i \in DOMAIN hacia'[c] :
                  i + 1 \in DOMAIN hacia[c] /\ hacia'[c][i] = hacia[c][i + 1]
            BY <4>1, <4>3, <5>1, TrasTail
          <5> QED
            BY <5>2 DEF SoloDesconexion
        <4> QED
          BY <4>2, <4>3
      <3>3. Toca(c)' <=> Toca(c)
        BY <3>1 DEF Toca, Debe, SinHilo
      <3> QED
        BY <1>f, <2>2, <3>1, <3>2, <3>3 DEF Cierre
    <2> QED
      BY <2>1, <2>2
<1>11. CASE Despacha(c)
    <2>1. lista[c] = "ready" /\ exec[c].pc = "fuera" /\ lista'[c] = "exec"
          /\ cliente' = cliente
      BY <1>11 DEF Despacha, Hilo, TypeOK
    <2>2. cliente[c].pc # "fin"
      BY <1>f, <2>1 DEF Toca, Debe, SinHilo
    <2> QED
      BY <1>b, <2>1, <2>2
<1>12. CASE ExecEmpieza(c)
    <2>1. PICK cod, n : Envia(c, cod, n)
      BY <1>12, QuienEnvia
    <2>2. /\ exec[c].pc = "empieza" /\ exec'[c].pc = "mira"
          /\ lista' = lista /\ saliendo' = saliendo /\ cliente' = cliente
      BY <1>12 DEF ExecEmpieza, EnHilo, Pasa, TypeOK
    <2>3. exec[c].pc \in Envian /\ exec'[c].pc \notin Envian
      BY <2>2 DEF Envian, Activo
    <2> QED
      BY <1>n, <2>1, <2>2, <2>3, CierreDeExec
<1>12b. CASE NoEmpieza(c)
    <2>1. /\ exec[c].pc = "empieza" /\ exec'[c].pc = "fuera"
          /\ lista' = lista /\ cliente' = cliente /\ desde' = desde
          /\ conexion' = conexion /\ saliendo' = saliendo
      BY <1>12b DEF NoEmpieza, EnHilo, Pasa, TypeOK
    <2>2. lista[c] # "exit" => cliente[c].pc # "fin"
      BY <1>f, <2>1 DEF Toca, Debe, SinHilo
    <2> QED
      BY <1>a, <2>1, <2>2 DEF Envian, Activo
<1>13. CASE ExecToma(c)
    <2>1. /\ task_list[c] # <<>> /\ exec[c].pc = "mira"
          /\ lista' = lista /\ cliente' = cliente /\ desde' = desde
          /\ conexion' = conexion /\ saliendo' = saliendo
      BY <1>13 DEF ExecToma, EnHilo
    <2>2. CASE lista[c] # "exit"
      BY <1>b, <1>f, <2>1, <2>2
    <2>3. CASE lista[c] = "exit"
      <3>1. task_list[c][1] = Desconexion
        BY <2>1, <2>3 DEF Hilo, Activo
      <3>2. Head(task_list[c]) = Desconexion
        <4>1. task_list[c] \in Seq(Paquetes)
          BY DEF TypeOK
        <4> QED
          BY <2>1, <3>1, <4>1, TrasTail
      <3>3. exec'[c].pc = "fuera"
        BY <1>13, <3>2 DEF ExecToma, TypeOK
      <3> QED
        BY <1>a, <2>1, <2>3, <3>3 DEF Envian, Activo
    <2> QED
      BY <2>2, <2>3
<1>14. CASE ExecConfirma(c)
    <2>1. PICK cod, n : Envia(c, cod, n)
      BY <1>14, QuienEnvia
    <2>2. /\ exec[c].pc = "hace" /\ exec'[c].pc = "mira"
          /\ lista' = lista /\ saliendo' = saliendo /\ cliente' = cliente
      BY <1>14 DEF ExecConfirma, EnHilo, Pasa, TypeOK
    <2>3. exec[c].pc \in Envian /\ exec'[c].pc \notin Envian
      BY <2>2 DEF Envian, Activo
    <2> QED
      BY <1>n, <2>1, <2>2, <2>3, CierreDeExec
<1>15. CASE ExecEspera(c)
    <2>1. /\ exec[c].pc = "hace" /\ exec'[c].pc = "bloquea"
          /\ lista' = lista /\ cliente' = cliente /\ desde' = desde
          /\ conexion' = conexion /\ saliendo' = saliendo
      BY <1>15 DEF ExecEspera, EnHilo, Pasa, TypeOK
    <2>2. lista[c] # "exit" => cliente[c].pc # "fin"
      BY <1>f, <2>1 DEF Toca, Debe, SinHilo
    <2> QED
      BY <1>a, <2>1, <2>2 DEF Envian, Activo
<1>16. CASE ExecSinSemaforo(c)
    <2>1. PICK cod, n : Envia(c, cod, n)
      BY <1>16, QuienEnvia
    <2>2. /\ exec[c].pc = "hace" /\ exec'[c].pc = "sin_semaforo"
          /\ lista' = lista /\ saliendo' = saliendo /\ cliente' = cliente
      BY <1>16 DEF ExecSinSemaforo, EnHilo, Pasa, TypeOK
    <2>3. exec[c].pc \in Envian /\ exec'[c].pc \notin Envian
      BY <2>2 DEF Envian, Activo
    <2> QED
      BY <1>n, <2>1, <2>2, <2>3, CierreDeExec
<1>17. CASE ExecBloquea(c)
    <2>1. /\ cliente' = cliente /\ desde' = desde /\ hacia' = hacia
          /\ conexion' = conexion /\ saliendo' = saliendo
          /\ task_list' = task_list
          /\ lista'[c] = IF lista[c] = "exec" THEN "blocked" ELSE lista[c]
          /\ \/ exec[c].pc = "bloquea" /\ exec'[c].pc = "fuera"
             \/ exec[c].pc = "sin_semaforo" /\ exec'[c].pc = "colgado"
      BY <1>17 DEF ExecBloquea, Pasa, TypeOK
    <2>2. CASE lista[c] # "exit"
      <3>1. cliente[c].pc = "fin" => exec[c].pc = "sin_semaforo"
        BY <1>f, <2>1, <2>2 DEF Toca, Debe, SinHilo
      <3>2. cliente[c].pc = "fin" => ~Toca(c)'
        BY <2>1, <3>1 DEF Toca, Debe, SinHilo
      <3>3. lista'[c] # "exit"
        BY <2>1, <2>2
      <3>4. SoloDesconexion(c) => SoloDesconexion(c)'
        BY <2>1 DEF SoloDesconexion
      <3> QED
        BY <1>f, <2>1, <2>2, <3>2, <3>3, <3>4 DEF Cierre
    <2>3. CASE lista[c] = "exit"
      BY <1>a, <2>1, <2>3 DEF Envian, Activo
    <2> QED
      BY <2>2, <2>3
<1>18. CASE Despierta(c)
    <2>1. lista[c] = "blocked" /\ exec[c].pc = "fuera" /\ lista'[c] = "ready"
          /\ cliente' = cliente
      BY <1>18 DEF Despierta, TypeOK
    <2>2. cliente[c].pc # "fin"
      BY <1>f, <2>1 DEF Toca, Debe, SinHilo
    <2> QED
      BY <1>b, <2>1, <2>2
<1>19. CASE ExecPideMemoria(c)
    <2>1. /\ exec[c].pc = "hace" /\ exec'[c].pc = "lee_codigo"
          /\ lista' = lista /\ cliente' = cliente /\ desde' = desde
          /\ conexion' = conexion /\ saliendo' = saliendo
      BY <1>19 DEF ExecPideMemoria, EnHilo, Pasa, TypeOK
    <2>2. lista[c] # "exit" => cliente[c].pc # "fin"
      BY <1>f, <2>1 DEF Toca, Debe, SinHilo
    <2> QED
      BY <1>a, <2>1, <2>2 DEF Envian, Activo
<1>20. CASE ExecSinMemoria(c)
    <2>1. PICK cod, n : Envia(c, cod, n)
      BY <1>20, QuienEnvia
    <2>2. /\ exec[c].pc = "lee_codigo" /\ exec'[c].pc = "mira"
          /\ lista' = lista /\ saliendo' = saliendo /\ cliente' = cliente
      BY <1>20 DEF ExecSinMemoria, EnHilo, Pasa, TypeOK
    <2>3. exec[c].pc \in Envian /\ exec'[c].pc \notin Envian
      BY <2>2 DEF Envian, Activo
    <2> QED
      BY <1>n, <2>1, <2>2, <2>3, CierreDeExec
<1>21. CASE ExecLeeCodigo(c)
    <2>1. /\ exec[c].pc = "lee_codigo" /\ exec'[c].pc = "lee_resto"
          /\ lista' = lista /\ cliente' = cliente /\ desde' = desde
          /\ conexion' = conexion /\ saliendo' = saliendo
      BY <1>21 DEF ExecLeeCodigo, EnHilo, Pasa, TypeOK
    <2>2. lista[c] # "exit" => cliente[c].pc # "fin"
      BY <1>f, <2>1 DEF Toca, Debe, SinHilo
    <2> QED
      BY <1>a, <2>1, <2>2 DEF Envian, Activo
<1>22. CASE ExecLeeResto(c)
    <2>1. PICK cod, n : Envia(c, cod, n)
      BY <1>22, QuienEnvia
    <2>2. /\ exec[c].pc = "lee_resto" /\ exec'[c].pc = "mira"
          /\ lista' = lista /\ saliendo' = saliendo /\ cliente' = cliente
      BY <1>22 DEF ExecLeeResto, EnHilo, Pasa, TypeOK
    <2>3. exec[c].pc \in Envian /\ exec'[c].pc \notin Envian
      BY <2>2 DEF Envian, Activo
    <2> QED
      BY <1>n, <2>1, <2>2, <2>3, CierreDeExec
<1>23. CASE EligeVictima(c)
    <2>1. /\ hacia' = hacia /\ task_list' = task_list /\ desde' = desde
          /\ cliente' = cliente /\ exec' = exec /\ conexion' = conexion
          /\ lista' = lista /\ saliendo' = saliendo
      BY <1>23 DEF EligeVictima
    <2>2. Toca(c)' <=> Toca(c)
      BY <2>1 DEF Toca, Debe, SinHilo
    <2>3. Pendientes(c)' = Pendientes(c)
      BY <2>1 DEF Pendientes
    <2> QED
      BY <1>c, <2>1, <2>2, <2>3 DEF Cierre, SoloDesconexion
<1>24. CASE SalidaMueve(c)
    <2>1. /\ lista[c] # "exit" /\ lista'[c] = "exit" /\ saliendo' = c
          /\ cliente' = cliente /\ desde' = desde /\ exec' = exec
          /\ conexion' = conexion
      BY <1>24 DEF SalidaMueve, Marcados, TypeOK
    <2>2. PICK e \in {0, 1} : /\ e = Uno(exec[c].pc \in Envian)
                              /\ e = 1 <=> exec[c].pc \in Envian
      BY DEF Uno
    <2>3. Pendientes(c)' = 1 + e
      <3>1. Uno(saliendo' = c) = 1 /\ Uno(exec'[c].pc \in Envian) = e
        BY <2>1, <2>2 DEF Uno
      <3> QED
        BY <3>1 DEF Pendientes
    <2>4. CASE cliente[c].pc = "fin"
      <3>1. e = 0 /\ Uno(conexion'[c] = "cerrada") = 1
        BY <1>f, <2>1, <2>2, <2>4 DEF Uno
      <3> QED
        BY <2>1, <2>3, <2>4, <3>1 DEF Cierre
    <2>5. CASE cliente[c].pc # "fin"
      <3>1. PICK h \in Nat, t \in Nat, d \in Nat :
              h = Len(hacia[c]) /\ t = Len(task_list[c]) /\ d = Len(desde[c])
        BY DEF TypeOK
      <3>2. PICK x \in {0, 1}, y \in {0, 1} :
              /\ x = Uno(Toca(c)) /\ (x = 1 <=> Toca(c))
              /\ y = Uno(cliente[c].pc = "espera")
        BY DEF Uno
      <3>3. h + t + d + x = y
        BY <1>o, <2>1, <2>5, <3>1, <3>2 DEF Cuenta
      <3>4. e = 1 => x = 1
        BY <2>2, <3>2 DEF Toca, Debe, SinHilo, Envian, Activo
      <3>5. d + (1 + e) <= 1 + y
        BY <3>3, <3>4
      <3> QED
        BY <2>1, <2>3, <2>5, <3>1, <3>2, <3>5 DEF Cierre
    <2> QED
      BY <2>4, <2>5
<1>25. CASE MemoriaAtiende(c)
  BY <1>25 DEF MemoriaAtiende
<1>26. CASE saliendo = c /\ SalidaAvisa
  BY <1>26, <1>n, CierreDeSalida
<1> QED
  BY <1>1, <1>2, <1>3, <1>4, <1>5, <1>6, <1>7, <1>8, <1>9, <1>10, <1>11,
     <1>12, <1>12b, <1>13, <1>14, <1>15, <1>16, <1>17, <1>18, <1>19, <1>20,
     <1>21, <1>22, <1>23, <1>24, <1>25, <1>26
     DEF PasoDe, Cliente, Exec, Atiende

\* The kernel sends only to connections that were not reset
LEMMA NoCaeElKernel ==
  ASSUME IInv, muertos = {}, KernelSobrevive, Cierres, [Next]_vars
  PROVE  caido' # "kernel"
PROOF
<1> USE DEF sockets, clientes, conexiones, salidas, memoria, kernel, ajenos
<1> TypeOK BY DEF IInv
<1>0. caido # "kernel"
  BY DEF KernelSobrevive
<1>1. CASE PasoComun
  BY <1>0, <1>1 DEF PasoComun, ConectaMemoria, Memoria, SalidaNadie, vars
<1>2. ASSUME NEW c \in Carpinchos, PasoDe(c)
      PROVE  caido' # "kernel"
  <2>1. ASSUME NEW cod, NEW n, Envia(c, cod, n), conexion[c] # "reset"
        PROVE  caido' # "kernel"
    BY <1>0, <2>1 DEF Envia
<2>a1. CASE MateInit(c)
    BY <2>a1, <1>0 DEF MateInit
<2>a2. CASE Llama(c)
    BY <2>a2, <1>0 DEF Llama
<2>a3. CASE Gira(c)
    BY <2>a3, <1>0 DEF Gira
<2>a4. CASE Recibe(c)
    BY <2>a4, <1>0 DEF Recibe
<2>a5. CASE MateClose(c)
    BY <2>a5, <1>0 DEF MateClose, Cierra
<2>a6. CASE Muere(c)
    BY <2>a6, <1>0 DEF Muere, Cierra
<2>a7. CASE Acepta(c)
    BY <2>a7, <1>0 DEF Acepta
<2>a8. CASE AtiendeNuevo(c)
    BY <2>a8, <1>0 DEF AtiendeNuevo
<2>a9. CASE AtiendeTarea(c)
    BY <2>a9, <1>0 DEF AtiendeTarea
<2>a10. CASE AtiendeDesconexion(c)
    BY <2>a10, <1>0 DEF AtiendeDesconexion
<2>a11. CASE Despacha(c)
    BY <2>a11, <1>0 DEF Despacha
<2>a12. CASE ExecEmpieza(c)
    <4>1. PICK cod, n : Envia(c, cod, n)
      BY <2>a12, QuienEnvia
    <4>2. /\ exec[c].pc = "empieza" /\ exec'[c].pc = "mira"
          /\ lista' = lista /\ saliendo' = saliendo /\ cliente' = cliente
          /\ caido = "no" /\ ConKernel
      BY <2>a12 DEF ExecEmpieza, EnHilo, EnKernel, Pasa, TypeOK
    <4>3. exec[c].pc \in Envian /\ exec'[c].pc \notin Envian
      BY <4>2 DEF Envian, Activo
    <4>4. conexion[c] # "reset"
      BY <4>1, <4>2, <4>3, CierreDeExec
    <4> QED
      BY <2>1, <4>1, <4>4
<2>a12b. CASE NoEmpieza(c)
    BY <2>a12b, <1>0 DEF NoEmpieza
<2>a13. CASE ExecToma(c)
    BY <2>a13, <1>0 DEF ExecToma
<2>a14. CASE ExecConfirma(c)
    <4>1. PICK cod, n : Envia(c, cod, n)
      BY <2>a14, QuienEnvia
    <4>2. /\ exec[c].pc = "hace" /\ exec'[c].pc = "mira"
          /\ lista' = lista /\ saliendo' = saliendo /\ cliente' = cliente
          /\ caido = "no" /\ ConKernel
      BY <2>a14 DEF ExecConfirma, EnHilo, EnKernel, Pasa, TypeOK
    <4>3. exec[c].pc \in Envian /\ exec'[c].pc \notin Envian
      BY <4>2 DEF Envian, Activo
    <4>4. conexion[c] # "reset"
      BY <4>1, <4>2, <4>3, CierreDeExec
    <4> QED
      BY <2>1, <4>1, <4>4
<2>a15. CASE ExecEspera(c)
    BY <2>a15, <1>0 DEF ExecEspera
<2>a16. CASE ExecSinSemaforo(c)
    <4>1. PICK cod, n : Envia(c, cod, n)
      BY <2>a16, QuienEnvia
    <4>2. /\ exec[c].pc = "hace" /\ exec'[c].pc = "sin_semaforo"
          /\ lista' = lista /\ saliendo' = saliendo /\ cliente' = cliente
          /\ caido = "no" /\ ConKernel
      BY <2>a16 DEF ExecSinSemaforo, EnHilo, EnKernel, Pasa, TypeOK
    <4>3. exec[c].pc \in Envian /\ exec'[c].pc \notin Envian
      BY <4>2 DEF Envian, Activo
    <4>4. conexion[c] # "reset"
      BY <4>1, <4>2, <4>3, CierreDeExec
    <4> QED
      BY <2>1, <4>1, <4>4
<2>a17. CASE ExecBloquea(c)
    BY <2>a17, <1>0 DEF ExecBloquea
<2>a18. CASE Despierta(c)
    BY <2>a18, <1>0 DEF Despierta
<2>a19. CASE ExecPideMemoria(c)
    BY <2>a19, <1>0 DEF ExecPideMemoria
<2>a20. CASE ExecSinMemoria(c)
    <4>1. PICK cod, n : Envia(c, cod, n)
      BY <2>a20, QuienEnvia
    <4>2. /\ exec[c].pc = "lee_codigo" /\ exec'[c].pc = "mira"
          /\ lista' = lista /\ saliendo' = saliendo /\ cliente' = cliente
          /\ caido = "no" /\ ConKernel
      BY <2>a20 DEF ExecSinMemoria, EnHilo, EnKernel, Pasa, TypeOK
    <4>3. exec[c].pc \in Envian /\ exec'[c].pc \notin Envian
      BY <4>2 DEF Envian, Activo
    <4>4. conexion[c] # "reset"
      BY <4>1, <4>2, <4>3, CierreDeExec
    <4> QED
      BY <2>1, <4>1, <4>4
<2>a21. CASE ExecLeeCodigo(c)
    BY <2>a21, <1>0 DEF ExecLeeCodigo
<2>a22. CASE ExecLeeResto(c)
    <4>1. PICK cod, n : Envia(c, cod, n)
      BY <2>a22, QuienEnvia
    <4>2. /\ exec[c].pc = "lee_resto" /\ exec'[c].pc = "mira"
          /\ lista' = lista /\ saliendo' = saliendo /\ cliente' = cliente
          /\ caido = "no" /\ ConKernel
      BY <2>a22 DEF ExecLeeResto, EnHilo, EnKernel, Pasa, TypeOK
    <4>3. exec[c].pc \in Envian /\ exec'[c].pc \notin Envian
      BY <4>2 DEF Envian, Activo
    <4>4. conexion[c] # "reset"
      BY <4>1, <4>2, <4>3, CierreDeExec
    <4> QED
      BY <2>1, <4>1, <4>4
<2>a23. CASE EligeVictima(c)
    BY <2>a23, <1>0 DEF EligeVictima
<2>a24. CASE SalidaMueve(c)
    BY <2>a24, <1>0 DEF SalidaMueve
<2>a25. CASE MemoriaAtiende(c)
    <4>1. PICK cod, n : Envia(c, cod, n)
      BY <2>a25, QuienEnvia
    <4>2. escenario.servidor # "kernel"
      BY <2>a25 DEF MemoriaAtiende, ConKernel
    <4> QED
      BY <1>0, <4>1, <4>2, EnviaEfecto
<2>a26. CASE saliendo = c /\ SalidaAvisa
    <4>1. PICK cod, n : Envia(c, cod, n)
      BY <2>a26, QuienEnvia
    <4>2. caido = "no" /\ ConKernel
      BY <2>a26 DEF SalidaAvisa, EnKernel
    <4>3. conexion[c] # "reset"
      BY <2>a26, <4>2, CierreDeSalida
    <4> QED
      BY <2>1, <4>1, <4>3
<2> QED
  BY <2>a1, <2>a2, <2>a3, <2>a4, <2>a5, <2>a6, <2>a7, <2>a8, <2>a9,
     <2>a10, <2>a11, <2>a12, <2>a12b, <2>a13, <2>a14, <2>a15, <2>a16, <2>a17,
     <2>a18, <2>a19, <2>a20, <2>a21, <2>a22, <2>a23, <2>a24, <2>a25,
     <2>a26, <1>2
     DEF PasoDe, Cliente, Exec, Atiende
<1> QED
  BY <1>1, <1>2, Pasos

LEMMA SinMuertesInductivo ==
  ASSUME IInv, InvSinMuertes, [Next]_vars
  PROVE  InvSinMuertes'
PROOF
<1> USE DEF sockets, clientes, conexiones, salidas, memoria, kernel, ajenos
<1> TypeOK BY DEF IInv
<1>0. SUFFICES ASSUME muertos' = {}
               PROVE  KernelSobrevive' /\ Cierres'
  BY DEF InvSinMuertes
<1>1. muertos = {}
  <2>1. CASE PasoComun
    BY <1>0, <2>1 DEF PasoComun, ConectaMemoria, Memoria, SalidaNadie, vars
  <2>2. ASSUME NEW c \in Carpinchos, PasoDe(c)
        PROVE  muertos = {}
<3>1. CASE MateInit(c)
    BY <3>1, <1>0 DEF MateInit
<3>2. CASE Llama(c)
    BY <3>2, <1>0 DEF Llama
<3>3. CASE Gira(c)
    BY <3>3, <1>0 DEF Gira
<3>4. CASE Recibe(c)
    BY <3>4, <1>0 DEF Recibe
<3>5. CASE MateClose(c)
    BY <3>5, <1>0 DEF MateClose, Cierra
<3>6. CASE Muere(c)
    BY <3>6, <1>0 DEF Muere, Cierra
<3>7. CASE Acepta(c)
    BY <3>7, <1>0 DEF Acepta
<3>8. CASE AtiendeNuevo(c)
    BY <3>8, <1>0 DEF AtiendeNuevo
<3>9. CASE AtiendeTarea(c)
    BY <3>9, <1>0 DEF AtiendeTarea
<3>10. CASE AtiendeDesconexion(c)
    BY <3>10, <1>0 DEF AtiendeDesconexion
<3>11. CASE Despacha(c)
    BY <3>11, <1>0 DEF Despacha
<3>12. CASE ExecEmpieza(c)
    BY <3>12, <1>0 DEF ExecEmpieza
<3>12b. CASE NoEmpieza(c)
    BY <3>12b, <1>0 DEF NoEmpieza
<3>13. CASE ExecToma(c)
    BY <3>13, <1>0 DEF ExecToma
<3>14. CASE ExecConfirma(c)
    BY <3>14, <1>0 DEF ExecConfirma
<3>15. CASE ExecEspera(c)
    BY <3>15, <1>0 DEF ExecEspera
<3>16. CASE ExecSinSemaforo(c)
    BY <3>16, <1>0 DEF ExecSinSemaforo
<3>17. CASE ExecBloquea(c)
    BY <3>17, <1>0 DEF ExecBloquea
<3>18. CASE Despierta(c)
    BY <3>18, <1>0 DEF Despierta
<3>19. CASE ExecPideMemoria(c)
    BY <3>19, <1>0 DEF ExecPideMemoria
<3>20. CASE ExecSinMemoria(c)
    BY <3>20, <1>0 DEF ExecSinMemoria
<3>21. CASE ExecLeeCodigo(c)
    BY <3>21, <1>0 DEF ExecLeeCodigo
<3>22. CASE ExecLeeResto(c)
    BY <3>22, <1>0 DEF ExecLeeResto
<3>23. CASE EligeVictima(c)
    BY <3>23, <1>0 DEF EligeVictima
<3>24. CASE SalidaMueve(c)
    BY <3>24, <1>0 DEF SalidaMueve
<3>25. CASE MemoriaAtiende(c)
    BY <3>25, <1>0 DEF MemoriaAtiende
<3>26. CASE saliendo = c /\ SalidaAvisa
    BY <3>26, <1>0 DEF SalidaAvisa
<3> QED
  BY <3>1, <3>2, <3>3, <3>4, <3>5, <3>6, <3>7, <3>8, <3>9, <3>10, <3>11,
     <3>12, <3>12b, <3>13, <3>14, <3>15, <3>16, <3>17, <3>18, <3>19, <3>20,
     <3>21, <3>22, <3>23, <3>24, <3>25, <3>26, <2>2
     DEF PasoDe, Cliente, Exec, Atiende
  <2> QED
    BY <2>1, <2>2, Pasos
<1>2. KernelSobrevive /\ Cierres
  BY <1>1 DEF InvSinMuertes
<1>3. KernelSobrevive'
  BY <1>1, <1>2, NoCaeElKernel DEF KernelSobrevive
<1>4. Cierres'
  <2>1. SUFFICES ASSUME caido' = "no", ConKernel', NEW d \in Carpinchos
                 PROVE  Cierre(d)'
    BY DEF Cierres
  <2>2. ASSUME Igual(d), caido = "no", saliendo' = d <=> saliendo = d
        PROVE  Cierre(d)'
    <3>1. ConKernel
      BY <2>1, <2>2 DEF Igual, ConKernel
    <3>2. Cierre(d)
      BY <1>2, <2>2, <3>1 DEF Cierres
    <3>3. Pendientes(d)' = Pendientes(d)
      BY <2>2 DEF Pendientes, Uno, Igual
    <3>4. Toca(d)' <=> Toca(d)
      BY <2>2 DEF Toca, Debe, SinHilo, Igual
    <3>5. SoloDesconexion(d)' <=> SoloDesconexion(d)
      BY <2>2 DEF SoloDesconexion, Igual
    <3> QED
      BY <2>2, <3>2, <3>3, <3>4, <3>5 DEF Cierre, Igual
  <2>3. CASE PasoComun
    <3>1. caido' = caido /\ saliendo' = saliendo
      BY <2>3 DEF PasoComun, ConectaMemoria, Memoria, SalidaNadie, vars
    <3> QED
      BY <2>1, <2>2, <2>3, <3>1, IgualesTodos
  <2>4. ASSUME NEW c \in Carpinchos, PasoDe(c)
        PROVE  Cierre(d)'
    <3>1. caido = "no"
      BY <2>1, <2>4, NadaTermino
    <3>2. escenario' = escenario
<4>1. CASE MateInit(c)
    BY <4>1 DEF MateInit
<4>2. CASE Llama(c)
    BY <4>2 DEF Llama
<4>3. CASE Gira(c)
    BY <4>3 DEF Gira
<4>4. CASE Recibe(c)
    BY <4>4 DEF Recibe
<4>5. CASE MateClose(c)
    BY <4>5 DEF MateClose, Cierra
<4>6. CASE Muere(c)
    BY <4>6 DEF Muere, Cierra
<4>7. CASE Acepta(c)
    BY <4>7 DEF Acepta
<4>8. CASE AtiendeNuevo(c)
    BY <4>8 DEF AtiendeNuevo
<4>9. CASE AtiendeTarea(c)
    BY <4>9 DEF AtiendeTarea
<4>10. CASE AtiendeDesconexion(c)
    BY <4>10 DEF AtiendeDesconexion
<4>11. CASE Despacha(c)
    BY <4>11 DEF Despacha
<4>12. CASE ExecEmpieza(c)
    BY <4>12 DEF ExecEmpieza
<4>12b. CASE NoEmpieza(c)
    BY <4>12b DEF NoEmpieza
<4>13. CASE ExecToma(c)
    BY <4>13 DEF ExecToma
<4>14. CASE ExecConfirma(c)
    BY <4>14 DEF ExecConfirma
<4>15. CASE ExecEspera(c)
    BY <4>15 DEF ExecEspera
<4>16. CASE ExecSinSemaforo(c)
    BY <4>16 DEF ExecSinSemaforo
<4>17. CASE ExecBloquea(c)
    BY <4>17 DEF ExecBloquea
<4>18. CASE Despierta(c)
    BY <4>18 DEF Despierta
<4>19. CASE ExecPideMemoria(c)
    BY <4>19 DEF ExecPideMemoria
<4>20. CASE ExecSinMemoria(c)
    BY <4>20 DEF ExecSinMemoria
<4>21. CASE ExecLeeCodigo(c)
    BY <4>21 DEF ExecLeeCodigo
<4>22. CASE ExecLeeResto(c)
    BY <4>22 DEF ExecLeeResto
<4>23. CASE EligeVictima(c)
    BY <4>23 DEF EligeVictima
<4>24. CASE SalidaMueve(c)
    BY <4>24 DEF SalidaMueve
<4>25. CASE MemoriaAtiende(c)
    BY <4>25 DEF MemoriaAtiende
<4>26. CASE saliendo = c /\ SalidaAvisa
    BY <4>26 DEF SalidaAvisa
<4> QED
  BY <4>1, <4>2, <4>3, <4>4, <4>5, <4>6, <4>7, <4>8, <4>9, <4>10, <4>11,
     <4>12, <4>12b, <4>13, <4>14, <4>15, <4>16, <4>17, <4>18, <4>19, <4>20,
     <4>21, <4>22, <4>23, <4>24, <4>25, <4>26, <2>4
     DEF PasoDe, Cliente, Exec, Atiende
    <3>3. CASE d = c
      <4>1. ConKernel
        BY <2>1, <3>2 DEF ConKernel
      <4> QED
        BY <1>0, <1>2, <2>1, <2>4, <3>3, <4>1, CierreInductivo
    <3>4. CASE d # c
      <4>1. Igual(d)
        BY <2>4, <3>4, IgualesLosDemas
      <4>2. Nadie # d
        BY ConstantesTipadas
      <4>3. \/ saliendo' = saliendo
            \/ saliendo = Nadie /\ saliendo' = c
            \/ saliendo = c /\ saliendo' = Nadie
<5>1. CASE MateInit(c)
    BY <5>1 DEF MateInit
<5>2. CASE Llama(c)
    BY <5>2 DEF Llama
<5>3. CASE Gira(c)
    BY <5>3 DEF Gira
<5>4. CASE Recibe(c)
    BY <5>4 DEF Recibe
<5>5. CASE MateClose(c)
    BY <5>5 DEF MateClose, Cierra
<5>6. CASE Muere(c)
    BY <5>6 DEF Muere, Cierra
<5>7. CASE Acepta(c)
    BY <5>7 DEF Acepta
<5>8. CASE AtiendeNuevo(c)
    BY <5>8 DEF AtiendeNuevo
<5>9. CASE AtiendeTarea(c)
    BY <5>9 DEF AtiendeTarea
<5>10. CASE AtiendeDesconexion(c)
    BY <5>10 DEF AtiendeDesconexion
<5>11. CASE Despacha(c)
    BY <5>11 DEF Despacha
<5>12. CASE ExecEmpieza(c)
    BY <5>12 DEF ExecEmpieza
<5>12b. CASE NoEmpieza(c)
    BY <5>12b DEF NoEmpieza
<5>13. CASE ExecToma(c)
    BY <5>13 DEF ExecToma
<5>14. CASE ExecConfirma(c)
    BY <5>14 DEF ExecConfirma
<5>15. CASE ExecEspera(c)
    BY <5>15 DEF ExecEspera
<5>16. CASE ExecSinSemaforo(c)
    BY <5>16 DEF ExecSinSemaforo
<5>17. CASE ExecBloquea(c)
    BY <5>17 DEF ExecBloquea
<5>18. CASE Despierta(c)
    BY <5>18 DEF Despierta
<5>19. CASE ExecPideMemoria(c)
    BY <5>19 DEF ExecPideMemoria
<5>20. CASE ExecSinMemoria(c)
    BY <5>20 DEF ExecSinMemoria
<5>21. CASE ExecLeeCodigo(c)
    BY <5>21 DEF ExecLeeCodigo
<5>22. CASE ExecLeeResto(c)
    BY <5>22 DEF ExecLeeResto
<5>23. CASE EligeVictima(c)
    BY <5>23 DEF EligeVictima
<5>24. CASE SalidaMueve(c)
    BY <5>24 DEF SalidaMueve
<5>25. CASE MemoriaAtiende(c)
    BY <5>25 DEF MemoriaAtiende
<5>26. CASE saliendo = c /\ SalidaAvisa
    BY <5>26 DEF SalidaAvisa
<5> QED
  BY <5>1, <5>2, <5>3, <5>4, <5>5, <5>6, <5>7, <5>8, <5>9, <5>10, <5>11,
     <5>12, <5>12b, <5>13, <5>14, <5>15, <5>16, <5>17, <5>18, <5>19, <5>20,
     <5>21, <5>22, <5>23, <5>24, <5>25, <5>26, <2>4
     DEF PasoDe, Cliente, Exec, Atiende
      <4> QED
        BY <2>2, <3>1, <3>4, <4>1, <4>2, <4>3
    <3> QED
      BY <3>3, <3>4
  <2> QED
    BY <2>3, <2>4, Pasos
<1> QED
  BY <1>3, <1>4

LEMMA SiempreSinMuertes == Spec => [](IInv /\ InvSinMuertes)
PROOF
<1>1. Init => IInv /\ InvSinMuertes
  <2>1. ASSUME Init PROVE InvSinMuertes
    BY <2>1, Largos
       DEF Init, InvSinMuertes, KernelSobrevive, Cierres, Cierre
  <2> QED
    BY <2>1, Inicio
<1>2. (IInv /\ InvSinMuertes) /\ [Next]_vars => (IInv /\ InvSinMuertes)'
  BY Inductivo, SinMuertesInductivo
<1> QED
  BY <1>1, <1>2, PTL DEF Spec

\* The kernel does not fall by sending to carpinchos that closed their
\* connection, as long as none is killed: after the end of a program it sends
\* one packet at most.
THEOREM KernelSobreviveSiempre == Spec => []KernelSobrevive
PROOF
<1>1. InvSinMuertes => KernelSobrevive
  BY DEF InvSinMuertes, KernelSobrevive
<1> QED
  BY <1>1, SiempreSinMuertes, PTL
-----------------------------------------------------------------------------
(* One processor, and no exits but the ends of the programs *)

LEMMA AntesSinExits ==
  ASSUME TypeOK, [Next]_vars, UnoSinExits'
  PROVE  UnoSinExits
PROOF
<1> USE DEF sockets, clientes, conexiones, salidas, memoria, kernel, ajenos,
            UnoSinExits
<1>1. CASE PasoComun
  BY <1>1 DEF PasoComun, ConectaMemoria, Memoria, SalidaNadie, vars
<1>2. ASSUME NEW c \in Carpinchos, PasoDe(c)
      PROVE  UnoSinExits
<2>1. CASE MateInit(c)
    BY <2>1 DEF MateInit
<2>2. CASE Llama(c)
    BY <2>2 DEF Llama
<2>3. CASE Gira(c)
    BY <2>3 DEF Gira
<2>4. CASE Recibe(c)
    BY <2>4 DEF Recibe
<2>5. CASE MateClose(c)
    BY <2>5 DEF MateClose, Cierra
<2>6. CASE Muere(c)
    BY <2>6 DEF Muere, Cierra
<2>7. CASE Acepta(c)
    BY <2>7 DEF Acepta
<2>8. CASE AtiendeNuevo(c)
    BY <2>8 DEF AtiendeNuevo
<2>9. CASE AtiendeTarea(c)
    BY <2>9 DEF AtiendeTarea
<2>10. CASE AtiendeDesconexion(c)
    BY <2>10 DEF AtiendeDesconexion
<2>11. CASE Despacha(c)
    BY <2>11 DEF Despacha
<2>12. CASE ExecEmpieza(c)
    BY <2>12 DEF ExecEmpieza
<2>12b. CASE NoEmpieza(c)
    BY <2>12b DEF NoEmpieza
<2>13. CASE ExecToma(c)
    BY <2>13 DEF ExecToma
<2>14. CASE ExecConfirma(c)
    BY <2>14 DEF ExecConfirma
<2>15. CASE ExecEspera(c)
    BY <2>15 DEF ExecEspera
<2>16. CASE ExecSinSemaforo(c)
    BY <2>16 DEF ExecSinSemaforo
<2>17. CASE ExecBloquea(c)
    BY <2>17 DEF ExecBloquea
<2>18. CASE Despierta(c)
    BY <2>18 DEF Despierta
<2>19. CASE ExecPideMemoria(c)
    BY <2>19 DEF ExecPideMemoria
<2>20. CASE ExecSinMemoria(c)
    BY <2>20 DEF ExecSinMemoria
<2>21. CASE ExecLeeCodigo(c)
    BY <2>21 DEF ExecLeeCodigo
<2>22. CASE ExecLeeResto(c)
    BY <2>22 DEF ExecLeeResto
<2>23. CASE EligeVictima(c)
    BY <2>23 DEF EligeVictima
<2>24. CASE SalidaMueve(c)
    BY <2>24 DEF SalidaMueve
<2>25. CASE MemoriaAtiende(c)
    BY <2>25 DEF MemoriaAtiende
<2>26. CASE saliendo = c /\ SalidaAvisa
    BY <2>26 DEF SalidaAvisa
<2> QED
  BY <2>1, <2>2, <2>3, <2>4, <2>5, <2>6, <2>7, <2>8, <2>9, <2>10, <2>11,
     <2>12, <2>12b, <2>13, <2>14, <2>15, <2>16, <2>17, <2>18, <2>19, <2>20,
     <2>21, <2>22, <2>23, <2>24, <2>25, <2>26, <1>2
     DEF PasoDe, Cliente, Exec, Atiende
<1> QED
  BY <1>1, <1>2, Pasos

\* A victim of the detector, or who was killed, is not in this case
LEMMA SinVictimas ==
  ASSUME NEW c \in Carpinchos, UnoSinExits'
  PROVE  ~Muere(c) /\ ~EligeVictima(c)
BY DEF UnoSinExits, Muere, EligeVictima

\* A relay is done while its carpincho is in lista_exec
LEMMA RelevoPropio ==
  ASSUME TypeOK, UnSoloExec, Relevo, NEW c \in Carpinchos,
         exec[c].pc = "lee_resto", de_memoria # <<>>
  PROVE  /\ lista[c] = "exec" /\ Head(de_memoria).de = c
         /\ Head(de_memoria).n = pedidos[c]
         /\ a_memoria = <<>> /\ Tail(de_memoria) = <<>>
PROOF
<1>1. /\ EnRelevo(c) /\ lista[c] = "exec"
      /\ Len(a_memoria) + Len(de_memoria) <= 1
  BY DEF Relevo, EnRelevo
<1>2. PICK x \in Nat, y \in Nat : x = Len(a_memoria) /\ y = Len(de_memoria)
                                    /\ a_memoria \in Seq(Relevos)
                                    /\ de_memoria \in Seq(Relevos)
  BY DEF TypeOK
<1>3. y # 0
  BY <1>2
<1>4. x = 0 /\ y = 1
  BY <1>1, <1>2, <1>3
<1>5. a_memoria = <<>>
  <2>1. \A q \in Seq(Relevos) : Len(q) = 0 => q = <<>>
    OBVIOUS
  <2> QED
    BY <1>2, <1>4, <2>1
<1>6. Tail(de_memoria) = <<>>
  BY <1>2, <1>4, TailDeUno
<1>7. 1 \in DOMAIN de_memoria /\ de_memoria[1] = Head(de_memoria)
      /\ Head(de_memoria) \in Relevos
  BY <1>2, TrasTail
<1>8. PICK r \in Relevos : r = de_memoria[1]
  BY <1>7
<1>9. EnRelevo(r.de) /\ r.n = pedidos[r.de] /\ r.de \in Carpinchos
  BY <1>7, <1>8 DEF Relevo, Relevos
<1>10. r.de = c
  BY <1>1, <1>9 DEF Relevo, UnSoloExec
<1> QED
  BY <1>1, <1>5, <1>6, <1>7, <1>8, <1>9, <1>10

LEMMA PropiaInductiva ==
  ASSUME IInv, Cierres, UnSoloExec, Propias, caido = "no" => Relevo,
         UnoSinExits, UnoSinExits', NEW c \in Carpinchos, PasoDe(c)
  PROVE  Propia(c)'
PROOF
<1> USE DEF sockets, clientes, conexiones, salidas, memoria, kernel, ajenos
<1>t. /\ TypeOK /\ Etapas /\ Enviados /\ Hilos /\ EnOrden
      /\ Hilo(c) /\ Etapa(c) /\ Enviado(c)
  BY DEF IInv, Hilos, Etapas, Enviados
<1> /\ TypeOK /\ Etapas /\ Enviados /\ Hilos
    /\ Hilo(c) /\ Etapa(c) /\ Enviado(c)
  BY <1>t
<1>p. Propia(c)
  BY DEF Propias
<1>o. caido = "no" /\ lista[c] # "exit" =>
        Cuenta(c) /\ Numeros(c) /\ SinMasPedidos(c)
  BY <1>t DEF EnOrden, Orden
<1>l. desde[c] \in Seq(Paquetes) /\ hacia[c] \in Seq(Paquetes)
  BY DEF TypeOK
<1>a. ASSUME cliente'[c].pc = cliente[c].pc, desde'[c] = desde[c],
             pedidos'[c] = pedidos[c],
             c \in salida_exit' => c \in salida_exit,
             lista'[c] = "exit" => exec'[c].pc \notin Envian
      PROVE  Propia(c)'
  BY <1>a, <1>p DEF Propia
<1>e. ASSUME caido = "no", exec[c].pc \in Envian, exec'[c].pc \notin Envian,
             lista' = lista, cliente' = cliente, pedidos' = pedidos,
             hacia' = hacia, task_list' = task_list,
             salida_exit' = salida_exit, ~Toca(c)',
             NEW cod, NEW n, Envia(c, cod, n),
             cod = "OP_ERROR" \/ n = pedidos[c]
      PROVE  Propia(c)'
  <2>1. lista[c] # "exit" /\ Toca(c)
    BY <1>e, <1>p DEF Propia, Toca, Debe, SinHilo, Envian, Activo
  <2>2. CASE cliente[c].pc = "fin"
    <3>1. conexion[c] # "abierta"
      BY <2>2 DEF Etapa, Cerrada
    <3>2. desde'[c] = desde[c]
      BY <1>e, <3>1, EnviaEfecto
    <3> QED
      BY <1>a, <1>e, <3>2
  <2>3. CASE cliente[c].pc # "fin"
    <3>1. cliente[c].pc = "espera" /\ desde[c] = <<>>
      BY <1>e, <1>o, <2>1, <2>3, CuentaTrasEnvio
    <3>2. conexion[c] \notin {"cerrada", "reset"}
      BY <2>3 DEF Etapa, Cerrada
    <3>3. desde'[c] = Append(desde[c], Paquete(cod, n))
      BY <1>e, <3>2, EnviaEfecto
    <3>4. Len(desde'[c]) = 1
          /\ \A i \in DOMAIN desde'[c] : desde'[c][i] = Paquete(cod, n)
      BY <3>1, <3>3, TrasEnvio, Largos
    <3>5. Uno(cliente'[c].pc = "espera") = 1
      BY <1>e, <3>1 DEF Uno
    <3> QED
      BY <1>e, <1>p, <3>4, <3>5 DEF Propia, Paquete
  <2> QED
    BY <2>2, <2>3
<1>1. CASE MateInit(c)
    <2>1. /\ cliente'[c].pc = "espera" /\ cliente[c].pc = "afuera"
          /\ desde[c] = <<>> /\ desde' = desde /\ exec' = exec /\ lista' = lista
          /\ salida_exit' = salida_exit
      BY <1>1 DEF MateInit, Pide, Etapa, TypeOK
    <2>2. Len(desde'[c]) = 0 /\ DOMAIN desde'[c] = {}
          /\ Uno(cliente'[c].pc = "espera") = 1
      BY <2>1, Largos DEF Uno
    <2> QED
      BY <1>p, <2>1, <2>2 DEF Propia
<1>2. CASE Llama(c)
    <2>1. /\ cliente'[c].pc = "espera" /\ cliente[c].pc = "corre"
          /\ desde' = desde /\ exec' = exec /\ lista' = lista
          /\ salida_exit' = salida_exit
      BY <1>2 DEF Llama, Pide, TypeOK
    <2>2. desde[c] = <<>>
      <3>1. Uno(cliente[c].pc = "espera") = 0
        BY <2>1 DEF Uno
      <3>2. Len(desde[c]) <= 0 /\ Len(desde[c]) \in Nat
        BY <1>l, <1>p, <2>1, <3>1 DEF Propia
      <3> QED
        BY <1>l, <3>2
    <2>3. Len(desde'[c]) = 0 /\ DOMAIN desde'[c] = {}
          /\ Uno(cliente'[c].pc = "espera") = 1
      BY <2>1, <2>2, Largos DEF Uno
    <2> QED
      BY <1>p, <2>1, <2>3 DEF Propia
<1>3. CASE Gira(c)
    <2>1. /\ cliente'[c].pc = "gira" /\ cliente[c].pc = "corre"
          /\ desde' = desde /\ exec' = exec /\ lista' = lista
          /\ salida_exit' = salida_exit /\ pedidos' = pedidos
      BY <1>3 DEF Gira, TypeOK
    <2>2. Uno(cliente'[c].pc = "espera") = Uno(cliente[c].pc = "espera")
      BY <2>1 DEF Uno
    <2> QED
      BY <1>p, <2>1, <2>2 DEF Propia
<1>4. CASE Recibe(c)
    <2>1. /\ cliente'[c].pc = "corre" /\ cliente[c].pc = "espera"
          /\ exec' = exec /\ lista' = lista
          /\ salida_exit' = salida_exit /\ pedidos' = pedidos
      BY <1>4 DEF Recibe, Recibido, TypeOK
    <2>2. /\ Uno(cliente[c].pc = "espera") = 1
          /\ Uno(cliente'[c].pc = "espera") = 0
      BY <2>1 DEF Uno
    <2>3. CASE desde[c] = <<>>
      <3>1. desde'[c] = desde[c]
        BY <1>4, <2>3 DEF Recibe
      <3> QED
        BY <1>p, <2>1, <2>2, <2>3, <3>1, Largos DEF Propia
    <2>4. CASE desde[c] # <<>>
      <3>1. desde'[c] = Tail(desde[c])
        BY <1>4, <2>4 DEF Recibe, TypeOK
      <3>2. /\ Len(desde[c]) \in Nat /\ Len(desde'[c]) = Len(desde[c]) - 1
            /\ \A i \in DOMAIN desde'[c] :
                 i + 1 \in DOMAIN desde[c] /\ desde'[c][i] = desde[c][i + 1]
        BY <1>l, <2>4, <3>1, TrasTail
      <3>3. Len(desde[c]) <= 1
        BY <1>p, <2>1, <2>2 DEF Propia
      <3>4. Len(desde'[c]) <= 0
        BY <3>2, <3>3
      <3> QED
        BY <1>p, <2>1, <2>2, <3>2, <3>4 DEF Propia
    <2> QED
      BY <2>3, <2>4
<1>5. CASE MateClose(c)
    <2>1. /\ cliente'[c].pc = "fin" /\ desde' = desde /\ exec' = exec
          /\ lista' = lista /\ salida_exit' = salida_exit /\ pedidos' = pedidos
      BY <1>5 DEF MateClose, Cierra, TypeOK
    <2> QED
      BY <1>p, <2>1 DEF Propia
<1>6. CASE Muere(c)
  BY <1>6, SinVictimas
<1>7. CASE Acepta(c)
    <2>1. lista' = lista /\ exec' = exec
      BY <1>7 DEF Acepta
    <2> QED
      BY <1>7, <1>a, <1>p, <2>1 DEF Acepta, Propia
<1>8. CASE AtiendeNuevo(c)
    <2>1. lista'[c] = "ready"
      BY <1>8 DEF AtiendeNuevo, TypeOK
    <2> QED
      BY <1>8, <1>a, <2>1 DEF AtiendeNuevo
<1>9. CASE AtiendeTarea(c)
    <2>1. lista' = lista /\ exec' = exec
      BY <1>9 DEF AtiendeTarea
    <2> QED
      BY <1>9, <1>a, <1>p, <2>1 DEF AtiendeTarea, Propia
<1>10. CASE AtiendeDesconexion(c)
    <2>1. cliente[c].pc = "fin"
      <3>1. CASE hacia[c] = <<>>
        BY <1>10, <3>1 DEF AtiendeDesconexion, Lee, Etapa
      <3>2. CASE hacia[c] # <<>>
        <4>1. 1 \in DOMAIN hacia[c] /\ hacia[c][1] = Head(hacia[c])
          BY <1>l, <3>2, TrasTail
        <4> QED
          BY <1>10, <3>2, <4>1 DEF AtiendeDesconexion, Lee, Enviado
      <3> QED
        BY <3>1, <3>2
    <2>2. /\ cliente' = cliente /\ desde' = desde /\ pedidos' = pedidos
          /\ lista' = lista /\ exec' = exec
      BY <1>10 DEF AtiendeDesconexion
    <2> QED
      BY <1>p, <2>1, <2>2 DEF Propia
<1>11. CASE Despacha(c)
    <2>1. lista'[c] = "exec"
      BY <1>11 DEF Despacha, TypeOK
    <2> QED
      BY <1>11, <1>a, <2>1 DEF Despacha
<1>12. CASE ExecEmpieza(c)
    <2>1. /\ exec[c].pc = "empieza" /\ exec'[c].pc = "mira" /\ caido = "no"
          /\ lista' = lista /\ cliente' = cliente /\ pedidos' = pedidos
          /\ hacia' = hacia /\ task_list' = task_list
          /\ salida_exit' = salida_exit
      BY <1>12 DEF ExecEmpieza, EnHilo, EnKernel, Pasa, TypeOK
    <2>2. exec[c].pc \in Envian /\ exec'[c].pc \notin Envian
          /\ ~Toca(c)' /\ Toca(c)
      BY <2>1 DEF Envian, Activo, Toca, Debe, SinHilo
    <2>3. lista[c] # "exit"
      BY <1>p, <2>2 DEF Propia
    <2>4. exec[c].task.n = pedidos[c]
      BY <1>o, <2>1, <2>2, <2>3 DEF Numeros
    <2>5. Envia(c, "OP_CONFIRMADA", pedidos[c])
      BY <1>12, <2>4 DEF ExecEmpieza
    <2> QED
      BY <1>e, <2>1, <2>2, <2>5
<1>12b. CASE NoEmpieza(c)
    <2>1. exec[c].pc = "empieza" /\ lista' = lista
      BY <1>12b DEF NoEmpieza, EnHilo
    <2>2. lista[c] # "exit"
      BY <1>p, <2>1 DEF Propia, Envian, Activo
    <2> QED
      BY <1>12b, <1>a, <2>1, <2>2 DEF NoEmpieza
<1>13. CASE ExecToma(c)
    <2>1. /\ task_list[c] # <<>> /\ exec[c].pc = "mira" /\ lista' = lista
      BY <1>13 DEF ExecToma, EnHilo
    <2>2. lista[c] = "exit" => exec'[c].pc = "fuera"
      <3>1. SUFFICES ASSUME lista[c] = "exit" PROVE exec'[c].pc = "fuera"
        OBVIOUS
      <3>2. task_list[c][1] = Desconexion /\ task_list[c] \in Seq(Paquetes)
        BY <2>1, <3>1 DEF Hilo, Activo, TypeOK
      <3>3. Head(task_list[c]) = Desconexion
        BY <2>1, <3>2, TrasTail
      <3> QED
        BY <1>13, <3>3 DEF ExecToma, TypeOK
    <2> QED
      BY <1>13, <1>a, <2>1, <2>2 DEF ExecToma, Envian, Activo
<1>14. CASE ExecConfirma(c)
    <2>1. /\ exec[c].pc = "hace" /\ exec'[c].pc = "mira" /\ caido = "no"
          /\ lista' = lista /\ cliente' = cliente /\ pedidos' = pedidos
          /\ hacia' = hacia /\ task_list' = task_list
          /\ salida_exit' = salida_exit
      BY <1>14 DEF ExecConfirma, EnHilo, EnKernel, Pasa, TypeOK
    <2>2. exec[c].pc \in Envian /\ exec'[c].pc \notin Envian
          /\ ~Toca(c)' /\ Toca(c)
      BY <2>1 DEF Envian, Activo, Toca, Debe, SinHilo
    <2>3. lista[c] # "exit"
      BY <1>p, <2>2 DEF Propia
    <2>4. exec[c].task.n = pedidos[c]
      BY <1>o, <2>1, <2>2, <2>3 DEF Numeros
    <2>5. Envia(c, "OP_CONFIRMADA", pedidos[c])
      BY <1>14, <2>4 DEF ExecConfirma
    <2> QED
      BY <1>e, <2>1, <2>2, <2>5
<1>15. CASE ExecEspera(c)
    <2>1. exec[c].pc = "hace" /\ lista' = lista
      BY <1>15 DEF ExecEspera, EnHilo
    <2>2. lista[c] # "exit"
      BY <1>p, <2>1 DEF Propia, Envian, Activo
    <2> QED
      BY <1>15, <1>a, <2>1, <2>2 DEF ExecEspera
<1>16. CASE ExecSinSemaforo(c)
    <2>1. /\ exec[c].pc = "hace" /\ exec'[c].pc = "sin_semaforo" /\ caido = "no"
          /\ lista' = lista /\ cliente' = cliente /\ pedidos' = pedidos
          /\ hacia' = hacia /\ task_list' = task_list
          /\ salida_exit' = salida_exit
      BY <1>16 DEF ExecSinSemaforo, EnHilo, EnKernel, Pasa, TypeOK
    <2>2. exec[c].pc \in Envian /\ exec'[c].pc \notin Envian
          /\ ~Toca(c)' /\ Toca(c)
      BY <2>1 DEF Envian, Activo, Toca, Debe, SinHilo
    <2>3. lista[c] # "exit"
      BY <1>p, <2>2 DEF Propia
    <2>4. Envia(c, "OP_ERROR", exec[c].task.n)
      BY <1>16 DEF ExecSinSemaforo
    <2> QED
      BY <1>e, <2>1, <2>2, <2>4
<1>17. CASE ExecBloquea(c)
    <2>1. exec'[c].pc \in {"fuera", "colgado"}
      BY <1>17 DEF ExecBloquea, Pasa, TypeOK
    <2> QED
      BY <1>17, <1>a, <2>1 DEF ExecBloquea, Envian, Activo
<1>18. CASE Despierta(c)
    <2>1. lista'[c] = "ready"
      BY <1>18 DEF Despierta, TypeOK
    <2> QED
      BY <1>18, <1>a, <2>1 DEF Despierta
<1>19. CASE ExecPideMemoria(c)
    <2>1. exec[c].pc = "hace" /\ lista' = lista
      BY <1>19 DEF ExecPideMemoria, EnHilo
    <2>2. lista[c] # "exit"
      BY <1>p, <2>1 DEF Propia, Envian, Activo
    <2> QED
      BY <1>19, <1>a, <2>1, <2>2 DEF ExecPideMemoria
<1>20. CASE ExecSinMemoria(c)
    <2>1. /\ exec[c].pc = "lee_codigo" /\ exec'[c].pc = "mira" /\ caido = "no"
          /\ lista' = lista /\ cliente' = cliente /\ pedidos' = pedidos
          /\ hacia' = hacia /\ task_list' = task_list
          /\ salida_exit' = salida_exit
      BY <1>20 DEF ExecSinMemoria, EnHilo, EnKernel, Pasa, TypeOK
    <2>2. exec[c].pc \in Envian /\ exec'[c].pc \notin Envian
          /\ ~Toca(c)' /\ Toca(c)
      BY <2>1 DEF Envian, Activo, Toca, Debe, SinHilo
    <2>3. lista[c] # "exit"
      BY <1>p, <2>2 DEF Propia
    <2>4. exec[c].task.n = pedidos[c]
      BY <1>o, <2>1, <2>2, <2>3 DEF Numeros
    <2>5. Envia(c, "CLIENTE_DESCONECTADO", pedidos[c])
      BY <1>20, <2>4 DEF ExecSinMemoria
    <2> QED
      BY <1>e, <2>1, <2>2, <2>5
<1>21. CASE ExecLeeCodigo(c)
    <2>1. exec[c].pc = "lee_codigo" /\ lista' = lista
      BY <1>21 DEF ExecLeeCodigo, EnHilo
    <2>2. lista[c] # "exit"
      BY <1>p, <2>1 DEF Propia, Envian, Activo
    <2> QED
      BY <1>21, <1>a, <2>1, <2>2 DEF ExecLeeCodigo
<1>22. CASE ExecLeeResto(c)
    <2>1. /\ exec[c].pc = "lee_resto" /\ exec'[c].pc = "mira" /\ caido = "no"
          /\ lista' = lista /\ cliente' = cliente /\ pedidos' = pedidos
          /\ hacia' = hacia /\ task_list' = task_list
          /\ salida_exit' = salida_exit
      BY <1>22 DEF ExecLeeResto, EnHilo, EnKernel, Pasa, TypeOK
    <2>2. exec[c].pc \in Envian /\ exec'[c].pc \notin Envian
          /\ ~Toca(c)' /\ Toca(c)
      BY <2>1 DEF Envian, Activo, Toca, Debe, SinHilo
    <2>3. lista[c] # "exit"
      BY <1>p, <2>2 DEF Propia
    <2>4. PICK r : r = Head(de_memoria)
      OBVIOUS
    <2>5. r.de = c /\ r.n = pedidos[c]
      <3>1. de_memoria # <<>>
        BY <2>1 DEF Hilos
      <3> QED
        BY <2>1, <2>4, <3>1, RelevoPropio
    <2>6. Envia(c, r.cod, pedidos[c])
      BY <1>22, <2>4, <2>5 DEF ExecLeeResto
    <2> QED
      BY <1>e, <2>1, <2>2, <2>6
<1>23. CASE EligeVictima(c)
  BY <1>23, SinVictimas
<1>24. CASE SalidaMueve(c)
    <2>1. /\ lista[c] # "exit" /\ c \in salida_exit /\ exec' = exec
          /\ caido = "no" /\ ConKernel
      BY <1>24 DEF SalidaMueve, Marcados, EnKernel
    <2>2. cliente[c].pc = "fin"
      BY <1>p, <2>1 DEF Propia
    <2>3. exec[c].pc \notin Envian
      BY <2>1, <2>2, FinSinDeuda
    <2> QED
      BY <1>24, <1>a, <2>1, <2>3 DEF SalidaMueve
<1>25. CASE MemoriaAtiende(c)
    <2>1. PICK cod : Envia(c, cod, pedidos[c])
      BY <1>25 DEF MemoriaAtiende
    <2>2. /\ lista[c] = "ninguna" /\ caido = "no" /\ lista' = lista
          /\ pedidos' = pedidos /\ cliente' = cliente /\ exec' = exec
          /\ salida_exit' = salida_exit
          /\ hacia[c] = <<>> => cliente[c].pc = "fin"
      BY <1>25 DEF MemoriaAtiende, Etapa, Lee
    <2>3. CASE cliente[c].pc = "fin"
      <3>1. conexion[c] # "abierta"
        BY <2>3 DEF Etapa, Cerrada
      <3>2. desde'[c] = desde[c]
        BY <2>1, <3>1, EnviaEfecto
      <3> QED
        BY <1>a, <2>2, <3>2
    <2>4. CASE cliente[c].pc # "fin"
      <3>1. cliente[c].pc = "espera" /\ desde[c] = <<>>
        BY <1>o, <2>2, <2>4, UnoPorVez
      <3>2. conexion[c] \notin {"cerrada", "reset"}
        BY <2>4 DEF Etapa, Cerrada
      <3>3. desde'[c] = Append(desde[c], Paquete(cod, pedidos[c]))
        BY <2>1, <3>2, EnviaEfecto
      <3>4. /\ Len(desde'[c]) = 1
            /\ \A i \in DOMAIN desde'[c] : desde'[c][i] = Paquete(cod, pedidos[c])
        BY <3>1, <3>3, TrasEnvio, Largos
      <3>5. Uno(cliente'[c].pc = "espera") = 1
        BY <2>2, <3>1 DEF Uno
      <3> QED
        BY <1>p, <2>2, <3>4, <3>5 DEF Propia, Paquete
    <2> QED
      BY <2>3, <2>4
<1>26. CASE saliendo = c /\ SalidaAvisa
    <2>1. /\ lista[c] = "exit" /\ lista' = lista /\ cliente' = cliente
          /\ exec' = exec /\ pedidos' = pedidos /\ salida_exit' = salida_exit
      BY <1>26, ConstantesTipadas DEF SalidaAvisa, Hilos
    <2>2. cliente[c].pc = "fin"
      BY <1>p, <2>1 DEF Propia, Etapa
    <2>3. conexion[c] # "abierta"
      BY <2>2 DEF Etapa, Cerrada
    <2>4. desde'[c] = desde[c]
      BY <1>26, <2>3, QuienEnvia, EnviaEfecto
    <2> QED
      BY <1>a, <1>p, <2>1, <2>4 DEF Propia
<1> QED
  BY <1>1, <1>2, <1>3, <1>4, <1>5, <1>6, <1>7, <1>8, <1>9, <1>10, <1>11,
     <1>12, <1>12b, <1>13, <1>14, <1>15, <1>16, <1>17, <1>18, <1>19, <1>20,
     <1>21, <1>22, <1>23, <1>24, <1>25, <1>26
     DEF PasoDe, Cliente, Exec, Atiende

\* Who gets a processor, gets the only one
LEMMA UnSoloExecInductivo ==
  ASSUME TypeOK, UnSoloExec, escenario.procesadores = 1,
         NEW c \in Carpinchos, PasoDe(c)
  PROVE  UnSoloExec'
PROOF
<1> USE DEF sockets, clientes, conexiones, salidas, memoria, kernel, ajenos
<1>1. CASE Despacha(c)
  <2>1. \A d \in Carpinchos : lista[d] # "exec"
    <3>1. SUFFICES ASSUME NEW d \in Carpinchos, lista[d] = "exec"
                   PROVE  FALSE
      OBVIOUS
    <3>2. {e \in Carpinchos : lista[e] = "exec"} = {d}
      BY <3>1 DEF UnSoloExec
    <3>3. Cardinality({d}) = 1
      BY FS_Singleton
    <3>4. Cardinality({e \in Carpinchos : lista[e] = "exec"}) < 1
      BY <1>1 DEF Despacha, HayProcesador
    <3> QED
      BY <3>2, <3>3, <3>4
  <2> QED
    BY <1>1, <2>1 DEF Despacha, UnSoloExec, TypeOK
<1>2. CASE ~Despacha(c)
  <2>1. \A d \in Carpinchos : lista'[d] = "exec" => lista[d] = "exec"
    <3>1. \A d \in Carpinchos : d # c => lista'[d] = lista[d]
      BY IgualesLosDemas DEF Igual
    <3>2. lista'[c] = "exec" => lista[c] = "exec"
<4>1. CASE MateInit(c)
    BY <4>1 DEF MateInit
<4>2. CASE Llama(c)
    BY <4>2 DEF Llama
<4>3. CASE Gira(c)
    BY <4>3 DEF Gira
<4>4. CASE Recibe(c)
    BY <4>4 DEF Recibe
<4>5. CASE MateClose(c)
    BY <4>5 DEF MateClose, Cierra
<4>6. CASE Muere(c)
    BY <4>6 DEF Muere, Cierra
<4>7. CASE Acepta(c)
    BY <4>7 DEF Acepta
<4>8. CASE AtiendeNuevo(c)
  BY <4>8 DEF AtiendeNuevo, TypeOK
<4>9. CASE AtiendeTarea(c)
    BY <4>9 DEF AtiendeTarea
<4>10. CASE AtiendeDesconexion(c)
    BY <4>10 DEF AtiendeDesconexion
<4>11. CASE Despacha(c)
  BY <4>11, <1>2
<4>12. CASE ExecEmpieza(c)
    BY <4>12 DEF ExecEmpieza
<4>12b. CASE NoEmpieza(c)
    BY <4>12b DEF NoEmpieza
<4>13. CASE ExecToma(c)
    BY <4>13 DEF ExecToma
<4>14. CASE ExecConfirma(c)
    BY <4>14 DEF ExecConfirma
<4>15. CASE ExecEspera(c)
    BY <4>15 DEF ExecEspera
<4>16. CASE ExecSinSemaforo(c)
    BY <4>16 DEF ExecSinSemaforo
<4>17. CASE ExecBloquea(c)
  BY <4>17 DEF ExecBloquea, TypeOK
<4>18. CASE Despierta(c)
  BY <4>18 DEF Despierta, TypeOK
<4>19. CASE ExecPideMemoria(c)
    BY <4>19 DEF ExecPideMemoria
<4>20. CASE ExecSinMemoria(c)
    BY <4>20 DEF ExecSinMemoria
<4>21. CASE ExecLeeCodigo(c)
    BY <4>21 DEF ExecLeeCodigo
<4>22. CASE ExecLeeResto(c)
    BY <4>22 DEF ExecLeeResto
<4>23. CASE EligeVictima(c)
    BY <4>23 DEF EligeVictima
<4>24. CASE SalidaMueve(c)
  BY <4>24 DEF SalidaMueve, TypeOK
<4>25. CASE MemoriaAtiende(c)
    BY <4>25 DEF MemoriaAtiende
<4>26. CASE saliendo = c /\ SalidaAvisa
    BY <4>26 DEF SalidaAvisa
<4> QED
  BY <4>1, <4>2, <4>3, <4>4, <4>5, <4>6, <4>7, <4>8, <4>9, <4>10, <4>11,
     <4>12, <4>12b, <4>13, <4>14, <4>15, <4>16, <4>17, <4>18, <4>19, <4>20,
     <4>21, <4>22, <4>23, <4>24, <4>25, <4>26
     DEF PasoDe, Cliente, Exec, Atiende
    <3> QED
      BY <3>1, <3>2
  <2> QED
    BY <2>1 DEF UnSoloExec
<1> QED
  BY <1>1, <1>2

\* Only one talks to memoria, so no packet is read in two parts
LEMMA SinCruce ==
  ASSUME IInv, UnSoloExec, caido = "no" => Relevo, caido # "cruce",
         NEW c \in Carpinchos, PasoDe(c)
  PROVE  caido' # "cruce"
PROOF
<1> USE DEF sockets, clientes, conexiones, salidas, memoria, kernel, ajenos
<1> TypeOK /\ Hilos BY DEF IInv
<1>e. ASSUME NEW cod, NEW n, Envia(c, cod, n)
      PROVE  caido' # "cruce"
  BY <1>e, EnviaEfecto, ConstantesTipadas
<1>1. CASE MateInit(c)
  BY <1>1 DEF MateInit
<1>2. CASE Llama(c)
  BY <1>2 DEF Llama
<1>3. CASE Gira(c)
  BY <1>3 DEF Gira
<1>4. CASE Recibe(c)
  BY <1>4 DEF Recibe
<1>5. CASE MateClose(c)
    BY <1>5 DEF MateClose, Cierra
<1>6. CASE Muere(c)
    BY <1>6 DEF Muere, Cierra
<1>7. CASE Acepta(c)
  BY <1>7 DEF Acepta
<1>8. CASE AtiendeNuevo(c)
  BY <1>8 DEF AtiendeNuevo
<1>9. CASE AtiendeTarea(c)
  BY <1>9 DEF AtiendeTarea
<1>10. CASE AtiendeDesconexion(c)
  BY <1>10 DEF AtiendeDesconexion
<1>11. CASE Despacha(c)
  BY <1>11 DEF Despacha
<1>12. CASE ExecEmpieza(c)
  BY <1>12, <1>e, QuienEnvia
<1>12b. CASE NoEmpieza(c)
  BY <1>12b DEF NoEmpieza
<1>13. CASE ExecToma(c)
  BY <1>13 DEF ExecToma
<1>14. CASE ExecConfirma(c)
  BY <1>14, <1>e, QuienEnvia
<1>15. CASE ExecEspera(c)
  BY <1>15 DEF ExecEspera
<1>16. CASE ExecSinSemaforo(c)
  BY <1>16, <1>e, QuienEnvia
<1>17. CASE ExecBloquea(c)
  BY <1>17 DEF ExecBloquea
<1>18. CASE Despierta(c)
  BY <1>18 DEF Despierta
<1>19. CASE ExecPideMemoria(c)
  BY <1>19 DEF ExecPideMemoria
<1>20. CASE ExecSinMemoria(c)
  BY <1>20, <1>e, QuienEnvia
<1>21. CASE ExecLeeCodigo(c)
    <2>1. a_medias = Nadie
      <3>1. SUFFICES ASSUME a_medias # Nadie PROVE FALSE
        OBVIOUS
      <3>2. PICK d \in Carpinchos : d = a_medias /\ exec[d].pc = "lee_resto"
        BY <3>1 DEF Hilos, TypeOK
      <3>3. exec[c].pc = "lee_codigo" /\ caido = "no"
        BY <1>21 DEF ExecLeeCodigo, EnHilo, EnKernel
      <3>4. lista[c] = "exec" /\ lista[d] = "exec"
        BY <3>2, <3>3 DEF Relevo, EnRelevo
      <3> QED
        BY <3>2, <3>3, <3>4 DEF UnSoloExec
    <2> QED
      BY <1>21, <2>1 DEF ExecLeeCodigo
<1>22. CASE ExecLeeResto(c)
  BY <1>22, <1>e, QuienEnvia
<1>23. CASE EligeVictima(c)
  BY <1>23 DEF EligeVictima
<1>24. CASE SalidaMueve(c)
  BY <1>24 DEF SalidaMueve
<1>25. CASE MemoriaAtiende(c)
  BY <1>25, <1>e, QuienEnvia
<1>26. CASE saliendo = c /\ SalidaAvisa
  BY <1>26, <1>e, QuienEnvia
<1> QED
  BY <1>1, <1>2, <1>3, <1>4, <1>5, <1>6, <1>7, <1>8, <1>9, <1>10, <1>11,
     <1>12, <1>12b, <1>13, <1>14, <1>15, <1>16, <1>17, <1>18, <1>19, <1>20,
     <1>21, <1>22, <1>23, <1>24, <1>25, <1>26
     DEF PasoDe, Cliente, Exec, Atiende

\* A packet to or from memoria is a carpincho's
LEMMA DeQuienEs ==
  ASSUME NEW s \in Seq(Relevos)
  PROVE  \A i \in DOMAIN s : s[i] \in Relevos /\ s[i].de \in Carpinchos
PROOF
<1>1. \A i \in DOMAIN s : s[i] \in Relevos
  OBVIOUS
<1>2. \A r \in Relevos : r.de \in Carpinchos
  BY DEF Relevos
<1> QED
  BY <1>1, <1>2

\* What is under way to memoria and back, step by step
LEMMA RelevoInductivo ==
  ASSUME IInv, IInv', UnSoloExec, Propias, caido = "no", Relevo,
         NEW c \in Carpinchos, PasoDe(c), ~SalidaMueve(c) \/ ~EnRelevo(c)
  PROVE  Relevo'
PROOF
<1> USE DEF sockets, clientes, conexiones, salidas, memoria, kernel, ajenos
<1>t. /\ TypeOK /\ Etapas /\ Enviados /\ Hilos /\ EnOrden
      /\ Hilo(c) /\ Etapa(c) /\ TypeOK'
  BY DEF IInv, Hilos, Etapas
<1> /\ TypeOK /\ Etapas /\ Enviados /\ Hilos /\ Hilo(c) /\ Etapa(c)
  BY <1>t
<1>m. /\ a_memoria \in Seq(Relevos) /\ de_memoria \in Seq(Relevos)
      /\ \A i \in DOMAIN a_memoria : a_memoria[i].de \in Carpinchos
      /\ \A i \in DOMAIN de_memoria : de_memoria[i].de \in Carpinchos
  <2>1. a_memoria \in Seq(Relevos) /\ de_memoria \in Seq(Relevos)
    BY DEF TypeOK
  <2> QED
    BY <2>1, DeQuienEs
<1>i. \A d \in Carpinchos : d # c =>
        lista'[d] = lista[d] /\ exec'[d] = exec[d] /\ pedidos'[d] = pedidos[d]
  BY IgualesLosDemas DEF Igual
<1>a. ASSUME a_memoria' = a_memoria, de_memoria' = de_memoria,
             con_memoria' = con_memoria,
             EnRelevo(c)' <=> EnRelevo(c),
             EnRelevo(c) => lista'[c] = lista[c] /\ pedidos'[c] = pedidos[c]
      PROVE  Relevo'
  <2>1. \A d \in Carpinchos :
          /\ EnRelevo(d)' <=> EnRelevo(d)
          /\ EnRelevo(d) => lista'[d] = lista[d] /\ pedidos'[d] = pedidos[d]
    BY <1>a, <1>i DEF EnRelevo
  <2> QED
    BY <1>a, <1>m, <2>1 DEF Relevo
<1>b. ASSUME a_memoria' = a_memoria, de_memoria' = de_memoria,
             con_memoria' = con_memoria,
             ~EnRelevo(c)', ~EnRelevo(c)
      PROVE  Relevo'
  BY <1>a, <1>b
<1>1. CASE MateInit(c)
    <2>1. pedidos'[c] = pedidos[c]
      BY <1>1 DEF MateInit, Pide, Etapa, TypeOK
    <2> QED
      BY <1>1, <1>a, <2>1 DEF MateInit, EnRelevo
<1>2. CASE Llama(c)
    <2>1. ~EnRelevo(c)
      <3>1. SUFFICES ASSUME EnRelevo(c) PROVE FALSE
        OBVIOUS
      <3>2. lista[c] = "exec" /\ Toca(c)
        BY <3>1 DEF Relevo, EnRelevo, Toca, Debe, SinHilo
      <3>3. Cuenta(c)
        BY <1>t, <3>2 DEF EnOrden, Orden
      <3> QED
        BY <1>2, <3>2, <3>3, UnoPorVez DEF Llama
    <2> QED
      BY <1>2, <1>b, <2>1 DEF Llama, EnRelevo
<1>3. CASE Gira(c)
    BY <1>3, <1>a DEF Gira, EnRelevo
<1>4. CASE Recibe(c)
    BY <1>4, <1>a DEF Recibe, EnRelevo
<1>5. CASE MateClose(c)
    BY <1>5, <1>a DEF MateClose, Cierra, EnRelevo
<1>6. CASE Muere(c)
    BY <1>6, <1>a DEF Muere, Cierra, EnRelevo
<1>7. CASE Acepta(c)
    BY <1>7, <1>a DEF Acepta, EnRelevo
<1>8. CASE AtiendeNuevo(c)
    <2>1. exec'[c].pc = exec[c].pc /\ lista[c] = "ninguna"
      <3>1. /\ exec' = [exec EXCEPT ![c].task = Head(hacia[c])]
            /\ exec[c].pc = exec[c].pc
        BY <1>8 DEF AtiendeNuevo
      <3>2. lista[c] = "ninguna"
        BY <1>8, RecienEntra DEF Entra
      <3>3. exec'[c].pc = exec[c].pc
        BY <3>1 DEF TypeOK
      <3> QED
        BY <3>2, <3>3
    <2>2. ~EnRelevo(c)
      BY <2>1 DEF Hilo, EnRelevo
    <2> QED
      BY <1>8, <1>b, <2>1, <2>2 DEF AtiendeNuevo, EnRelevo
<1>9. CASE AtiendeTarea(c)
    BY <1>9, <1>a DEF AtiendeTarea, EnRelevo
<1>10. CASE AtiendeDesconexion(c)
    BY <1>10, <1>a DEF AtiendeDesconexion, EnRelevo
<1>11. CASE Despacha(c)
    <2>1. exec[c].pc = "fuera" /\ exec'[c].pc = "empieza"
      BY <1>11 DEF Despacha, EnHilo, Pasa, Hilo, TypeOK
    <2> QED
      BY <1>11, <1>b, <2>1 DEF Despacha, EnRelevo
<1>12. CASE ExecEmpieza(c)
    <2>1. exec[c].pc = "empieza" /\ exec'[c].pc = "mira"
      BY <1>12 DEF ExecEmpieza, EnHilo, Pasa, Hilo, TypeOK
    <2> QED
      BY <1>12, <1>b, <2>1 DEF ExecEmpieza, EnRelevo
<1>12b. CASE NoEmpieza(c)
    <2>1. exec[c].pc = "empieza" /\ exec'[c].pc = "fuera"
      BY <1>12b DEF NoEmpieza, EnHilo, Pasa, Hilo, TypeOK
    <2> QED
      BY <1>12b, <1>b, <2>1 DEF NoEmpieza, EnRelevo
<1>13. CASE ExecToma(c)
    <2>1. exec[c].pc = "mira" /\ exec'[c].pc \in {"fuera", "hace"}
      BY <1>13 DEF ExecToma, EnHilo, TypeOK
    <2> QED
      BY <1>13, <1>b, <2>1 DEF ExecToma, EnRelevo
<1>14. CASE ExecConfirma(c)
    <2>1. exec[c].pc = "hace" /\ exec'[c].pc = "mira"
      BY <1>14 DEF ExecConfirma, EnHilo, Pasa, Hilo, TypeOK
    <2> QED
      BY <1>14, <1>b, <2>1 DEF ExecConfirma, EnRelevo
<1>15. CASE ExecEspera(c)
    <2>1. exec[c].pc = "hace" /\ exec'[c].pc = "bloquea"
      BY <1>15 DEF ExecEspera, EnHilo, Pasa, Hilo, TypeOK
    <2> QED
      BY <1>15, <1>b, <2>1 DEF ExecEspera, EnRelevo
<1>16. CASE ExecSinSemaforo(c)
    <2>1. exec[c].pc = "hace" /\ exec'[c].pc = "sin_semaforo"
      BY <1>16 DEF ExecSinSemaforo, EnHilo, Pasa, Hilo, TypeOK
    <2> QED
      BY <1>16, <1>b, <2>1 DEF ExecSinSemaforo, EnRelevo
<1>17. CASE ExecBloquea(c)
    <2>1. /\ exec[c].pc \in {"bloquea", "sin_semaforo"}
          /\ exec'[c].pc \in {"fuera", "colgado"}
      BY <1>17 DEF ExecBloquea, Pasa, TypeOK
    <2> QED
      BY <1>17, <1>b, <2>1 DEF ExecBloquea, EnRelevo
<1>18. CASE Despierta(c)
    <2>1. exec[c].pc = "fuera" /\ exec' = exec
      BY <1>18 DEF Despierta
    <2> QED
      BY <1>18, <1>b, <2>1 DEF Despierta, EnRelevo
<1>19. CASE ExecPideMemoria(c)
    <2>1. /\ exec[c].pc = "hace" /\ exec'[c].pc = "lee_codigo"
          /\ lista' = lista /\ pedidos' = pedidos /\ de_memoria' = de_memoria
      BY <1>19 DEF ExecPideMemoria, EnHilo, Pasa, TypeOK
    <2>2. lista[c] = "exec"
      <3>1. lista[c] # "exit"
        BY <2>1 DEF Propias, Propia, Envian, Activo
      <3> QED
        BY <2>1, <3>1 DEF Hilo, TypeOK
    <2>3. \A d \in Carpinchos : ~EnRelevo(d)
      BY <2>1, <2>2 DEF Relevo, UnSoloExec, EnRelevo
    <2>4. a_memoria = <<>> /\ de_memoria = <<>>
      BY <2>3 DEF Relevo
    <2>5. PICK r : r = [cod |-> exec[c].task.cod, n |-> exec[c].task.n,
                        de |-> c]
      OBVIOUS
    <2>r. r.n = exec[c].task.n /\ r.de = c
      BY <2>5
    <2>6. /\ con_memoria' = con_memoria
          /\ a_memoria' = IF con_memoria THEN <<r>> ELSE <<>>
      BY <1>19, <2>4, <2>5 DEF ExecPideMemoria
    <2>7. r.n = pedidos[c]
      <3>1. Numeros(c) /\ Toca(c)
        BY <1>t, <2>1, <2>2 DEF EnOrden, Orden, Toca, Debe, SinHilo
      <3> QED
        BY <2>r, <3>1 DEF Numeros
    <2>9. \A d \in Carpinchos : EnRelevo(d)' <=> d = c
      BY <1>i, <2>1, <2>3 DEF EnRelevo
    <2>10. CASE con_memoria
      <3>1. /\ Len(a_memoria') = 1 /\ DOMAIN a_memoria' = {1}
            /\ a_memoria'[1] = r /\ Len(de_memoria') = 0
            /\ DOMAIN de_memoria' = {}
        BY <2>1, <2>4, <2>6, <2>10, Largos
      <3> QED
        BY <2>1, <2>2, <2>r, <2>6, <2>7, <2>9, <2>10, <3>1 DEF Relevo
    <2>11. CASE ~con_memoria
      <3>1. /\ a_memoria' = <<>> /\ de_memoria' = <<>>
            /\ Len(a_memoria') = 0 /\ Len(de_memoria') = 0
            /\ DOMAIN a_memoria' = {} /\ DOMAIN de_memoria' = {}
        BY <2>1, <2>4, <2>6, <2>11, Largos
      <3> QED
        BY <2>1, <2>2, <2>9, <3>1 DEF Relevo
    <2> QED
      BY <2>10, <2>11
<1>20. CASE ExecSinMemoria(c)
    <2>1. /\ exec[c].pc = "lee_codigo" /\ exec'[c].pc = "mira"
          /\ ~con_memoria /\ a_memoria' = a_memoria
          /\ de_memoria' = de_memoria
      BY <1>20 DEF ExecSinMemoria, EnHilo, Pasa, TypeOK
    <2>2. lista[c] = "exec" /\ a_memoria = <<>> /\ de_memoria = <<>>
      BY <2>1 DEF Relevo, EnRelevo
    <2>3. \A d \in Carpinchos : ~EnRelevo(d)'
      BY <1>i, <2>1, <2>2 DEF Relevo, UnSoloExec, EnRelevo
    <2> QED
      BY <2>1, <2>2, <2>3, Largos DEF Relevo
<1>21. CASE ExecLeeCodigo(c)
    <2>1. /\ exec[c].pc = "lee_codigo"
          /\ exec'[c].pc \in {"lee_codigo", "lee_resto"}
          /\ a_memoria' = a_memoria /\ de_memoria' = de_memoria
          /\ lista' = lista /\ pedidos' = pedidos
          /\ con_memoria' = con_memoria
      BY <1>21 DEF ExecLeeCodigo, EnHilo, Pasa, TypeOK
    <2> QED
      BY <1>a, <2>1 DEF EnRelevo
<1>22. CASE ExecLeeResto(c)
    <2>1. /\ exec[c].pc = "lee_resto" /\ exec'[c].pc = "mira"
          /\ de_memoria' = Tail(de_memoria) /\ a_memoria' = a_memoria
      BY <1>22 DEF ExecLeeResto, EnHilo, Pasa, TypeOK
    <2>2. /\ lista[c] = "exec" /\ a_memoria = <<>> /\ Tail(de_memoria) = <<>>
      BY <2>1, RelevoPropio DEF Hilos
    <2>3. \A d \in Carpinchos : ~EnRelevo(d)'
      BY <1>i, <2>1, <2>2 DEF Relevo, UnSoloExec, EnRelevo
    <2>4. a_memoria' = <<>> /\ de_memoria' = <<>>
      BY <2>1, <2>2
    <2> QED
      BY <2>3, <2>4, Largos DEF Relevo
<1>23. CASE EligeVictima(c)
    BY <1>23, <1>a DEF EligeVictima, EnRelevo
<1>24. CASE SalidaMueve(c)
  BY <1>24, <1>b DEF SalidaMueve, EnRelevo
<1>25. CASE MemoriaAtiende(c)
    BY <1>25, <1>a DEF MemoriaAtiende, EnRelevo
<1>26. CASE saliendo = c /\ SalidaAvisa
    BY <1>26, <1>a DEF SalidaAvisa, EnRelevo
<1> QED
  BY <1>1, <1>2, <1>3, <1>4, <1>5, <1>6, <1>7, <1>8, <1>9, <1>10, <1>11,
     <1>12, <1>12b, <1>13, <1>14, <1>15, <1>16, <1>17, <1>18, <1>19, <1>20,
     <1>21, <1>22, <1>23, <1>24, <1>25, <1>26
     DEF PasoDe, Cliente, Exec, Atiende

LEMMA RelevoDeMemoria ==
  ASSUME TypeOK, Relevo, PasoComun
  PROVE  Relevo'
PROOF
<1> USE DEF sockets, clientes, conexiones, salidas, memoria, kernel, ajenos
<1>1. /\ exec' = exec /\ lista' = lista /\ pedidos' = pedidos
  BY DEF PasoComun, ConectaMemoria, Memoria, SalidaNadie, vars
<1>2. CASE ~Memoria
  <2>1. /\ a_memoria' = a_memoria /\ de_memoria' = de_memoria
        /\ ~con_memoria' => ~con_memoria
    BY <1>2 DEF PasoComun, ConectaMemoria, SalidaNadie, vars
  <2> QED
    BY <1>1, <2>1 DEF Relevo, EnRelevo
<1>3. CASE Memoria
  <2>1. a_memoria \in Seq(Relevos) /\ de_memoria \in Seq(Relevos)
        /\ a_memoria # <<>>
    BY <1>3 DEF Memoria, TypeOK
  <2>c. con_memoria /\ con_memoria' = con_memoria
    BY <1>3, <2>1 DEF Memoria, Relevo
  <2>2. PICK r \in Relevos : r = Head(a_memoria)
    BY <2>1, TrasTail
  <2>3. PICK cod \in Codigos :
          /\ de_memoria' = Append(de_memoria, [r EXCEPT !.cod = cod])
          /\ a_memoria' = Tail(a_memoria)
    BY <1>3, <2>2 DEF Memoria, Relevos, Codigos
  <2>e. [r EXCEPT !.cod = cod] \in Relevos
    BY DEF Relevos
  <2>q. PICK q \in Relevos : q = [r EXCEPT !.cod = cod]
    BY <2>e
  <2>4. q.n = r.n /\ q.de = r.de
    BY <2>q DEF Relevos
  <2>5. /\ 1 \in DOMAIN a_memoria /\ a_memoria[1] = r
        /\ Len(a_memoria') = Len(a_memoria) - 1 /\ Len(a_memoria) \in Nat
        /\ \A i \in DOMAIN a_memoria' :
             i + 1 \in DOMAIN a_memoria /\ a_memoria'[i] = a_memoria[i + 1]
    BY <2>1, <2>2, <2>3, TrasTail
  <2>6. /\ Len(de_memoria') = Len(de_memoria) + 1
        /\ \A i \in DOMAIN de_memoria' :
             \/ i \in DOMAIN de_memoria /\ de_memoria'[i] = de_memoria[i]
             \/ de_memoria'[i] = q
    BY <2>1, <2>3, <2>q, TrasAppend
  <2>7. Len(de_memoria) \in Nat
    BY <2>1
  <2>8. Len(a_memoria') + Len(de_memoria') = Len(a_memoria) + Len(de_memoria)
    <3>1. PICK x \in Nat, y \in Nat : x = Len(a_memoria) /\ y = Len(de_memoria)
      BY <2>5, <2>7
    <3>2. (x - 1) + (y + 1) = x + y
      OBVIOUS
    <3> QED
      BY <2>5, <2>6, <3>1, <3>2
  <2>9. EnRelevo(q.de) /\ q.n = pedidos[q.de] /\ q.de \in Carpinchos
    BY <2>4, <2>5 DEF Relevo, Relevos
  <2>10. \A d \in Carpinchos : EnRelevo(d)' <=> EnRelevo(d)
    BY <1>1 DEF EnRelevo
  <2>11. \A i \in DOMAIN a_memoria : a_memoria[i].de \in Carpinchos
    BY <2>1, DeQuienEs
  <2>12. \A i \in DOMAIN de_memoria : de_memoria[i].de \in Carpinchos
    BY <2>1, DeQuienEs
  <2>13. \A d \in Carpinchos : EnRelevo(d)' =>
           lista'[d] = "exec" /\ Len(a_memoria') + Len(de_memoria') <= 1
    BY <1>1, <2>8, <2>10 DEF Relevo
  <2>14. \A i \in DOMAIN a_memoria' : \E d \in Carpinchos :
           /\ a_memoria'[i].de = d /\ EnRelevo(d)'
           /\ a_memoria'[i].n = pedidos'[d]
    <3>1. \A i \in DOMAIN a_memoria : \E d \in Carpinchos :
            /\ a_memoria[i].de = d /\ EnRelevo(d)
            /\ a_memoria[i].n = pedidos[d]
      BY <2>11 DEF Relevo
    <3> QED
      BY <1>1, <2>5, <2>10, <3>1
  <2>15. \A i \in DOMAIN de_memoria' : \E d \in Carpinchos :
           /\ de_memoria'[i].de = d /\ EnRelevo(d)'
           /\ de_memoria'[i].n = pedidos'[d]
    <3>1. \A i \in DOMAIN de_memoria : \E d \in Carpinchos :
            /\ de_memoria[i].de = d /\ EnRelevo(d)
            /\ de_memoria[i].n = pedidos[d]
      BY <2>12 DEF Relevo
    <3> QED
      BY <1>1, <2>6, <2>9, <2>10, <3>1
  <2>16. ~ \A d \in Carpinchos : ~EnRelevo(d)'
    BY <2>9, <2>10
  <2> QED
    <3>1. \A i \in DOMAIN a_memoria' :
            /\ exec'[a_memoria'[i].de].pc \in {"lee_codigo", "lee_resto"}
            /\ a_memoria'[i].n = pedidos'[a_memoria'[i].de]
      BY <2>14 DEF EnRelevo
    <3>2. \A i \in DOMAIN de_memoria' :
            /\ exec'[de_memoria'[i].de].pc \in {"lee_codigo", "lee_resto"}
            /\ de_memoria'[i].n = pedidos'[de_memoria'[i].de]
      BY <2>15 DEF EnRelevo
    <3> QED
      BY <2>c, <2>13, <2>16, <3>1, <3>2 DEF Relevo, EnRelevo
<1> QED
  BY <1>2, <1>3

LEMMA UnProcesadorInductivo ==
  ASSUME IInv, InvSinMuertes, InvUnProcesador, [Next]_vars
  PROVE  InvUnProcesador'
PROOF
<1> USE DEF sockets, clientes, conexiones, salidas, memoria, kernel, ajenos
<1> TypeOK BY DEF IInv
<1>0. SUFFICES ASSUME UnoSinExits'
               PROVE  /\ caido' # "cruce" /\ UnSoloExec' /\ Propias'
                      /\ caido' = "no" => Relevo'
  BY DEF InvUnProcesador
<1>1. UnoSinExits
  BY <1>0, AntesSinExits
<1>2. /\ caido # "cruce" /\ UnSoloExec /\ Propias /\ Cierres
      /\ caido = "no" => Relevo
  BY <1>1 DEF InvUnProcesador, InvSinMuertes, UnoSinExits
<1>3. ASSUME NEW d \in Carpinchos, Igual(d)
      PROVE  Propia(d)'
  BY <1>2, <1>3 DEF Propias, Propia, Igual
<1>4. CASE PasoComun
  <2>1. \A d \in Carpinchos : Igual(d)
    BY <1>4, IgualesTodos
  <2>2. caido' = caido
    BY <1>4 DEF PasoComun, ConectaMemoria, Memoria, SalidaNadie, vars
  <2>3. UnSoloExec'
    BY <1>2, <2>1 DEF UnSoloExec, Igual
  <2>4. Propias'
    BY <1>3, <2>1 DEF Propias
  <2> QED
    BY <1>2, <1>4, <2>2, <2>3, <2>4, RelevoDeMemoria
<1>5. ASSUME NEW c \in Carpinchos, PasoDe(c)
      PROVE  /\ caido' # "cruce" /\ UnSoloExec' /\ Propias'
             /\ caido' = "no" => Relevo'
  <2>1. \A d \in Carpinchos : d # c => Igual(d)
    BY <1>5, IgualesLosDemas
  <2>2. Propias'
    <3>1. Propia(c)'
      BY <1>0, <1>1, <1>2, <1>5, PropiaInductiva
    <3> QED
      BY <1>3, <2>1, <3>1 DEF Propias
  <2>3. UnSoloExec'
    BY <1>1, <1>2, <1>5, UnSoloExecInductivo DEF UnoSinExits
  <2>4. caido' # "cruce"
    BY <1>2, <1>5, SinCruce
  <2>5. ASSUME caido' = "no" PROVE Relevo'
    <3>1. caido = "no" /\ IInv'
      BY <1>5, <2>5, NadaTermino, Inductivo
    <3>2. ASSUME SalidaMueve(c) PROVE ~EnRelevo(c)
      <4>1. lista'[c] = "exit" /\ exec' = exec
        BY <3>2 DEF SalidaMueve, TypeOK
      <4>2. exec'[c].pc \notin Envian
        BY <2>2, <4>1 DEF Propias, Propia
      <4> QED
        BY <4>1, <4>2 DEF EnRelevo, Envian, Activo
    <3> QED
      BY <1>2, <1>5, <3>1, <3>2, RelevoInductivo
  <2> QED
    BY <2>2, <2>3, <2>4, <2>5
<1> QED
  BY <1>4, <1>5, Pasos

\* With one processor, whose carpinchos are not killed, no answer of memoria
\* goes to another, though the exec threads share its socket without a mutex.
THEOREM RespuestasPropias == Spec => []RespuestaPropia
PROOF
<1> DEFINE J == IInv /\ InvSinMuertes /\ InvUnProcesador
<1>1. Init => J
  <2>1. ASSUME Init PROVE InvSinMuertes
    BY <2>1, Largos
       DEF Init, InvSinMuertes, KernelSobrevive, Cierres, Cierre
  <2>2. ASSUME Init PROVE InvUnProcesador
    <3>1. UnSoloExec /\ caido # "cruce"
      BY <2>2 DEF Init, UnSoloExec
    <3>2. Propias
      BY <2>2, Largos DEF Init, Propias, Propia, Uno
    <3>3. Relevo
      BY <2>2, Largos DEF Init, Relevo, EnRelevo
    <3> QED
      BY <3>1, <3>2, <3>3 DEF InvUnProcesador
  <2> QED
    BY <2>1, <2>2, Inicio
<1>2. J /\ [Next]_vars => J'
  BY Inductivo, SinMuertesInductivo, UnProcesadorInductivo
<1>3. J => RespuestaPropia
  BY DEF InvUnProcesador, UnoSinExits, RespuestaPropia, Propias, Propia
<1> QED
  BY <1>1, <1>2, <1>3, PTL DEF Spec
=============================================================================
