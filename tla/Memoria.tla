------------------------------ MODULE Memoria ------------------------------
(***************************************************************************)
(* The process memoria: page tables, frames, TLB, replacement, and its     *)
(* conversation with swap, as module Almacen promises it.  Every request   *)
(* is served under mutex_memoria, so one is in progress at a time; it stops *)
(* only to wait for swap.  The signal that cleans the TLB may arrive at any *)
(* time.                                                                   *)
(*                                                                         *)
(* A request is the list of the pages it goes through: the allocator, which*)
(* decides which pages hold headers, is left open here.  Pages are counted *)
(* from 1 (numero_pagina + 1).  The bytes of the pages are left out.       *)
(***************************************************************************)
EXTENDS Integers, Sequences, FiniteSets, SequencesExt, Listas

CONSTANTS
  Procesos,         \* the pids
  Configuraciones,  \* the configuration files of memoria
  Manos,            \* what ultimo_Clock may hold before anybody sets it
  MaxPaginas,       \* bound: the pages that each asks for, with each of them
  MaxCruces         \* bound: no request is served after more cruces

ASSUME MemoriaOK ==
  /\ MaxCruces \in Nat /\ Manos \subseteq Nat
  /\ MaxPaginas \in [Configuraciones -> [Procesos -> Nat]]
  /\ Configuraciones \subseteq
       [MARCOS : Nat \ {0},  \* TAMANIO / TAMANIO_PAGINA
        TIPO_ASIGNACION : {"FIJA", "DINAMICA"}, MARCOS_POR_CARPINCHO : Nat,
        ALGORITMO_REEMPLAZO_MMU : {"LRU", "CLOCK-M"},
        CANTIDAD_ENTRADAS_TLB : Nat, ALGORITMO_REEMPLAZO_TLB : {"LRU", "FIFO"}]

VARIABLES
  config,
  libres,             \* the frames whose isFree is set
  tabla_procesos,     \* the processes that have a table, in order
  paginas,            \* of each process: marco, presencia, uso, modificado
  paginas_en_memoria,
  tabla_paginas,      \* the global: whose table was looked up last
  lista_reemplazo,    \* reemplazo_LRU, or Lru or Clock of each process
  ultimo_Clock,
  tlb,                \* pagina, marco
  operacion,          \* the request in progress
  caida,              \* memoria made an invalid access: it ended, or goes on
                      \* over what it spoilt, and no more is said of it
  referencias,        \* history: the pages by their last reference
  cruces,             \* history: how often actualizarLRU took out another page
  guardadas, pedido, respuesta, perdidas \* of Almacen

Usadas == UNION {UNION {{p} \X (1..MaxPaginas[c][p]) : p \in Procesos} :
                  c \in Configuraciones}

S == INSTANCE Almacen

tablas  == <<libres, tabla_procesos, paginas, paginas_en_memoria,
             tabla_paginas>>
reemplazo == <<lista_reemplazo, ultimo_Clock, referencias, cruces>>
memVars == <<config, tablas, reemplazo, tlb, operacion, caida>>
swapVars == <<guardadas, pedido, respuesta, perdidas>>
vars    == <<memVars, swapVars>>

Marcos  == 0..(config.MARCOS - 1)
Todos   == "todos"    \* the list of DINAMICA
Nadie   == "nadie"
Nueva   == 0          \* in a request: a page to be created
Libre   == [tipo |-> "ninguno"]  \* mutex_memoria is free
NULA    == <<>>

Fija  == config.TIPO_ASIGNACION = "FIJA"
Clock == config.ALGORITMO_REEMPLAZO_MMU = "CLOCK-M"
Lista == IF Fija THEN tabla_paginas ELSE Todos

Cantidad == Len(paginas[tabla_paginas])
Pagina(p) == paginas[p[1]][p[2]]
Presentes == {p \in Usadas : p[2] <= Len(paginas[p[1]]) /\ Pagina(p).presencia}

\* main: isFree and ultimo_Clock are never initialised; with fixed assignment
\* nobody reads isFree, and without a clock nobody reads ultimo_Clock
Init ==
  /\ S!Init
  /\ config \in Configuraciones
  /\ libres \in SUBSET (IF Fija THEN {} ELSE Marcos)
  /\ tabla_procesos = <<>> /\ tabla_paginas = Nadie
  /\ paginas = [p \in Procesos |-> <<>>]
  /\ paginas_en_memoria = [p \in Procesos |-> 0]
  /\ lista_reemplazo = [l \in Procesos \cup {Todos} |-> <<>>]
  /\ ultimo_Clock \in [Procesos -> IF Clock /\ Fija THEN Manos ELSE {0}]
  /\ tlb = <<>> /\ operacion = Libre /\ caida = FALSE
  /\ referencias = <<>> /\ cruces = 0
-----------------------------------------------------------------------------
(* The TLB and the list of replacement *)

Entrada(p, m) == [pagina |-> p, marco |-> m]

EnTlb(p) == Primero({i \in DOMAIN tlb : tlb[i].pagina = p})

\* mutant: no entry leaves for the new one
AgregaTlbSinSacar(t, p, m) ==
  IF config.CANTIDAD_ENTRADAS_TLB = 0 THEN t ELSE Append(t, Entrada(p, m))

\* agregarTLB: it does not look whether the page is there already
AgregaTlb(t, p, m) ==
  IF config.CANTIDAD_ENTRADAS_TLB = 0 THEN t
  ELSE Append(IF Len(t) < config.CANTIDAD_ENTRADAS_TLB THEN t ELSE Tail(t),
              Entrada(p, m))

\* mutant: the TLB is not told of a page that leaves
EliminaNada(p) == tlb

\* eliminarDeTLB: the first entry of the page
EliminaDeTlb(p) == SinPrimero(tlb, {i \in DOMAIN tlb : tlb[i].pagina = p})

\* buscarEnTLB on a hit: reordenarLRU
TrasAcierto(p) ==
  IF config.ALGORITMO_REEMPLAZO_TLB = "LRU"
  THEN Append(EliminaDeTlb(p), tlb[EnTlb(p)]) ELSE tlb

\* mutant: the page is not moved to the end
ActualizaNada(l, p) == l

\* actualizarLRU: the first page of that number, of whatever process
DeSuNumero(l, p) == {i \in DOMAIN l : l[i][2] = p[2]}

ActualizaLRU(l, p) == IF DeSuNumero(l, p) = {} THEN l
                      ELSE Append(SinPrimero(l, DeSuNumero(l, p)), p)

Cruza(l, p) == DeSuNumero(l, p) # {} /\ l[Primero(DeSuNumero(l, p))] # p

SinReferencia(p) ==
  SinPrimero(referencias, {i \in DOMAIN referencias : referencias[i] = p})

Ultima(p) == Append(SinReferencia(p), p)

\* replaceClock passes the page as the index, which is out of range: nothing
AgregaAsignacion(p, libre) ==
  IF Clock /\ ~libre THEN lista_reemplazo
  ELSE [lista_reemplazo EXCEPT ![Lista] = Append(@, p)]

\* a place of the clock after which comes the rest of it
Vuelta == [i \in 1..Len(lista_reemplazo[Lista]) |->
             ((i - 1 + ultimo_Clock[tabla_paginas])
                % Len(lista_reemplazo[Lista])) + 1]

\* reemplazarClockM: from ultimo_Clock on, a present page neither used nor
\* modified; then one modified and not used, clearing the use of those it
\* passes; then the same again.  The result: the place of the victim in the
\* turn, 0 for none, and how many lost their use
Gira ==
  LET pag(i) == Pagina(lista_reemplazo[Lista][Vuelta[i]])
      turno  == DOMAIN Vuelta
      clase(u, m) == Primero({i \in turno : /\ pag(i).presencia
                                            /\ u \/ ~pag(i).uso
                                            /\ pag(i).modificado = m})
      limpia  == clase(FALSE, FALSE)
      sucia   == clase(FALSE, TRUE)
      vuelta2 == IF clase(TRUE, FALSE) # 0 THEN clase(TRUE, FALSE)
                                           ELSE clase(TRUE, TRUE)
  IN  IF limpia # 0 THEN [lugar |-> limpia, sin_uso |-> 0]
      ELSE IF sucia # 0 THEN [lugar |-> sucia, sin_uso |-> sucia - 1]
      ELSE [lugar |-> vuelta2, sin_uso |-> Len(Vuelta)]
-----------------------------------------------------------------------------
(* Requests.  Each takes mutex_memoria and looks its table up. *)

PuedeEmpezar == operacion = Libre /\ ~caida /\ cruces <= MaxCruces

Empieza(tipo, faltan) ==
  /\ operacion' = [tipo |-> tipo, faltan |-> faltan, pc |-> "sigue",
                   victima |-> NULA, marco |-> 0, lugar |-> 0]
  /\ UNCHANGED <<config, libres, paginas, paginas_en_memoria, reemplazo,
                 tlb, caida, swapVars>>

\* an access through a null or a wrong pointer, or beyond the frames
Cae ==
  /\ caida' = TRUE
  /\ UNCHANGED <<config, tablas, reemplazo, tlb, operacion, swapVars>>

\* buscarTablaPorPID, inicializarCarpincho
BuscaTabla(pid) ==
  /\ tabla_paginas' = pid
  /\ tabla_procesos' = IF pid \in Range(tabla_procesos) THEN tabla_procesos
                       ELSE Append(tabla_procesos, pid)

\* memRead, memWrite: the page of the address and those that follow, as many
\* as the size takes.  The one after the last passes the check of the bound,
\* which is made for the first page only: the loop then goes on to it
MemLeeEscribe ==
  /\ PuedeEmpezar
  /\ \E pid \in Procesos, tipo \in {"MEMREAD", "MEMWRITE"} :
       /\ BuscaTabla(pid)
       /\ \E n \in 1..(Len(paginas[pid]) + 1) :
            \E m \in n..(Len(paginas[pid]) + 1) :
              Empieza(tipo, [i \in 1..(m - n + 1) |-> n + i - 1])

\* the pages of a process with those numbers, one after the other
EnOrden(pid, numeros) ==
  Quedan([n \in 1..Len(paginas[pid]) |-> n], numeros)

Nuevas(k) == [i \in 1..k |-> Nueva]

\* memAlloc: with no page, up to three new ones: the first, the rest of the
\* block (crearPrimerHeader) and the last header.  Otherwise the pages of the
\* chain of headers, the first of them always, and then up to two new ones,
\* if getPrimeraPaginaDisponible finds room
MemAlloc ==
  /\ PuedeEmpezar
  /\ \E pid \in Procesos, k \in 0..3 :
       /\ BuscaTabla(pid)
       /\ Len(paginas[pid]) + k <= MaxPaginas[config][pid]
       /\ \/ /\ paginas[pid] = <<>> /\ k > 0
             /\ Empieza("PRIMER_MEMALLOC", Nuevas(k))
          \/ /\ paginas[pid] # <<>> /\ k < 3
             /\ \E otras \in SUBSET (2..Len(paginas[pid])) :
                  Empieza("MEMALLOC",
                          <<1>> \o EnOrden(pid, otras) \o Nuevas(k))

\* freeAlloc: the table is that of whoever asked before, which may be nobody.
\* A page that is not present is an error; otherwise the header read there,
\* whatever it holds, names the page of the block before and of the one after,
\* and restarTamanioaPagina goes to both again.  An address out of bounds ends
\* it before; but the page after the last passes each check
MemFree ==
  /\ PuedeEmpezar
  /\ \/ tabla_paginas = Nadie /\ Cae
     \/ /\ tabla_paginas # Nadie /\ Cantidad > 0
        /\ \/ Cae
           \/ /\ \E n \in 1..Cantidad : Pagina(<<tabla_paginas, n>>).presencia
              /\ \E antes, despues \in 1..(Cantidad + 1), k \in 1..4 :
                   Empieza(IF k = 4 THEN "MEMFREE" ELSE "MEMFREE_PARCIAL",
                           [i \in 1..k |-> IF i % 2 = 1 THEN antes ELSE despues])
              /\ UNCHANGED <<tabla_paginas, tabla_procesos>>

\* limpiarTlb
LimpiaTlb ==
  /\ ~caida /\ tlb # <<>> /\ tlb' = <<>>
  /\ UNCHANGED <<config, tablas, reemplazo, operacion, caida,
                 swapVars>>
-----------------------------------------------------------------------------
(* The steps of a request *)

Toca   == Head(operacion.faltan)
Actual == <<tabla_paginas, Toca>>
Acceso == operacion.tipo \in {"MEMREAD", "MEMWRITE"}

EnPaso(pc) == operacion # Libre /\ ~caida /\ operacion.pc = pc

Falta == EnPaso("sigue")

\* the next page; after the last, the answer and the end of the section
Avanza ==
  operacion' = IF Tail(operacion.faltan) = <<>> THEN Libre
               ELSE [operacion EXCEPT !.faltan = Tail(@), !.pc = "sigue",
                                      !.victima = NULA, !.lugar = 0,
                                      !.marco = 0]

\* the page is in memory, or the TLB says so
AMano == Pagina(Actual).presencia \/ (Acceso /\ EnTlb(Actual) # 0)

\* memRead, memWrite: one page
Accede ==
  /\ Falta /\ Acceso /\ Toca <= Cantidad /\ AMano
  /\ LET acierto == EnTlb(Actual)
         marco == IF acierto # 0 THEN tlb[acierto].marco
                                 ELSE Pagina(Actual).marco
         lista == lista_reemplazo[Lista]
     IN  /\ tlb' = AgregaTlb(IF acierto # 0 THEN TrasAcierto(Actual) ELSE tlb,
                             Actual, marco)
         /\ IF Clock
            THEN /\ paginas' = [paginas EXCEPT ![tabla_paginas][Toca] =
                      IF operacion.tipo = "MEMWRITE"
                      THEN [@ EXCEPT !.modificado = TRUE]
                      ELSE [@ EXCEPT !.uso = TRUE]]
                 /\ UNCHANGED <<lista_reemplazo, cruces>>
            ELSE /\ lista_reemplazo' = [lista_reemplazo EXCEPT
                                          ![Lista] = ActualizaLRU(@, Actual)]
                 /\ cruces' = cruces + IF Cruza(lista, Actual) THEN 1 ELSE 0
                 /\ UNCHANGED paginas
         /\ referencias' = Ultima(Actual)
  /\ Avanza
  /\ UNCHANGED <<config, libres, tabla_procesos, paginas_en_memoria,
                 tabla_paginas, ultimo_Clock, caida, swapVars>>

\* restarTamanioaPagina subtracts from the pointer to the page what it should
\* subtract from tamanio_ocupado, and uses what is there as a page
Corrompe ==
  /\ Falta /\ operacion.tipo = "MEMFREE" /\ Tail(operacion.faltan) = <<>>
  /\ Toca <= Cantidad /\ AMano
  /\ Cae

\* the chain of headers goes through a page that is in memory
Recorre ==
  /\ Falta /\ ~Acceso /\ Toca \in 1..Cantidad /\ AMano
  /\ Avanza
  /\ UNCHANGED <<config, tablas, reemplazo, tlb, caida, swapVars>>

\* a page that was never created
SinPagina == Falta /\ Toca > Cantidad /\ Cae

Necesita == Falta /\ (Toca = Nueva \/ (Toca \in 1..Cantidad /\ ~AMano))

\* getIndexByPid, from 1
Lugar(pid) == Primero({i \in DOMAIN tabla_procesos : tabla_procesos[i] = pid})

\* mutant: the frames of a process start one further
MarcoPropioCorrido ==
  (Lugar(tabla_paginas) - 1)
    * config.MARCOS_POR_CARPINCHO + paginas_en_memoria[tabla_paginas] + 1

\* what getMarco computes
MarcoPropio ==
  (Lugar(tabla_paginas) - 1)
    * config.MARCOS_POR_CARPINCHO + paginas_en_memoria[tabla_paginas]

\* getMarco, -1 for none: the frames of a process are one too many
GetMarco ==
  IF ~Fija THEN IF libres = {} THEN -1 ELSE Primero(libres)
  ELSE IF paginas_en_memoria[tabla_paginas] <= config.MARCOS_POR_CARPINCHO
       THEN MarcoPropio ELSE -1

\* solicitarPaginaNueva: the page, in frame m, free or of a victim.  Without
\* clock nobody reads its bits; bit_modificado is not initialised
AgregaPagina(m, libre) ==
  LET p == <<tabla_paginas, Cantidad + 1>> IN
  /\ \E modificado \in (IF Clock THEN BOOLEAN ELSE {FALSE}) :
       paginas' = [paginas EXCEPT ![tabla_paginas] = Append(@,
         [marco |-> m, presencia |-> TRUE, uso |-> Clock,
          modificado |-> modificado])]
  /\ libres' = libres \ {m}
  /\ paginas_en_memoria' = [paginas_en_memoria EXCEPT ![tabla_paginas] = @ + 1]
  /\ tlb' = AgregaTlb(tlb, p, m)
  /\ lista_reemplazo' = AgregaAsignacion(p, libre)
  /\ referencias' = Ultima(p)
  /\ Avanza
  /\ UNCHANGED <<config, tabla_procesos, tabla_paginas, ultimo_Clock, cruces,
                 caida, swapVars>>

\* list_add on reemplazo_CLOCK, which main shadows and leaves null
SinReloj == Clock /\ ~Fija

\* a frame without a victim.  For a page that was in swap (only after a
\* failed exchange with swap) nothing is brought
ConMarcoLibre ==
  /\ Necesita /\ GetMarco # -1
  /\ IF GetMarco \notin Marcos \/ SinReloj THEN Cae
     ELSE IF Toca = Nueva THEN AgregaPagina(GetMarco, TRUE)
     ELSE /\ paginas' = [paginas EXCEPT ![tabla_paginas][Toca] =
                            [@ EXCEPT !.marco = GetMarco, !.presencia = TRUE]]
          /\ lista_reemplazo' = AgregaAsignacion(Actual, TRUE)
          /\ referencias' = Ultima(Actual)
          /\ UNCHANGED <<config, libres, tabla_procesos, paginas_en_memoria,
                         tabla_paginas, ultimo_Clock, cruces, tlb,
                         operacion, caida, swapVars>>

\* enviarPaginaSwap: a victim, found at a place of the turn of the clock.
\* With swap gone nobody gets it
Envia(v, lugar) ==
  /\ tlb' = EliminaDeTlb(v)
  /\ operacion' = [operacion EXCEPT !.pc = "guarda", !.victima = v,
                                    !.lugar = lugar]
  /\ IF respuesta \in S!Terminado THEN UNCHANGED swapVars
     ELSE S!EnviaPagina(v)

\* mutant: the newest page leaves
VictimaNueva == Last(lista_reemplazo[Lista])

Victima == Head(lista_reemplazo[Lista])

\* reemplazarLRU.  With swap gone, sending ends memoria sooner or later
ReemplazaLRU ==
  /\ Necesita /\ GetMarco = -1 /\ ~Clock
  /\ \/ /\ lista_reemplazo[Lista] = <<>> \/ respuesta \in S!Terminado
        /\ Cae
     \/ /\ lista_reemplazo[Lista] # <<>>
        /\ Envia(Victima, 0)
        /\ UNCHANGED <<config, tablas, reemplazo, caida>>

\* reemplazarClockM: it runs past the end if ultimo_Clock is the size of the
\* clock; with no page of the clock present it would go round for ever
ReemplazaClock ==
  /\ Necesita /\ GetMarco = -1 /\ Clock
  /\ LET reloj == lista_reemplazo[Lista] IN
     \/ /\ \/ SinReloj \/ respuesta \in S!Terminado
           \/ reloj # <<>> /\ ultimo_Clock[tabla_paginas] >= Len(reloj)
        /\ Cae
     \/ /\ ~SinReloj
        /\ reloj # <<>> => ultimo_Clock[tabla_paginas] < Len(reloj)
        /\ LET g == Gira
               pierden == {reloj[Vuelta[i]] : i \in 1..g.sin_uso}
           IN /\ paginas' = [paginas EXCEPT ![tabla_paginas] =
                    [n \in 1..Cantidad |->
                       [Pagina(<<tabla_paginas, n>>) EXCEPT
                          !.uso = @ /\ <<tabla_paginas, n>> \notin pierden]]]
              /\ g.lugar # 0
              /\ Envia(reloj[Vuelta[g.lugar]], Vuelta[g.lugar])
        /\ UNCHANGED <<config, libres, tabla_procesos, paginas_en_memoria,
                       tabla_paginas, reemplazo, caida>>

\* the victim leaves its frame for the page that needs it; the hand of the
\* clock goes to lugar
Deja(v, lugar) ==
  /\ S!RecibeRespuesta
  /\ paginas' = [paginas EXCEPT ![v[1]][v[2]].presencia = FALSE]
  /\ paginas_en_memoria' = [paginas_en_memoria EXCEPT ![v[1]] = @ - 1]
  /\ IF Clock THEN /\ ultimo_Clock' =
                         [ultimo_Clock EXCEPT ![tabla_paginas] = lugar]
                   /\ UNCHANGED lista_reemplazo
     ELSE /\ lista_reemplazo' = [lista_reemplazo EXCEPT ![Lista] = Tail(@)]
          /\ UNCHANGED ultimo_Clock
  /\ referencias' = SinReferencia(v)
  /\ operacion' = [operacion EXCEPT !.pc = "con_marco", !.victima = NULA,
                                    !.lugar = 0, !.marco = Pagina(v).marco]
  /\ UNCHANGED <<config, libres, tabla_procesos, tabla_paginas, cruces,
                 tlb, caida>>

\* mutant: the hand of the clock comes back to its start
GuardadaGirando ==
  /\ EnPaso("guarda") /\ respuesta.cod = "PAGINA_GUARDADA"
  /\ Deja(operacion.victima,
          IF Clock THEN operacion.lugar % Len(lista_reemplazo[Lista]) ELSE 0)

Guardada ==
  /\ EnPaso("guarda") /\ respuesta.cod = "PAGINA_GUARDADA"
  /\ Deja(operacion.victima, operacion.lugar)

\* mutant: an error leaves mutex_memoria taken
FallaSinSoltar ==
  operacion' = [operacion EXCEPT !.pc = "error"] /\ UNCHANGED caida

\* nobody looks at the failure to bring a page of the chain of headers, which
\* goes on with what the old frame of the page holds, to any page
FallaCadena ==
  /\ ~Acceso /\ Toca # Nueva
  /\ \/ Avanza /\ UNCHANGED caida
     \/ caida' = TRUE /\ UNCHANGED operacion

\* memAlloc does not look whether crearPrimerHeader got the page for the rest
\* of the block: the last header asks for one again
FallaPrimerHeader ==
  /\ operacion.tipo = "PRIMER_MEMALLOC" /\ Cantidad = 1
  /\ operacion' = [operacion EXCEPT !.tipo = "MEMALLOC", !.pc = "sigue",
                                    !.victima = NULA, !.lugar = 0]
  /\ UNCHANGED caida

\* asignarFooterSeparadoSubContenido returns -1 for the page, which is used
FallaFooter ==
  /\ Toca = Nueva /\ Cantidad > 0
  /\ caida' = TRUE /\ UNCHANGED operacion

\* otherwise the failure is the answer
Falla ==
  \/ operacion' = Libre /\ UNCHANGED caida
  \/ FallaCadena \/ FallaPrimerHeader \/ FallaFooter

\* mutant: the answer of swap is not looked at
NoGuardadaIgnorada ==
  /\ EnPaso("guarda") /\ respuesta.cod = "PAGINA_NO_GUARDADA"
  /\ Deja(operacion.victima, operacion.lugar)

\* swap refuses the page, or ended (recibir_paquete: CLIENTE_DESCONECTADO)
NoGuardada ==
  /\ EnPaso("guarda")
  /\ \/ respuesta.cod = "PAGINA_NO_GUARDADA" /\ S!RecibeRespuesta
     \/ respuesta \in S!Terminado /\ UNCHANGED swapVars
  /\ Falla
  /\ UNCHANGED <<config, tablas, reemplazo, tlb>>

\* enviarPaginaSwap frees the contents of the answer, which has none: the
\* pointer is not initialised, and memoria may end
LiberaSinIniciar ==
  /\ EnPaso("guarda")
  /\ \/ respuesta.cod \in {"PAGINA_GUARDADA", "PAGINA_NO_GUARDADA"}
     \/ respuesta \in S!Terminado
  /\ Cae

NuevaConMarco ==
  /\ EnPaso("con_marco") /\ Toca = Nueva
  /\ AgregaPagina(operacion.marco, FALSE)

\* recibirPaginaSwap, after the page was given the frame
Pide ==
  /\ EnPaso("con_marco") /\ Toca # Nueva
  /\ paginas' = [paginas EXCEPT ![tabla_paginas][Toca].marco = operacion.marco]
  /\ S!PidePagina(Actual)
  /\ operacion' = [operacion EXCEPT !.pc = "trae", !.marco = 0]
  /\ UNCHANGED <<config, libres, tabla_procesos, paginas_en_memoria,
                 tabla_paginas, reemplazo, tlb, caida>>

\* mutant: the page that comes is not counted
TrajoSinContar ==
  /\ EnPaso("trae") /\ respuesta.cod = "RECEPCION_PAGINA"
  /\ S!RecibeRespuesta
  /\ paginas' = [paginas EXCEPT ![tabla_paginas][Toca].presencia = TRUE]
  /\ lista_reemplazo' = AgregaAsignacion(Actual, FALSE)
  /\ referencias' = Ultima(Actual)
  /\ operacion' = [operacion EXCEPT !.pc = "sigue"]
  /\ UNCHANGED <<config, libres, tabla_procesos, tabla_paginas, ultimo_Clock,
                 paginas_en_memoria, cruces, tlb, caida>>

\* escribirPaginaEnMemoria writes the headers of the blocks, and none of
\* their contents, which remain those of the victim
Trajo ==
  /\ EnPaso("trae") /\ respuesta.cod = "RECEPCION_PAGINA"
  /\ S!RecibeRespuesta
  /\ paginas' = [paginas EXCEPT ![tabla_paginas][Toca].presencia = TRUE]
  /\ paginas_en_memoria' = [paginas_en_memoria EXCEPT ![tabla_paginas] = @ + 1]
  /\ lista_reemplazo' = AgregaAsignacion(Actual, FALSE)
  /\ referencias' = Ultima(Actual)
  /\ operacion' = [operacion EXCEPT !.pc = "sigue"]
  /\ UNCHANGED <<config, libres, tabla_procesos, tabla_paginas, ultimo_Clock,
                 cruces, tlb, caida>>

\* swap ended, asked for that page
NoTrajo ==
  /\ EnPaso("trae") /\ respuesta = S!Perdido
  /\ Falla
  /\ UNCHANGED <<config, tablas, reemplazo, tlb, swapVars>>

Atiende ==
  \/ Accede \/ Recorre \/ Corrompe \/ SinPagina \/ ConMarcoLibre \/ ReemplazaLRU
  \/ ReemplazaClock \/ Guardada \/ NoGuardada \/ LiberaSinIniciar
  \/ NuevaConMarco \/ Pide \/ Trajo \/ NoTrajo

Swap == ~caida /\ S!Swap /\ UNCHANGED memVars

Next == MemLeeEscribe \/ MemAlloc \/ MemFree \/ LimpiaTlb \/ Atiende \/ Swap

\* swap answers, and a request that can go on does
Fairness == WF_vars(Atiende) /\ WF_vars(Swap)

Spec == Init /\ [][Next]_vars /\ Fairness
-----------------------------------------------------------------------------
(* Properties *)

\* The type invariant of memoria: in particular a page of a table always has
\* a frame of the memory, and the clock and the lists hold pages that exist.
TypeOK ==
  /\ config \in Configuraciones
  /\ libres \subseteq Marcos
  /\ tabla_procesos \in Seq(Procesos) /\ IsInjective(tabla_procesos)
  /\ tabla_paginas \in Procesos \cup {Nadie}
  /\ \A p \in Procesos :
       paginas[p] \in Seq([marco : Marcos, presencia : BOOLEAN,
                            uso : BOOLEAN, modificado : BOOLEAN])
  /\ paginas_en_memoria \in [Procesos -> Int]
  /\ \A l \in Procesos \cup {Todos} :
       \A q \in Range(lista_reemplazo[l]) :
         q \in Usadas /\ q[2] <= Len(paginas[q[1]])
  /\ ultimo_Clock \in [Procesos -> Nat]
  /\ Len(tlb) <= config.CANTIDAD_ENTRADAS_TLB
  /\ \A i \in DOMAIN tlb : tlb[i] \in [pagina : Usadas, marco : Marcos]
  /\ caida \in BOOLEAN /\ cruces \in Nat

\* Two pages in memory never share a frame: with dynamic assignment as long as
\* actualizarLRU has not taken out the page of another process (cruces = 0);
\* with fixed assignment, while swap has lost no page, among the pages of a
\* process, which lie in its frames and in the first of the next process,
\* which getMarco gives too.
MarcoDeUno ==
  /\ ~Fija /\ cruces = 0 =>
       \A p, q \in Presentes : p # q => Pagina(p).marco # Pagina(q).marco
  /\ Fija /\ ~perdidas =>
       /\ \A p, q \in Presentes :
            p # q /\ p[1] = q[1] => Pagina(p).marco # Pagina(q).marco
       /\ \A p \in Presentes :
            LET i == Lugar(p[1]) - 1
            IN  Pagina(p).marco \in (i * config.MARCOS_POR_CARPINCHO)
                                     ..((i + 1) * config.MARCOS_POR_CARPINCHO)

\* paginas_en_memoria, from which getMarco computes a frame, is the number of
\* pages of the process in memory, through replacements of and by others, as
\* long as actualizarLRU has not taken out the page of another process for one
\* of its number (cruces = 0; with dynamic assignment and LRU, as memoria.cfg
\* has it, that excludes most accesses of two carpinchos to one page number)
\* and swap has lost no page (~perdidas).
CuentaExacta ==
  cruces = 0 /\ ~perdidas =>
    \A p \in Procesos :
      paginas_en_memoria[p] = Cardinality({q \in Presentes : q[1] = p})

\* The list of LRU is the pages in memory, once each, in the order of their
\* last reference, so the victim is the one that goes longest without one,
\* though the TLB may send an access to a page that is not in memory.  Only
\* while cruces = 0: when two carpinchos use a page of one number, the list of
\* dynamic assignment has one of them twice and the other not at all.
OrdenDeReferencia ==
  ~Clock /\ cruces = 0 =>
    \A l \in IF Fija THEN Procesos ELSE {Todos} :
      LET s == lista_reemplazo[l] IN
      /\ IsInjective(s)
      /\ Range(s) = {q \in Presentes : Fija => q[1] = l}
      /\ \A i, j \in DOMAIN s : i < j =>
           \E a, b \in DOMAIN referencias :
             a < b /\ referencias[a] = s[i] /\ referencias[b] = s[j]

\* A page of memoria is in memory or in swap and not in both, except while it
\* travels: what swap keeps is what memoria believes it does.  Only while the
\* list of LRU is right (cruces = 0) and swap has lost no page (~perdidas),
\* which it does when two carpinchos have pages of one number there.
EnUnSoloLugar ==
  cruces = 0 /\ ~perdidas /\ operacion = Libre =>
    \A p \in Usadas :
      p[2] <= Len(paginas[p[1]]) =>
        (Pagina(p).presencia <=> p \notin guardadas)

\* With at most one entry, what the TLB says of a page is true, or the page is
\* the victim on its way to swap.
TlbFiel ==
  config.CANTIDAD_ENTRADAS_TLB <= 1 =>
    \A i \in DOMAIN tlb :
      /\ tlb[i].pagina \in Presentes
      /\ tlb[i].marco = Pagina(tlb[i].pagina).marco

\* The clock never goes round for ever: some page in it is in memory whenever
\* a victim is looked for, though pages that come later are not added to it.
\* The last of its pages does not leave before memoria falls.
RelojConVictima ==
  Necesita /\ GetMarco = -1 /\ Clock /\ Fija
  /\ ultimo_Clock[tabla_paginas] < Len(lista_reemplazo[Lista])
    => Gira.lugar # 0

\* Each request ends, unless a page was lost in swap or memoria falls: nobody
\* waits for ever for mutex_memoria.
PedidoTermina ==
  operacion # Libre ~> operacion = Libre \/ caida \/ perdidas
=============================================================================
