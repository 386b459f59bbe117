------------------------------- MODULE Swap -------------------------------
(***************************************************************************)
(* The swap process: the files, the frames they are cut into, the pages    *)
(* stored in them, and the conversation with memoria, its only client: one *)
(* request at a time, SWAPSAVE or SWAPFREE, and its answer.                *)
(*                                                                         *)
(* Sizes are counted in pages.  What is copied of a page is not what       *)
(* memoria sent: its contents have no terminator, and strlen() decides how *)
(* many bytes are written, fewer than the contents if they hold a zero     *)
(* byte, more if they do not.  With the headers that go before each of     *)
(* them, the text of a page may exceed its frame.  Writing a page copies   *)
(* the mapping of its file up to the end of the page: mapping and file are *)
(* one value here, archivos.  The mapping is taken from lista_mapeos by    *)
(* the number of the file.                                                 *)
(***************************************************************************)
EXTENDS Integers, Sequences, FiniteSets, FiniteSetsExt, Listas

CONSTANTS
  Procesos,         \* the pids
  Paginas,          \* the page numbers
  Datos,            \* the contents of a page
  Escritos,         \* of some contents: the texts that strlen() may make
  Largos,           \* the texts that exceed a frame
  Usadas,           \* the pairs <<pid, page number>> that memoria has
  CantidadArchivos, \* the files of ARCHIVOS_SWAP
  Tamanios,         \* of a file: TAMANIO_SWAP / TAMANIO_PAGINA
  Tipos,            \* the values of TIPO_ASIGNACION
  Maximos           \* those of MARCOS_MAXIMOS

ASSUME ConstantesOK ==
  /\ CantidadArchivos \in Nat \ {0} /\ Tamanios \subseteq Nat \ {0}
  /\ Usadas \subseteq Procesos \X Paginas
  /\ Maximos \subseteq Nat \ {0}
  /\ Tipos \subseteq {"GLOBAL", "FIJA"}

VARIABLES
  TIPO_ASIGNACION, MARCOS_MAXIMOS, MarcosPorArchivo, \* the configuration
  tabla_marcos,              \* file, base, esta_libre, proceso_asignado
  lista_paginas_almacenadas, \* id_proceso, numero_pagina, marco (an index);
                             \* history: texto, what was written of it
  archivos,                  \* what each file has at each place
  espacio_disponible,        \* of each file
  lista_mapeos,              \* its length, up to CantidadArchivos
  pedido, respuesta,         \* what is on the way from and to memoria
  en_swap,    \* history: the pages saved and not asked back since
  perdidas    \* history: did a page leave that nobody asked for?

marcos == <<tabla_marcos, lista_paginas_almacenadas, archivos,
            espacio_disponible, lista_mapeos>>
configuracion == <<TIPO_ASIGNACION, MARCOS_MAXIMOS, MarcosPorArchivo>>
swapVars == <<configuracion, marcos, pedido, respuesta, en_swap, perdidas>>

Archivos == 1..CantidadArchivos
Lugares == 0..(MarcosPorArchivo - 1)
Nada         == "nada"    \* nothing was written
Basura       == "basura"  \* bytes that may be anything
Textos       == UNION {Escritos[dato] : dato \in Datos}
Guardados    == Textos \cup {Basura}
SinPedido    == [op |-> "ninguno"]
SinRespuesta == [cod |-> "ninguna"]
Silencio     == [cod |-> "silencio"] \* no answer to a request, nor to come
Perdido      == [cod |-> "perdido"]  \* swap ended: an invalid pointer
Caido        == [cod |-> "caido"]    \* swap ended, storing a page
SinDueno == "-1"
Cero     == "0"        \* the pid 0, which no carpincho has

\* 0 is a pid that no carpincho has, -1 none at all
ASSUME DuenosOK == {SinDueno, Cero} \cap Procesos = {}

\* what is written of a page is something
ASSUME TextosOK == {Nada, Basura} \cap Textos = {} /\ Largos \subseteq Textos

\* instanciar_marcos_fija: all the frames of all the files, one file after
\* another, free and of nobody
MarcosFijos ==
  [i \in 1..(CantidadArchivos * MarcosPorArchivo) |->
     [file |-> (i - 1) \div MarcosPorArchivo + 1,
      base |-> (i - 1) % MarcosPorArchivo,
      esta_libre |-> TRUE, proceso_asignado |-> SinDueno]]

\* crear_archivos_swap: frames exist from the start only if they are fixed
Init ==
  /\ TIPO_ASIGNACION \in Tipos /\ MARCOS_MAXIMOS \in Maximos
  /\ MarcosPorArchivo \in Tamanios
  /\ tabla_marcos = IF TIPO_ASIGNACION = "FIJA" THEN MarcosFijos ELSE <<>>
  /\ lista_paginas_almacenadas = <<>>
  /\ archivos = [f \in Archivos |-> [b \in Lugares |-> Nada]]
  /\ espacio_disponible = [f \in Archivos |-> MarcosPorArchivo]
  /\ lista_mapeos = 0
  /\ pedido = SinPedido /\ respuesta = SinRespuesta
  /\ en_swap = {} /\ perdidas = FALSE
-----------------------------------------------------------------------------
(* Where a page goes *)

\* mutant: a page fits in a file that has no bytes left
CabeSiempre(f) == espacio_disponible[f] >= 0

\* bytes_a_guardar <= espacio_disponible
Cabe(f) == espacio_disponible[f] >= 1

\* the places of lista_paginas_almacenadas with the pages of a process
PaginasDe(pid) == {i \in DOMAIN lista_paginas_almacenadas :
                     lista_paginas_almacenadas[i].id_proceso = pid}

\* the first of the files with most space
MasEspacio ==
  Primero({f \in Archivos :
             \A g \in Archivos :
               espacio_disponible[g] <= espacio_disponible[f]})

\* the file where the process has a page already, or else MasEspacio
ArchivoDe(pid) ==
  LET i == Primero(PaginasDe(pid)) IN
  IF i # 0 THEN tabla_marcos[lista_paginas_almacenadas[i].marco].file
  ELSE MasEspacio

\* seleccionar_archivo_escritura: 0 if there is no space for a page
ArchivoEscritura(pid) ==
  IF Cabe(ArchivoDe(pid)) THEN ArchivoDe(pid) ELSE 0

MarcosDe(f) == {i \in DOMAIN tabla_marcos : tabla_marcos[i].file = f}

Libres(f) == {i \in MarcosDe(f) : tabla_marcos[i].esta_libre}

\* the free frames of file f that are kept for a process, or of nobody
LibresDe(f, proceso) ==
  {i \in Libres(f) : tabla_marcos[i].proceso_asignado = proceso}

\* mutant: nobody's frame, whether it is free or not
MarcoDeNadie(f) ==
  Primero({i \in MarcosDe(f) : tabla_marcos[i].proceso_asignado = SinDueno})

\* seleccionar_marco_libre, 0 for none
MarcoLibre(f) == Primero(LibresDe(f, SinDueno))

\* instanciar_marco_global: a frame after the last of the file
MarcoNuevo(f) ==
  [file |-> f, base |-> Max({0} \cup {tabla_marcos[i].base + 1 :
                                        i \in MarcosDe(f)}),
   esta_libre |-> FALSE, proceso_asignado |-> SinDueno]

\* can MARCOS_MAXIMOS frames still be kept for the process?
Alcanza(libres, marcos_proceso) == libres >= MARCOS_MAXIMOS - marcos_proceso

\* seleccionar_marco_libre_fija: a frame reserved for the process, else the
\* first free one of nobody; then the loop reserves free frames, that one
\* first, while more than MARCOS_MAXIMOS are left.  The result: the frame,
\* 0 for none, and those reserved
MarcoFijo(proceso, f) ==
  LET de_nadie == LibresDe(f, SinDueno)
      marcos_libres == Cardinality(Libres(f))
      marcos_proceso == Cardinality(PaginasDe(proceso))
      sobran == marcos_libres - 1 - MARCOS_MAXIMOS
  IN  IF marcos_proceso < MARCOS_MAXIMOS /\ LibresDe(f, proceso) # {}
      THEN [marco |-> Primero(LibresDe(f, proceso)), reservados |-> {}]
      ELSE IF /\ marcos_proceso < MARCOS_MAXIMOS
              /\ Alcanza(marcos_libres, marcos_proceso)
      THEN [marco |-> Primero(de_nadie),
            reservados |-> {i \in de_nadie : Puesto(i, de_nadie) <= sobran}]
      ELSE [marco |-> 0, reservados |-> {}]
-----------------------------------------------------------------------------
(* The operations.  Swap answers one request before it reads the next. *)

PaginaAlmacenada(i, texto) ==
  [id_proceso |-> pedido.pid, numero_pagina |-> pedido.pagina, marco |-> i,
   texto |-> texto]

\* mutant: the mapping is only made for the first file
MapeadoUno(f) ==
  IF espacio_disponible[f] = MarcosPorArchivo /\ f = 1
  THEN lista_mapeos' = CHOOSE n \in {lista_mapeos + 1, CantidadArchivos} :
                         n <= lista_mapeos + 1 /\ n <= CantidadArchivos
  ELSE UNCHANGED lista_mapeos

\* a file that is empty, again or for the first time, adds a mapping
Mapeado(f) ==
  IF espacio_disponible[f] = MarcosPorArchivo
  THEN lista_mapeos' = CHOOSE n \in {lista_mapeos + 1, CantidadArchivos} :
                         n <= lista_mapeos + 1 /\ n <= CantidadArchivos
  ELSE UNCHANGED lista_mapeos

\* does a text written at a place of file f reach another one?  A long one
\* goes on over the places after it, and beyond the mapping over whatever is
\* there, the mappings of other files too
Pisa(texto, f, base, g, b) == texto \in Largos /\ (g # f \/ b > base)

\* mutant: the page is noted down but not written
NoEscribe(f, base, texto) == UNCHANGED archivos

\* memcpy of the headers and of strlen() bytes.  What is written over, and a
\* long text whose end may be, is not what it was any more
Escribe(f, base, texto) ==
  archivos' = [g \in Archivos |-> [b \in Lugares |->
    IF g = f /\ b = base THEN texto
    ELSE IF Pisa(texto, f, base, g, b) \/ archivos[g][b] \in Largos
         THEN Basura ELSE archivos[g][b]]]

\* the page goes to frame i of file f; tabla is tabla_marcos before
Almacena(tabla, f, i, proceso, texto) ==
  /\ tabla_marcos' = [tabla EXCEPT ![i].esta_libre = FALSE,
                                   ![i].proceso_asignado = proceso]
  /\ Escribe(f, tabla[i].base, texto)
  /\ lista_paginas_almacenadas' =
       Append(lista_paginas_almacenadas, PaginaAlmacenada(i, texto))
  /\ espacio_disponible' = [espacio_disponible EXCEPT ![f] = @ - 1]
  /\ en_swap' = en_swap \cup {<<pedido.pid, pedido.pagina>>}
  /\ respuesta' = [cod |-> "PAGINA_GUARDADA"]
  /\ UNCHANGED perdidas

\* asignacion_global_de_pagina: a free frame, or a new one, of nobody
AsignaGlobal(f, texto) ==
  LET i == MarcoLibre(f) IN
  IF i # 0 THEN Almacena(tabla_marcos, f, i, pedido.pid, texto)
  ELSE Almacena(Append(tabla_marcos, MarcoNuevo(f)), f,
                Len(tabla_marcos) + 1, SinDueno, texto)

NadaGuardado ==
  UNCHANGED <<tabla_marcos, lista_paginas_almacenadas, archivos,
              espacio_disponible, en_swap, perdidas>>

NoGuardada == respuesta' = [cod |-> "PAGINA_NO_GUARDADA"] /\ NadaGuardado

\* memcpy goes on past the end of the mapping, and swap ends there: what its
\* tables say does not matter any more
Desborda(texto) == texto \in Largos /\ respuesta' = Caido /\ NadaGuardado

\* asignacion_fija_de_pagina: id_carpincho is 0 whoever asks, and what is
\* copied is the pointer to the contents and the bytes after it
AsignaFija(f) ==
  LET r == MarcoFijo(Cero, f)
      tabla == [i \in DOMAIN tabla_marcos |->
                  IF i \in r.reservados
                  THEN [tabla_marcos[i] EXCEPT !.proceso_asignado = Cero]
                  ELSE tabla_marcos[i]]
  IN  IF r.marco # 0 THEN Almacena(tabla, f, r.marco, pedido.pid, Basura)
      ELSE NoGuardada

Atendido == pedido' = SinPedido /\ UNCHANGED configuracion

\* ejecutar_operacion, SWAPSAVE: insertar_pagina_en_archivo
SwapSave ==
  /\ pedido.op = "SWAPSAVE"
  /\ \E texto \in Escritos[pedido.dato] :
       LET f == ArchivoEscritura(pedido.pid) IN
       \/ f = 0 /\ NoGuardada /\ UNCHANGED lista_mapeos
       \/ /\ f # 0 /\ Mapeado(f)
          /\ \/ TIPO_ASIGNACION = "GLOBAL" /\ AsignaGlobal(f, texto)
             \/ TIPO_ASIGNACION = "FIJA" /\ AsignaFija(f)
             \/ /\ TIPO_ASIGNACION = "FIJA" => MarcoFijo(Cero, f).marco # 0
                /\ Desborda(texto)
  /\ Atendido

\* the stored pages of that number, whoever's they are
ConNumero(numero) ==
  {i \in DOMAIN lista_paginas_almacenadas :
     lista_paginas_almacenadas[i].numero_pagina = numero}

\* the entries that the loop of eliminar_pagina looks at: after it removes
\* one, the next takes its place and is skipped.  In a row of entries of that
\* number it looks at every other one, and at what follows them or not
Visitadas(numero) ==
  {i \in DOMAIN lista_paginas_almacenadas :
     \E j \in 1..i : /\ j - 1 \notin ConNumero(numero)
                    /\ j..(i - 1) \subseteq ConNumero(numero)
                    /\ (i - j) % 2 = 0}

\* mutant: every page of the process leaves
SalenDelProceso(numero) ==
  {i \in Visitadas(numero) :
     lista_paginas_almacenadas[i].id_proceso = pedido.pid}

Salen(numero) == Visitadas(numero) \cap ConNumero(numero)

\* mutant: the frame stays taken
EliminaSinLiberar(numero) ==
  LET lista == lista_paginas_almacenadas
      k == Primero(ConNumero(numero))
      file == tabla_marcos[lista[k].marco].file
  IN  /\ tabla_marcos' = tabla_marcos
      /\ lista_paginas_almacenadas' = Quedan(lista, DOMAIN lista \ {k})
      /\ espacio_disponible' = [espacio_disponible EXCEPT ![file] = @ + 1]

\* eliminar_pagina: the frame of the first page of that number is freed,
\* whoever's it is, and the pages of that number that the loop meets leave
\* the list; with none left of that process, its reservations end
Elimina(numero) ==
  LET lista == lista_paginas_almacenadas
      pagina == lista[Primero(ConNumero(numero))]
      file == tabla_marcos[pagina.marco].file
      paginas_proceso ==
        Cardinality(Visitadas(numero) \cap PaginasDe(pagina.id_proceso)) - 1
      tabla == [tabla_marcos EXCEPT ![pagina.marco].esta_libre = TRUE,
                                    ![pagina.marco].proceso_asignado = SinDueno]
  IN  /\ tabla_marcos' =
           [i \in DOMAIN tabla |->
              IF /\ TIPO_ASIGNACION = "FIJA" /\ paginas_proceso = 0
                 /\ tabla[i].proceso_asignado = pagina.id_proceso
              THEN [tabla[i] EXCEPT !.proceso_asignado = SinDueno]
              ELSE tabla[i]]
      /\ lista_paginas_almacenadas' =
           Quedan(lista, DOMAIN lista \ Salen(numero))
      /\ espacio_disponible' = [espacio_disponible EXCEPT ![file] = @ + 1]

\* the frame of a stored page, and what is there now
Lugar(i) == tabla_marcos[lista_paginas_almacenadas[i].marco]
Contenido(i) == archivos[Lugar(i).file][Lugar(i).base]

\* ejecutar_operacion, SWAPFREE: leer_pagina_de_archivo looks for the page
\* of the process.  If it is not there the answer is not filled in: the list
\* of its contents is read through whatever pointer is there, and nothing is
\* sent; swap ends (Perdido) or goes on to the next request
SwapFree ==
  /\ pedido.op = "SWAPFREE"
  /\ LET i == Primero(PaginasDe(pedido.pid) \cap ConNumero(pedido.pagina))
     IN \/ /\ i # 0
           /\ Elimina(pedido.pagina)
           /\ perdidas' = (perdidas \/ Salen(pedido.pagina) # {i})
           /\ respuesta' = [cod |-> "RECEPCION_PAGINA", pid |-> pedido.pid,
                            pagina |-> pedido.pagina, texto |-> Contenido(i)]
        \/ /\ i = 0
           /\ respuesta' \in {Silencio, Perdido}
           /\ UNCHANGED <<tabla_marcos, lista_paginas_almacenadas,
                          espacio_disponible, perdidas>>
  /\ en_swap' = en_swap \ {<<pedido.pid, pedido.pagina>>}
  /\ Atendido
  /\ UNCHANGED <<archivos, lista_mapeos>>
-----------------------------------------------------------------------------
(* memoria, as swap sees it: it saves pages that are not in swap, asks for *)
(* those it saved, and reads each answer before the next request.          *)

\* enviarPaginaSwap
EnviaPagina(pid, pagina, dato) ==
  /\ pedido' = [op |-> "SWAPSAVE", pid |-> pid, pagina |-> pagina,
                dato |-> dato]
  /\ UNCHANGED <<configuracion, marcos, respuesta, en_swap, perdidas>>

\* recibirPaginaSwap
PidePagina(pid, pagina) ==
  /\ pedido' = [op |-> "SWAPFREE", pid |-> pid, pagina |-> pagina]
  /\ UNCHANGED <<configuracion, marcos, respuesta, en_swap, perdidas>>

\* recibir_paquete
RecibeRespuesta ==
  /\ respuesta \notin {SinRespuesta, Silencio, Perdido, Caido}
  /\ respuesta' = SinRespuesta
  /\ UNCHANGED <<configuracion, marcos, pedido, en_swap, perdidas>>

Cliente ==
  \/ /\ pedido = SinPedido /\ respuesta = SinRespuesta
     /\ \E pp \in Usadas :
          \/ /\ pp \notin en_swap
             /\ \E dato \in Datos : EnviaPagina(pp[1], pp[2], dato)
          \/ /\ pp \in en_swap
             /\ PidePagina(pp[1], pp[2])
  \/ RecibeRespuesta

Swap == SwapSave \/ SwapFree

Next == Cliente \/ Swap

Spec == Init /\ [][Next]_swapVars
-----------------------------------------------------------------------------
(* Properties *)

Marco == [file : Archivos, base : Lugares, esta_libre : BOOLEAN,
          proceso_asignado : Procesos \cup {SinDueno, Cero}]

\* The type invariant of the module: in particular no frame lies beyond the
\* end of its file and the space left in a file is never negative.
TypeOK ==
  /\ TIPO_ASIGNACION \in Tipos /\ MARCOS_MAXIMOS \in Maximos
  /\ MarcosPorArchivo \in Tamanios
  /\ tabla_marcos \in Seq(Marco)
  /\ lista_paginas_almacenadas \in
       Seq([id_proceso : Procesos, numero_pagina : Paginas,
            marco : DOMAIN tabla_marcos, texto : Guardados])
  /\ archivos \in [Archivos -> [Lugares -> Guardados \cup {Nada}]]
  /\ espacio_disponible \in [Archivos -> 0..MarcosPorArchivo]
  /\ lista_mapeos \in 0..CantidadArchivos
  /\ pedido \in {SinPedido}
       \cup [op : {"SWAPSAVE"}, pid : Procesos, pagina : Paginas, dato : Datos]
       \cup [op : {"SWAPFREE"}, pid : Procesos, pagina : Paginas]
  /\ respuesta \in {SinRespuesta, Silencio, Perdido, Caido}
       \cup [cod : {"PAGINA_GUARDADA", "PAGINA_NO_GUARDADA"}]
       \cup [cod : {"RECEPCION_PAGINA"}, pid : Procesos, pagina : Paginas,
             texto : Guardados \cup {Nada}]
  /\ en_swap \subseteq Usadas
  /\ perdidas \in BOOLEAN

Almacenadas == DOMAIN lista_paginas_almacenadas

\* Two stored pages are never in one frame, nor two frames in one place of a
\* file, and the frame of a stored page is not free: no page is written over
\* another, whatever frames were freed, reused and created before.
MarcoExclusivo ==
  /\ \A i \in Almacenadas :
       /\ ~Lugar(i).esta_libre
       /\ \A j \in Almacenadas : i # j =>
            lista_paginas_almacenadas[i].marco
              # lista_paginas_almacenadas[j].marco
  /\ \A m, n \in DOMAIN tabla_marcos :
       m # n => \/ tabla_marcos[m].file # tabla_marcos[n].file
                \/ tabla_marcos[m].base # tabla_marcos[n].base

\* The space of a file, on which the choice of a file relies, is what its
\* frames say: its size less the frames that are taken.  It holds also when
\* the elimination of one page takes others with it, whose frames then stay
\* taken for good.
EspacioExacto ==
  \A f \in Archivos :
    espacio_disponible[f] = MarcosPorArchivo
      - Cardinality(MarcosDe(f) \ Libres(f))

\* list_get(lista_mapeos, posicion_archivo) always finds a mapping, though
\* the list grows in the order in which files happen to be empty: a file with
\* something stored has an entry at its own number.
MapeoExiste ==
  \A f \in Archivos :
    espacio_disponible[f] < MarcosPorArchivo => lista_mapeos >= f

\* With the global assignment the file has, at the place of a stored page,
\* what was last written of that page, never what an earlier page left there
\* nor another one's; and it is spoilt only where some text exceeds a frame.
\* What was written is not always what memoria sent (strlen).
ContenidoFiel ==
  TIPO_ASIGNACION = "GLOBAL" =>
    \A i \in Almacenadas :
      \/ Contenido(i) = lista_paginas_almacenadas[i].texto
      \/ Contenido(i) = Basura /\ Largos # {}

\* What memoria saved stays in swap until memoria asks for it
\* (eliminar_pagina: "Eliminación de una página").
GuardadaHastaPedida ==
  \A pp \in en_swap : PaginasDe(pp[1]) \cap ConNumero(pp[2]) # {}

\* Swap implements Almacen: seen from memoria, whatever the assignment, the
\* files and the frames, a request has the effect and one of the answers that
\* Memoria relies on; in particular only pages of the number asked for leave.
PedidoAbstracto ==
  IF pedido = SinPedido THEN pedido
  ELSE [op |-> pedido.op, pagina |-> <<pedido.pid, pedido.pagina>>]
RespuestaAbstracta ==
  IF respuesta.cod # "RECEPCION_PAGINA" THEN respuesta
  ELSE [cod |-> respuesta.cod, pagina |-> <<respuesta.pid, respuesta.pagina>>]
A == INSTANCE Almacen WITH
       pedido <- PedidoAbstracto, respuesta <- RespuestaAbstracta,
       guardadas <- {<<lista_paginas_almacenadas[i].id_proceso,
                       lista_paginas_almacenadas[i].numero_pagina>> :
                      i \in DOMAIN lista_paginas_almacenadas},
       perdidas <- perdidas
ImplementaAlmacen == A!Spec
=============================================================================
