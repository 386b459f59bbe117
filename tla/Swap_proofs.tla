---------------------------- MODULE Swap_proofs ----------------------------
(***************************************************************************)
(* Proofs of the invariants of Swap, and that Swap implements Almacen, for *)
(* any processes, pages, files and sizes and both assignments.             *)
(***************************************************************************)
EXTENDS Swap, Listas_proofs

\* The page that an entry of lista_paginas_almacenadas is about
Par(i) == <<lista_paginas_almacenadas[i].id_proceso,
            lista_paginas_almacenadas[i].numero_pagina>>

\* While a request is on its way there is no answer, and memoria asks back
\* what it saved and nothing else.
Conversacion ==
  pedido # SinPedido =>
    /\ respuesta = SinRespuesta
    /\ <<pedido.pid, pedido.pagina>> \in Usadas
    /\ (pedido.op = "SWAPSAVE") =
         (<<pedido.pid, pedido.pagina>> \notin en_swap)

\* With the global assignment a free frame is of nobody, and the frames of a
\* file fill it from its start.
MarcosGlobales ==
  TIPO_ASIGNACION = "GLOBAL" =>
    /\ \A i \in DOMAIN tabla_marcos :
         tabla_marcos[i].esta_libre => tabla_marcos[i].proceso_asignado = SinDueno
    /\ \A f \in Archivos : \A i \in MarcosDe(f) :
         tabla_marcos[i].base < Cardinality(MarcosDe(f))

\* No page is stored twice, and what is stored was saved and not asked back,
\* until a page leaves that nobody asked for.
UnaVez ==
  ~perdidas =>
    /\ \A i, j \in Almacenadas : Par(i) = Par(j) => i = j
    /\ \A i \in Almacenadas : Par(i) \in en_swap

\* The inductive invariant
IInv == /\ TypeOK /\ MarcoExclusivo /\ EspacioExacto /\ MapeoExiste
        /\ Conversacion /\ MarcosGlobales /\ UnaVez /\ ContenidoFiel
-----------------------------------------------------------------------------
(* Facts about the operators of Swap *)

\* The quotient and the remainder of an index are a file and a frame of it.
LEMMA CocienteYResto ==
  ASSUME NEW C \in Nat \ {0}, NEW M \in Nat \ {0}, NEW k \in 0..(C * M - 1)
  PROVE  /\ k \div M \in 0..(C - 1)
         /\ k % M \in 0..(M - 1)
         /\ k = M * (k \div M) + (k % M)
  <1>1. /\ k % M \in 0..(M - 1) /\ k \div M \in Int
        /\ k = M * (k \div M) + (k % M)
    OBVIOUS
  <1>2. k \div M >= 0
    BY <1>1
  <1>3. ASSUME k \div M >= C
        PROVE  FALSE
    <2>1. M * (k \div M) >= M * C
      BY <1>1, <1>3
    <2> QED
      BY <2>1, <1>1
  <1> QED
    BY <1>1, <1>2, <1>3

\* The sets of places of Swap are finite.
LEMMA LugaresFinitos ==
  ASSUME TypeOK
  PROVE  /\ Len(tabla_marcos) \in Nat
         /\ DOMAIN tabla_marcos = 1..Len(tabla_marcos)
         /\ IsFiniteSet(DOMAIN tabla_marcos)
         /\ Len(lista_paginas_almacenadas) \in Nat
         /\ DOMAIN lista_paginas_almacenadas
              = 1..Len(lista_paginas_almacenadas)
         /\ IsFiniteSet(DOMAIN lista_paginas_almacenadas)
         /\ \A i \in DOMAIN tabla_marcos : tabla_marcos[i] \in Marco
         /\ \A i \in DOMAIN lista_paginas_almacenadas :
              lista_paginas_almacenadas[i] \in
                [id_proceso : Procesos, numero_pagina : Paginas,
                 marco : DOMAIN tabla_marcos, texto : Guardados]
  <1>1. tabla_marcos \in Seq(Marco)
    BY DEF TypeOK
  <1>2. lista_paginas_almacenadas \in
          Seq([id_proceso : Procesos, numero_pagina : Paginas,
               marco : DOMAIN tabla_marcos, texto : Guardados])
    BY DEF TypeOK
  <1>3. /\ Len(tabla_marcos) \in Nat
        /\ DOMAIN tabla_marcos = 1..Len(tabla_marcos)
        /\ \A i \in DOMAIN tabla_marcos : tabla_marcos[i] \in Marco
    BY <1>1
  <1>4. /\ Len(lista_paginas_almacenadas) \in Nat
        /\ DOMAIN lista_paginas_almacenadas
             = 1..Len(lista_paginas_almacenadas)
        /\ \A i \in DOMAIN lista_paginas_almacenadas :
             lista_paginas_almacenadas[i] \in
               [id_proceso : Procesos, numero_pagina : Paginas,
                marco : DOMAIN tabla_marcos, texto : Guardados]
    BY <1>2, LenProperties, ElementOfSeq
  <1> QED
    BY <1>3, <1>4, FS_Interval

\* The invariant holds before the first request.
LEMMA IInvInicial == Init => IInv
  <1> SUFFICES ASSUME Init
               PROVE  IInv
    OBVIOUS
  <1> DEFINE M == MarcosPorArchivo
             C == CantidadArchivos
  <1>1. C \in Nat \ {0} /\ M \in Nat \ {0} /\ C * M \in Nat
    BY ConstantesOK DEF Init
  <1>2. \A i \in 1..(C * M) : /\ i - 1 \in 0..(C * M - 1)
                              /\ (i - 1) \div M \in 0..(C - 1)
                              /\ (i - 1) % M \in 0..(M - 1)
                              /\ i - 1 = M * ((i - 1) \div M) + ((i - 1) % M)
    <2> TAKE i \in 1..(C * M)
    <2>1. i - 1 \in 0..(C * M - 1)
      BY <1>1
    <2> QED
      BY <2>1, <1>1, CocienteYResto
  <1>3. /\ MarcosFijos \in [1..(C * M) -> Marco]
        /\ \A i \in 1..(C * M) :
             /\ MarcosFijos[i].file = (i - 1) \div M + 1
             /\ MarcosFijos[i].base = (i - 1) % M
             /\ MarcosFijos[i].esta_libre
    <2>1. \A i \in 1..(C * M) : (i - 1) \div M + 1 \in Archivos
      BY <1>1, <1>2 DEF Archivos
    <2> QED
      BY <1>2, <2>1 DEF MarcosFijos, Marco, Lugares
  <1>4. MarcosFijos \in Seq(Marco) /\ DOMAIN MarcosFijos = 1..(C * M)
    BY <1>1, <1>3
  <1>5. \/ tabla_marcos = MarcosFijos /\ TIPO_ASIGNACION = "FIJA"
        \/ tabla_marcos = <<>> /\ TIPO_ASIGNACION # "FIJA"
    BY DEF Init
  <1>6. tabla_marcos \in Seq(Marco)
    <2>1. CASE tabla_marcos = MarcosFijos
      BY <2>1, <1>4
    <2>2. CASE tabla_marcos = <<>>
      BY <2>2
    <2> QED
      BY <2>1, <2>2, <1>5
  <1>v. tabla_marcos = <<>> => DOMAIN tabla_marcos = {}
    OBVIOUS
  <1>7. /\ lista_paginas_almacenadas = <<>>
        /\ DOMAIN lista_paginas_almacenadas = {}
        /\ lista_paginas_almacenadas \in
             Seq([id_proceso : Procesos, numero_pagina : Paginas,
                  marco : DOMAIN tabla_marcos, texto : Guardados])
    BY DEF Init
  <1>8. TypeOK
    <2>1. espacio_disponible \in [Archivos -> 0..MarcosPorArchivo]
      BY <1>1 DEF Init
    <2>2. lista_mapeos \in 0..CantidadArchivos
      BY <1>1 DEF Init
    <2>3. /\ archivos \in [Archivos -> [Lugares -> Guardados \cup {Nada}]]
          /\ en_swap \subseteq Usadas
      BY DEF Init
    <2> QED
      BY <1>6, <1>7, <2>1, <2>2, <2>3 DEF Init, TypeOK
  <1>9. \A i \in DOMAIN tabla_marcos : tabla_marcos[i].esta_libre
    <2>1. CASE tabla_marcos = MarcosFijos
      BY <2>1, <1>3, <1>4
    <2>2. CASE tabla_marcos = <<>>
      BY <2>2, <1>v
    <2> QED
      BY <2>1, <2>2, <1>5
  <1>10. MarcoExclusivo
    <2>1. ASSUME NEW m \in 1..(C * M), NEW n \in 1..(C * M), m # n
          PROVE  \/ MarcosFijos[m].file # MarcosFijos[n].file
                 \/ MarcosFijos[m].base # MarcosFijos[n].base
      <3> SUFFICES ASSUME MarcosFijos[m].file = MarcosFijos[n].file,
                          MarcosFijos[m].base = MarcosFijos[n].base
                   PROVE  FALSE
        OBVIOUS
      <3> DEFINE qm == (m - 1) \div M
                 qn == (n - 1) \div M
      <3>1. qm \in Int /\ qn \in Int /\ qm + 1 = qn + 1
            /\ (m - 1) % M = (n - 1) % M
        BY <1>2, <1>3
      <3>2. qm = qn
        BY <3>1
      <3>3. m - 1 = n - 1
        BY <3>1, <3>2, <1>2
      <3> QED
        BY <3>3, <2>1
    <2>2. \A m, n \in DOMAIN tabla_marcos :
            m # n => \/ tabla_marcos[m].file # tabla_marcos[n].file
                     \/ tabla_marcos[m].base # tabla_marcos[n].base
      <3>1. CASE tabla_marcos = MarcosFijos
        BY <3>1, <2>1, <1>4
      <3>2. CASE tabla_marcos = <<>>
        BY <3>2, <1>v
      <3> QED
        BY <3>1, <3>2, <1>5
    <2> QED
      BY <2>2, <1>7 DEF MarcoExclusivo, Almacenadas
  <1>11. EspacioExacto
    <2>1. \A f \in Archivos : MarcosDe(f) \ Libres(f) = {}
      BY <1>9 DEF MarcosDe, Libres
    <2>2. Cardinality({}) = 0
      BY FS_EmptySet
    <2>3. \A f \in Archivos : espacio_disponible[f] = MarcosPorArchivo
      BY DEF Init
    <2> QED
      BY <2>1, <2>2, <2>3, <1>1 DEF EspacioExacto
  <1>12. MapeoExiste
    BY <1>1 DEF Init, MapeoExiste
  <1>13. Conversacion
    BY DEF Init, Conversacion
  <1>14. MarcosGlobales
    BY <1>5 DEF MarcosGlobales, MarcosDe
  <1>15. UnaVez /\ ContenidoFiel
    BY <1>7 DEF UnaVez, ContenidoFiel, Almacenadas, Init
  <1> QED
    BY <1>8, <1>10, <1>11, <1>12, <1>13, <1>14, <1>15 DEF IInv
-----------------------------------------------------------------------------
(* SWAPSAVE *)

\* The frames of a file, and the sets the operations choose from
LEMMA MarcosFinitos ==
  ASSUME TypeOK, NEW f
  PROVE  /\ MarcosDe(f) \subseteq DOMAIN tabla_marcos
         /\ Libres(f) \subseteq MarcosDe(f)
         /\ IsFiniteSet(MarcosDe(f)) /\ IsFiniteSet(MarcosDe(f) \ Libres(f))
         /\ Cardinality(MarcosDe(f)) \in Nat
         /\ Cardinality(MarcosDe(f) \ Libres(f)) \in Nat
  <1>1. /\ MarcosDe(f) \subseteq DOMAIN tabla_marcos
        /\ Libres(f) \subseteq MarcosDe(f)
    BY DEF MarcosDe, Libres
  <1>2. IsFiniteSet(MarcosDe(f))
    BY <1>1, LugaresFinitos, FS_Subset
  <1>3. IsFiniteSet(MarcosDe(f) \ Libres(f))
    BY <1>2, FS_Difference
  <1> QED
    BY <1>1, <1>2, <1>3, FS_CardinalityType

\* The file that is chosen for a page is a file with space; if the process
\* has no page, or all the files are empty, every file before it is in use.
LEMMA ArchivoElegido ==
  ASSUME IInv, NEW pid \in Procesos, ArchivoEscritura(pid) # 0
  PROVE  /\ ArchivoEscritura(pid) \in Archivos
         /\ espacio_disponible[ArchivoEscritura(pid)] \in 1..MarcosPorArchivo
         /\ espacio_disponible[ArchivoEscritura(pid)] = MarcosPorArchivo =>
              \A g \in Archivos : g < ArchivoEscritura(pid) =>
                espacio_disponible[g] < MarcosPorArchivo
  <1> DEFINE f == ArchivoDe(pid)
             i == Primero(PaginasDe(pid))
             lista == lista_paginas_almacenadas
             M == MarcosPorArchivo
  <1>1. ArchivoEscritura(pid) = f /\ Cabe(f)
    BY DEF ArchivoEscritura
  <1>2. /\ TypeOK /\ MarcoExclusivo /\ EspacioExacto /\ M \in Nat \ {0}
        /\ CantidadArchivos \in Nat \ {0}
        /\ espacio_disponible \in [Archivos -> 0..M]
    BY ConstantesOK DEF IInv, TypeOK
  <1>3. CASE i # 0
    <2>1. PaginasDe(pid) \subseteq 1..Len(lista) /\ Len(lista) \in Nat
          /\ DOMAIN lista = 1..Len(lista)
      BY <1>2, LugaresFinitos DEF PaginasDe
    <2>2. i \in PaginasDe(pid) /\ i \in DOMAIN lista
      BY <2>1, <1>3, PrimeroEsMinimo
    <2>3. f = tabla_marcos[lista[i].marco].file
      BY <1>3 DEF ArchivoDe
    <2>4. lista[i].marco \in DOMAIN tabla_marcos
          /\ tabla_marcos[lista[i].marco] \in Marco
      BY <2>2, <1>2, LugaresFinitos
    <2>5. f \in Archivos
      BY <2>3, <2>4 DEF Marco
    <2>6. ~tabla_marcos[lista[i].marco].esta_libre
      BY <2>2, <1>2 DEF MarcoExclusivo, Almacenadas, Lugar
    <2>7. lista[i].marco \in MarcosDe(f) \ Libres(f)
      BY <2>3, <2>4, <2>6 DEF MarcosDe, Libres
    <2>8. Cardinality(MarcosDe(f) \ Libres(f)) \in Nat
          /\ IsFiniteSet(MarcosDe(f) \ Libres(f))
      BY <1>2, MarcosFinitos
    <2>9. Cardinality(MarcosDe(f) \ Libres(f)) # 0
      BY <2>7, <2>8, FS_EmptySet
    <2>10. espacio_disponible[f] < M
      BY <2>5, <2>8, <2>9, <1>2 DEF EspacioExacto
    <2> QED
      BY <1>1, <1>2, <2>5, <2>10 DEF Cabe
  <1>4. CASE i = 0
    <2> DEFINE mayores == {h \in Archivos : \A g \in Archivos :
                             espacio_disponible[g] <= espacio_disponible[h]}
               espacios == {M - espacio_disponible[g] : g \in Archivos}
    <2>1. Archivos = 1..CantidadArchivos
      BY DEF Archivos
    <2>2. \A g \in Archivos : espacio_disponible[g] \in 0..M
      BY <1>2
    <2>3. espacios \in SUBSET Int /\ espacios \subseteq 0..M /\ espacios # {}
      BY <2>1, <2>2, <1>2
    <2>4. IsFiniteSet(espacios)
      <3>1. IsFiniteSet(0..M)
        BY <1>2, FS_Interval
      <3> HIDE DEF espacios
      <3> QED
        BY <3>1, <2>3, FS_Subset
    <2>5. PICK e \in espacios : \A d \in espacios : e <= d
      BY <2>3, <2>4, MinimoExiste
    <2>6. PICK h \in Archivos : e = M - espacio_disponible[h]
      BY <2>5
    <2>7. \A g \in Archivos : espacio_disponible[g] <= espacio_disponible[h]
      <3> TAKE g \in Archivos
      <3>1. e <= M - espacio_disponible[g]
        BY <2>5
      <3> QED
        BY <3>1, <2>6, <2>2, <1>2
    <2>8. mayores # {} /\ mayores \subseteq 1..CantidadArchivos
      BY <2>7, <2>1
    <2>9. f = Primero(mayores)
      BY <1>4 DEF ArchivoDe, MasEspacio
    <2> HIDE DEF mayores
    <2>10. f \in mayores /\ \A g \in mayores : f <= g
      BY SMTT(30), <2>8, <2>9, <1>2, PrimeroEsMinimo
    <2>11. f \in Archivos
           /\ \A g \in Archivos :
                espacio_disponible[g] <= espacio_disponible[f]
      BY <2>10 DEF mayores
    <2>12. ASSUME espacio_disponible[f] = M, NEW g \in Archivos, g < f
           PROVE  espacio_disponible[g] < M
      <3>1. g \notin mayores
        BY <2>10, <2>11, <2>12, <2>1
      <3>2. PICK d \in Archivos :
              ~(espacio_disponible[d] <= espacio_disponible[g])
        BY <3>1 DEF mayores
      <3> QED
        BY <3>2, <2>2, <1>2
    <2> QED
      BY <1>1, <2>2, <2>11, <2>12 DEF Cabe
  <1> QED
    BY <1>3, <1>4

\* A new frame goes right after the frames of its file.
LEMMA BaseDeMarcoNuevo ==
  ASSUME IInv, TIPO_ASIGNACION = "GLOBAL", NEW f \in Archivos
  PROVE  MarcoNuevo(f).base = Cardinality(MarcosDe(f))
  <1> DEFINE B == MarcosDe(f)
             c == Cardinality(B)
             b == [i \in B |-> tabla_marcos[i].base]
             cotas == {0} \cup {tabla_marcos[i].base + 1 : i \in B}
  <1>1. TypeOK /\ MarcoExclusivo /\ MarcosGlobales
    BY DEF IInv
  <1>2. /\ IsFiniteSet(B) /\ c \in Nat
        /\ B \subseteq DOMAIN tabla_marcos
        /\ \A i \in B : tabla_marcos[i] \in Marco /\ tabla_marcos[i].file = f
    BY <1>1, MarcosFinitos, LugaresFinitos DEF MarcosDe
  <1>3. MarcosPorArchivo \in Nat
    BY <1>1, ConstantesOK DEF TypeOK
  <1>4. \A i \in B : tabla_marcos[i].base \in 0..(c - 1)
    <2> TAKE i \in B
    <2>1. tabla_marcos[i].base \in Nat
      BY <1>2, <1>3 DEF Marco, Lugares
    <2>2. tabla_marcos[i].base < c
      BY <1>1 DEF MarcosGlobales
    <2> QED
      BY <2>1, <2>2, <1>2
  <1>5. b \in Injection(B, 0..(c - 1))
    <2>1. b \in [B -> 0..(c - 1)]
      BY <1>4
    <2>2. \A i, j \in B : b[i] = b[j] => i = j
      BY <1>1, <1>2 DEF MarcoExclusivo
    <2> QED
      BY <2>1, <2>2 DEF Injection, IsInjective
  <1>6. IsFiniteSet(0..(c - 1)) /\ Cardinality(0..(c - 1)) = c
    BY SMTT(30), <1>2, FS_Interval
  <1>7. b \in Surjection(B, 0..(c - 1))
    BY <1>5, <1>6, FS_Injection
  <1>8. c \in cotas
    <2>1. CASE c = 0
      BY <2>1
    <2>2. CASE c # 0
      <3>1. c - 1 \in 0..(c - 1)
        BY <2>2, <1>2
      <3>2. PICK i \in B : b[i] = c - 1
        BY <3>1, <1>7 DEF Surjection
      <3>3. tabla_marcos[i].base + 1 = c
        BY <3>2, <1>2
      <3> QED
        BY <3>3
    <2> QED
      BY <2>1, <2>2
  <1>9. \A x \in cotas : x \in Int /\ c >= x
    BY <1>2, <1>4
  <1>10. MarcoNuevo(f).base = Max(cotas)
    BY DEF MarcoNuevo
  <1> HIDE DEF cotas
  <1>11. \A x \in cotas : (\A y \in cotas : x >= y) => x = c
    BY <1>8, <1>9
  <1>12. Max(cotas) = c
    BY <1>8, <1>9, <1>11 DEF Max
  <1> QED
    BY <1>10, <1>12

\* What storing text t of a page in frame i of file f changes
Coloca(f, i, t) ==
  /\ f \in Archivos /\ espacio_disponible[f] \in 1..MarcosPorArchivo
  /\ tabla_marcos' \in Seq(Marco)
  /\ DOMAIN tabla_marcos' = DOMAIN tabla_marcos \cup {i}
  /\ \A j \in DOMAIN tabla_marcos \ {i} :
       /\ tabla_marcos'[j].file = tabla_marcos[j].file
       /\ tabla_marcos'[j].base = tabla_marcos[j].base
       /\ tabla_marcos'[j].esta_libre = tabla_marcos[j].esta_libre
       /\ TIPO_ASIGNACION = "GLOBAL" => tabla_marcos'[j] = tabla_marcos[j]
  /\ tabla_marcos'[i].file = f /\ ~tabla_marcos'[i].esta_libre
  /\ t \in Guardados /\ Escribe(f, tabla_marcos'[i].base, t)
  /\ \/ i \in Libres(f) /\ tabla_marcos'[i].base = tabla_marcos[i].base
     \/ /\ i \notin DOMAIN tabla_marcos /\ TIPO_ASIGNACION = "GLOBAL"
        /\ tabla_marcos'[i].base = Cardinality(MarcosDe(f))
  /\ lista_paginas_almacenadas' =
       Append(lista_paginas_almacenadas, PaginaAlmacenada(i, t))
  /\ espacio_disponible' = [espacio_disponible EXCEPT ![f] = @ - 1]
  /\ en_swap' = en_swap \cup {<<pedido.pid, pedido.pagina>>}
  /\ respuesta' = [cod |-> "PAGINA_GUARDADA"]
  /\ perdidas' = perdidas

\* The request in hand is well formed.
LEMMA PedidoBienFormado ==
  ASSUME IInv, pedido.op = "SWAPSAVE" \/ pedido.op = "SWAPFREE"
  PROVE  /\ pedido # SinPedido /\ respuesta = SinRespuesta
         /\ pedido.pid \in Procesos /\ pedido.pagina \in Paginas
         /\ <<pedido.pid, pedido.pagina>> \in Usadas
         /\ pedido.op = "SWAPSAVE" =>
              /\ pedido.dato \in Datos
              /\ <<pedido.pid, pedido.pagina>> \notin en_swap
         /\ pedido.op = "SWAPFREE" =>
              <<pedido.pid, pedido.pagina>> \in en_swap
  <1>1. pedido # SinPedido
    BY DEF SinPedido
  <1>2. pedido \in [op : {"SWAPSAVE"}, pid : Procesos, pagina : Paginas,
                    dato : Datos]
                \cup [op : {"SWAPFREE"}, pid : Procesos, pagina : Paginas]
    BY <1>1 DEF IInv, TypeOK
  <1>3. /\ pedido.pid \in Procesos /\ pedido.pagina \in Paginas
        /\ pedido.op = "SWAPSAVE" => pedido.dato \in Datos
    BY <1>2
  <1>4. Conversacion
    BY DEF IInv
  <1>5. /\ respuesta = SinRespuesta
        /\ <<pedido.pid, pedido.pagina>> \in Usadas
        /\ (pedido.op = "SWAPSAVE") =
             (<<pedido.pid, pedido.pagina>> \notin en_swap)
    BY <1>1, <1>4 DEF Conversacion
  <1>6. pedido.op = "SWAPFREE" => pedido.op # "SWAPSAVE"
    OBVIOUS
  <1> QED
    BY <1>1, <1>3, <1>5, <1>6

\* The global assignment takes a free frame of nobody, or makes one.
LEMMA GlobalColoca ==
  ASSUME IInv, pedido.op = "SWAPSAVE", NEW f \in Archivos,
         espacio_disponible[f] \in 1..MarcosPorArchivo,
         TIPO_ASIGNACION = "GLOBAL", NEW t \in Textos, AsignaGlobal(f, t)
  PROVE  \E i \in Nat : Coloca(f, i, t)
  <1> DEFINE D == DOMAIN tabla_marcos
             n == Len(tabla_marcos)
             i == MarcoLibre(f)
  <1>1. TypeOK /\ EspacioExacto /\ MarcosGlobales /\ MarcosPorArchivo \in Nat
    BY ConstantesOK DEF IInv, TypeOK
  <1>2. /\ tabla_marcos \in Seq(Marco) /\ n \in Nat /\ D = 1..n
        /\ \A j \in D : tabla_marcos[j] \in Marco
        /\ tabla_marcos \in [D -> Marco]
    BY <1>1, LugaresFinitos DEF TypeOK
  <1>3. pedido.pid \in Procesos /\ pedido.dato \in Datos
    BY PedidoBienFormado
  <1>4. LibresDe(f, SinDueno) \subseteq 1..n
    BY <1>2 DEF LibresDe, Libres, MarcosDe
  <1>5. CASE i # 0
    <2>1. i \in LibresDe(f, SinDueno)
      BY <1>2, <1>4, <1>5, PrimeroEsMinimo DEF MarcoLibre
    <2>2. i \in Libres(f) /\ i \in D /\ tabla_marcos[i].file = f
      BY <2>1 DEF LibresDe, Libres, MarcosDe
    <2>3. Almacena(tabla_marcos, f, i, pedido.pid, t)
      BY <1>5 DEF AsignaGlobal
    <2> HIDE DEF i
    <2>4. tabla_marcos' = [tabla_marcos EXCEPT
                             ![i].esta_libre = FALSE,
                             ![i].proceso_asignado = pedido.pid]
      BY <2>3 DEF Almacena
    <2> DEFINE nuevo == [tabla_marcos[i] EXCEPT !.esta_libre = FALSE,
                                        !.proceso_asignado = pedido.pid]
    <2>5. nuevo \in Marco /\ nuevo.file = f /\ nuevo.esta_libre = FALSE
          /\ nuevo.base = tabla_marcos[i].base
      BY <1>2, <1>3, <2>2 DEF Marco
    <2>6. tabla_marcos' = [tabla_marcos EXCEPT ![i] = nuevo]
      BY <2>4, <2>2, <1>2 DEF Marco
    <2> HIDE DEF nuevo
    <2>7. /\ tabla_marcos' \in Seq(Marco)
          /\ DOMAIN tabla_marcos' = D
          /\ tabla_marcos'[i] = nuevo
          /\ \A j \in D \ {i} : tabla_marcos'[j] = tabla_marcos[j]
      BY <2>6, <2>5, <2>2, <1>2
    <2>8. Coloca(f, i, t)
      BY <2>2, <2>3, <2>5, <2>7 DEF Coloca, Almacena, Guardados
    <2> QED
      BY <2>8, <2>2, <1>2
  <1>6. CASE i = 0
    <2>1. LibresDe(f, SinDueno) = {}
      BY <1>2, <1>4, <1>6, PrimeroEsMinimo DEF MarcoLibre
    <2>2. Libres(f) = {}
      BY <2>1, <1>1 DEF LibresDe, MarcosGlobales, Libres, MarcosDe
    <2>3. MarcosDe(f) \ Libres(f) = MarcosDe(f)
      BY <2>2
    <2>4. Cardinality(MarcosDe(f)) \in 0..(MarcosPorArchivo - 1)
      <3>1. espacio_disponible[f] = MarcosPorArchivo
                                      - Cardinality(MarcosDe(f))
        BY <2>3, <1>1 DEF EspacioExacto
      <3>2. Cardinality(MarcosDe(f)) \in Nat
        BY <1>1, MarcosFinitos
      <3> QED
        BY <3>1, <3>2, <1>1
    <2>5. Almacena(Append(tabla_marcos, MarcoNuevo(f)), f, n + 1, SinDueno,
                   t)
      BY <1>6 DEF AsignaGlobal
    <2> DEFINE k == n + 1
               m == MarcoNuevo(f)
               tabla == Append(tabla_marcos, m)
               nuevo == [m EXCEPT !.esta_libre = FALSE,
                                  !.proceso_asignado = SinDueno]
    <2>6. m.base = Cardinality(MarcosDe(f))
      BY BaseDeMarcoNuevo
    <2>7. m \in Marco /\ m.file = f
      BY <2>4, <2>6 DEF MarcoNuevo, Marco, Lugares
    <2>8. /\ nuevo \in Marco /\ nuevo.file = f /\ nuevo.esta_libre = FALSE
          /\ nuevo.base = Cardinality(MarcosDe(f))
      BY <2>6, <2>7, <1>3 DEF Marco
    <2> HIDE DEF m
    <2>9. /\ tabla \in Seq(Marco) /\ DOMAIN tabla = D \cup {k}
          /\ k \notin D /\ tabla[k] = m
          /\ \A j \in D : tabla[j] = tabla_marcos[j]
          /\ tabla \in [1..k -> Marco] /\ D \cup {k} = 1..k
      <3>1. D \cup {k} = 1..k /\ k \notin D /\ k \in Nat
        BY <1>2
      <3>2. tabla \in Seq(Marco) /\ Len(tabla) = k
        BY <2>7, <1>2, AppendProperties
      <3>3. tabla \in [1..k -> Marco] /\ DOMAIN tabla = 1..k
        BY <3>1, <3>2, LenProperties
      <3>4. tabla[k] = m /\ \A j \in D : tabla[j] = tabla_marcos[j]
        BY <2>7, <1>2, AppendProperties
      <3> QED
        BY <3>1, <3>2, <3>3, <3>4
    <2>10. tabla_marcos' = [tabla EXCEPT ![k].esta_libre = FALSE,
                                        ![k].proceso_asignado = SinDueno]
      BY <2>5 DEF Almacena, m
    <2> HIDE DEF tabla
    <2>11. tabla_marcos' = [tabla EXCEPT ![k] = nuevo]
      BY <2>10, <2>9, <2>7 DEF Marco
    <2> HIDE DEF nuevo
    <2>12. /\ tabla_marcos' \in Seq(Marco)
           /\ DOMAIN tabla_marcos' = D \cup {k}
           /\ tabla_marcos'[k] = nuevo
           /\ \A j \in D \ {k} : tabla_marcos'[j] = tabla_marcos[j]
      <3>1. k \in 1..k /\ k \in Nat
        BY <1>2
      <3>2. tabla_marcos' \in [1..k -> Marco]
        BY <2>11, <2>9, <2>8
      <3>3. tabla_marcos' \in Seq(Marco) /\ DOMAIN tabla_marcos' = 1..k
        BY <3>1, <3>2
      <3>4. tabla_marcos'[k] = nuevo
            /\ \A j \in D \ {k} : tabla_marcos'[j] = tabla[j]
        BY <2>11, <2>9, <3>1
      <3> QED
        BY <3>3, <3>4, <2>9
    <2>13. Coloca(f, k, t)
      <3>1. tabla[k].base = nuevo.base
        BY <2>6, <2>8, <2>9
      <3>2. Escribe(f, tabla[k].base, t)
        BY <2>5 DEF Almacena, tabla, m
      <3>3. Escribe(f, tabla_marcos'[k].base, t)
        BY <3>1, <3>2, <2>12
      <3> QED
        BY <2>5, <2>8, <2>9, <2>12, <3>3, <1>3
        DEF Coloca, Almacena, Guardados
    <2> QED
      BY <2>13, <1>2
  <1> QED
    BY <1>5, <1>6

\* The fixed assignment takes a free frame, and may reserve others.
LEMMA FijaColoca ==
  ASSUME IInv, pedido.op = "SWAPSAVE", NEW f \in Archivos,
         espacio_disponible[f] \in 1..MarcosPorArchivo,
         TIPO_ASIGNACION = "FIJA", AsignaFija(f)
  PROVE  NoGuardada \/ \E i \in Nat : Coloca(f, i, Basura)
  <1> DEFINE D == DOMAIN tabla_marcos
             n == Len(tabla_marcos)
             r == MarcoFijo(Cero, f)
             i == r.marco
             tabla == [j \in D |->
                         IF j \in r.reservados
                         THEN [tabla_marcos[j] EXCEPT !.proceso_asignado = Cero]
                         ELSE tabla_marcos[j]]
  <1>1. TypeOK
    BY DEF IInv
  <1>2. /\ tabla_marcos \in Seq(Marco) /\ n \in Nat /\ D = 1..n
        /\ \A j \in D : tabla_marcos[j] \in Marco
    BY <1>1, LugaresFinitos DEF TypeOK
  <1>3. pedido.pid \in Procesos
    BY PedidoBienFormado
  <1>4. \A p : LibresDe(f, p) \subseteq 1..n /\ LibresDe(f, p) \subseteq Libres(f)
    BY <1>2 DEF LibresDe, Libres, MarcosDe
  <1>5. \A p : Primero(LibresDe(f, p)) # 0 =>
                 Primero(LibresDe(f, p)) \in LibresDe(f, p)
    BY <1>2, <1>4, PrimeroEsMinimo
  <1>6. i = 0 \/ i = Primero(LibresDe(f, Cero))
        \/ i = Primero(LibresDe(f, SinDueno))
    BY DEF MarcoFijo
  <1>7. CASE i = 0
    BY <1>7 DEF AsignaFija
  <1>8. CASE i # 0
    <2>1. i \in Libres(f)
      BY <1>4, <1>5, <1>6, <1>8
    <2>2. i \in D /\ tabla_marcos[i].file = f
      BY <2>1 DEF Libres, MarcosDe
    <2>3. Almacena(tabla, f, i, pedido.pid, Basura)
      BY <1>8 DEF AsignaFija
    <2> HIDE DEF i, r
    <2>4. \A j \in D : /\ tabla[j] \in Marco
                       /\ tabla[j].file = tabla_marcos[j].file
                       /\ tabla[j].base = tabla_marcos[j].base
                       /\ tabla[j].esta_libre = tabla_marcos[j].esta_libre
      BY <1>2 DEF Marco
    <2>5. tabla \in [1..n -> Marco]
      BY <1>2, <2>4
    <2>6. tabla_marcos' = [tabla EXCEPT ![i].esta_libre = FALSE,
                                        ![i].proceso_asignado = pedido.pid]
      BY <2>3 DEF Almacena
    <2> HIDE DEF tabla
    <2> DEFINE nuevo == [tabla[i] EXCEPT !.esta_libre = FALSE,
                                         !.proceso_asignado = pedido.pid]
    <2>7. /\ nuevo \in Marco /\ nuevo.file = f /\ nuevo.esta_libre = FALSE
          /\ nuevo.base = tabla_marcos[i].base
      BY <2>2, <2>4, <1>3 DEF Marco
    <2>8. tabla_marcos' = [tabla EXCEPT ![i] = nuevo]
      BY <2>6, <2>5, <2>2, <1>2 DEF Marco
    <2> HIDE DEF nuevo
    <2>9. /\ tabla_marcos' \in [1..n -> Marco]
          /\ tabla_marcos'[i] = nuevo
          /\ \A j \in D \ {i} : tabla_marcos'[j] = tabla[j]
      BY <2>8, <2>7, <2>2, <2>5, <1>2
    <2>10. tabla_marcos' \in Seq(Marco) /\ DOMAIN tabla_marcos' = D
      BY <2>9, <1>2
    <2>11. Coloca(f, i, Basura)
      BY <2>1, <2>2, <2>3, <2>4, <2>7, <2>9, <2>10
         DEF Coloca, Almacena, Guardados
    <2> QED
      BY <2>11, <2>2, <1>2
  <1> QED
    BY <1>7, <1>8

\* A mapping is added for a file that has nothing stored.
LEMMA MapeadoConserva ==
  ASSUME IInv, NEW f \in Archivos, Mapeado(f),
         espacio_disponible[f] = MarcosPorArchivo =>
           \A g \in Archivos : g < f =>
             espacio_disponible[g] < MarcosPorArchivo
  PROVE  /\ lista_mapeos' \in 0..CantidadArchivos
         /\ f <= lista_mapeos'
         /\ lista_mapeos <= lista_mapeos'
  <1> DEFINE l == lista_mapeos
             C == CantidadArchivos
             cabe(n) == n <= l + 1 /\ n <= C
  <1>1. /\ l \in 0..C /\ C \in Nat \ {0} /\ f \in 1..C /\ Archivos = 1..C
        /\ MarcosPorArchivo \in Nat /\ MapeoExiste
        /\ espacio_disponible \in [Archivos -> 0..MarcosPorArchivo]
    BY ConstantesOK DEF IInv, TypeOK, Archivos
  <1>2. CASE espacio_disponible[f] = MarcosPorArchivo
    <2>1. lista_mapeos' = CHOOSE n \in {l + 1, C} : cabe(n)
      BY <1>2 DEF Mapeado
    <2>2. \E n \in {l + 1, C} : cabe(n)
      <3>1. CASE l + 1 <= C
        BY <3>1, <1>1
      <3>2. CASE ~(l + 1 <= C)
        BY <3>2, <1>1
      <3> QED
        BY <3>1, <3>2
    <2>3. lista_mapeos' \in {l + 1, C} /\ cabe(lista_mapeos')
      BY <2>1, <2>2
    <2>4. f <= l + 1
      <3>1. CASE f = 1
        BY <3>1, <1>1
      <3>2. CASE f # 1
        <4>1. f - 1 \in Archivos /\ f - 1 < f
          BY <3>2, <1>1
        <4>2. espacio_disponible[f - 1] < MarcosPorArchivo
          BY <4>1, <1>2
        <4>3. l >= f - 1
          BY <4>1, <4>2, <1>1 DEF MapeoExiste
        <4> QED
          BY <4>3, <1>1
      <3> QED
        BY <3>1, <3>2
    <2> QED
      BY <2>3, <2>4, <1>1
  <1>3. CASE espacio_disponible[f] # MarcosPorArchivo
    <2>1. lista_mapeos' = l
      BY <1>3 DEF Mapeado
    <2>2. espacio_disponible[f] < MarcosPorArchivo
      BY <1>1, <1>3
    <2> QED
      BY <2>1, <2>2, <1>1 DEF MapeoExiste
  <1> QED
    BY <1>2, <1>3

\* Storing a page keeps the type.
LEMMA ColocaTipo ==
  ASSUME IInv, pedido.op = "SWAPSAVE", NEW f \in Archivos, NEW i \in Nat, NEW t,
         Coloca(f, i, t), Atendido, lista_mapeos' \in 0..CantidadArchivos
  PROVE  TypeOK'
  <1> DEFINE lista == lista_paginas_almacenadas
             D == DOMAIN tabla_marcos
             Pagina(X) == [id_proceso : Procesos, numero_pagina : Paginas,
                           marco : X, texto : Guardados]
  <1>1. /\ TypeOK /\ configuracion' = configuracion
        /\ MarcosPorArchivo' = MarcosPorArchivo /\ Marco' = Marco
    BY DEF IInv, Atendido, configuracion, Marco, Archivos, Lugares
  <1>2. tabla_marcos' \in Seq(Marco') /\ D \subseteq DOMAIN tabla_marcos'
        /\ i \in DOMAIN tabla_marcos'
    BY <1>1 DEF Coloca
  <1>3. lista \in Seq(Pagina(D))
    BY <1>1 DEF TypeOK
  <1>4. Pagina(D) \subseteq Pagina(DOMAIN tabla_marcos')
    BY <1>2
  <1>5. lista \in Seq(Pagina(DOMAIN tabla_marcos'))
    <2> HIDE DEF Pagina
    <2> QED
      BY <1>3, <1>4, SeqMonotonic
  <1>6. PaginaAlmacenada(i, t) \in Pagina(DOMAIN tabla_marcos')
    BY <1>2, PedidoBienFormado DEF PaginaAlmacenada, Coloca
  <1>7. lista' \in Seq(Pagina(DOMAIN tabla_marcos'))
    <2> HIDE DEF Pagina
    <2>1. lista' = Append(lista, PaginaAlmacenada(i, t))
      BY DEF Coloca
    <2> QED
      BY <1>5, <1>6, <2>1, AppendProperties
  <1>8. espacio_disponible' \in [Archivos -> 0..MarcosPorArchivo]
    <2>1. /\ espacio_disponible \in [Archivos -> 0..MarcosPorArchivo]
          /\ MarcosPorArchivo \in Nat
          /\ espacio_disponible[f] \in 1..MarcosPorArchivo
          /\ espacio_disponible' = [espacio_disponible EXCEPT ![f] = @ - 1]
      BY <1>1, ConstantesOK DEF TypeOK, Coloca
    <2>2. espacio_disponible[f] - 1 \in 0..MarcosPorArchivo
      BY <2>1
    <2> QED
      BY <2>1, <2>2
  <1>9. en_swap' \subseteq Usadas
    BY <1>1, PedidoBienFormado DEF TypeOK, Coloca
  <1>a. archivos' \in [Archivos' -> [Lugares' -> Guardados \cup {Nada}]]
    <2>1. /\ archivos \in [Archivos -> [Lugares -> Guardados \cup {Nada}]]
          /\ t \in Guardados /\ Basura \in Guardados
          /\ Archivos' = Archivos /\ Lugares' = Lugares
      BY <1>1 DEF TypeOK, Coloca, Guardados, Archivos, Lugares
    <2>2. Escribe(f, tabla_marcos'[i].base, t)
      BY DEF Coloca
    <2> QED
      BY <2>1, <2>2 DEF Escribe
  <1>10. respuesta' \in [cod : {"PAGINA_GUARDADA", "PAGINA_NO_GUARDADA"}]
    BY DEF Coloca
  <1>11. perdidas' \in BOOLEAN /\ pedido' = SinPedido
    BY <1>1 DEF TypeOK, Coloca, Atendido
  <1>12. /\ TIPO_ASIGNACION' \in Tipos /\ MARCOS_MAXIMOS' \in Maximos
         /\ MarcosPorArchivo' \in Tamanios
    BY <1>1 DEF TypeOK, configuracion
  <1> QED
    BY <1>1, <1>2, <1>7, <1>8, <1>9, <1>a, <1>10, <1>11, <1>12
       DEF TypeOK

\* What the list and the frames look like after a page was stored
LEMMA ColocaLugares ==
  ASSUME IInv, NEW f \in Archivos, NEW i \in Nat, NEW t,
         Coloca(f, i, t)
  PROVE  LET L == Len(lista_paginas_almacenadas) IN
         /\ L \in Nat /\ Almacenadas = 1..L /\ Almacenadas' = 1..(L + 1)
         /\ \A j \in 1..L :
              /\ lista_paginas_almacenadas'[j] = lista_paginas_almacenadas[j]
              /\ lista_paginas_almacenadas[j].marco
                   \in DOMAIN tabla_marcos \ {i}
         /\ lista_paginas_almacenadas'[L + 1] = PaginaAlmacenada(i, t)
  <1> DEFINE lista == lista_paginas_almacenadas
             L == Len(lista)
  <1>1. TypeOK /\ MarcoExclusivo
    BY DEF IInv
  <1>2. /\ lista \in Seq([id_proceso : Procesos, numero_pagina : Paginas,
                          marco : DOMAIN tabla_marcos, texto : Guardados])
        /\ L \in Nat /\ DOMAIN lista = 1..L
        /\ \A j \in 1..L : lista[j].marco \in DOMAIN tabla_marcos
    BY <1>1, LugaresFinitos DEF TypeOK
  <1>3. lista' = Append(lista, PaginaAlmacenada(i, t))
    BY DEF Coloca
  <1>4. /\ DOMAIN lista' = 1..(L + 1)
        /\ \A j \in 1..L : lista'[j] = lista[j]
        /\ lista'[L + 1] = PaginaAlmacenada(i, t)
    BY <1>2, <1>3
  <1>5. \A j \in 1..L : lista[j].marco # i
    <2> SUFFICES ASSUME NEW j \in 1..L, lista[j].marco = i
                 PROVE  FALSE
      OBVIOUS
    <2>1. ~tabla_marcos[i].esta_libre
      BY <1>1, <1>2 DEF MarcoExclusivo, Almacenadas, Lugar
    <2>2. i \in DOMAIN tabla_marcos
      BY <1>2
    <2>3. i \in Libres(f)
      BY <2>2 DEF Coloca
    <2> QED
      BY <2>1, <2>3 DEF Libres
  <1> QED
    BY <1>2, <1>4, <1>5 DEF Almacenadas

\* Storing a page keeps the frames exclusive.
LEMMA ColocaExclusivo ==
  ASSUME IInv, NEW f \in Archivos, NEW i \in Nat, NEW t,
         Coloca(f, i, t)
  PROVE  MarcoExclusivo'
  <1> DEFINE lista == lista_paginas_almacenadas
             D == DOMAIN tabla_marcos
             L == Len(lista)
  <1>1. TypeOK /\ MarcoExclusivo /\ MarcosGlobales
    BY DEF IInv
  <1>2. /\ L \in Nat /\ Almacenadas = 1..L /\ Almacenadas' = 1..(L + 1)
        /\ \A j \in 1..L : lista'[j] = lista[j] /\ lista[j].marco \in D \ {i}
        /\ lista'[L + 1].marco = i
    <2>1. PaginaAlmacenada(i, t).marco = i
      BY DEF PaginaAlmacenada
    <2> QED
      BY <2>1, ColocaLugares
  <1>3. /\ DOMAIN tabla_marcos' = D \cup {i}
        /\ \A j \in D \ {i} :
             /\ tabla_marcos'[j].file = tabla_marcos[j].file
             /\ tabla_marcos'[j].base = tabla_marcos[j].base
             /\ tabla_marcos'[j].esta_libre = tabla_marcos[j].esta_libre
        /\ tabla_marcos'[i].file = f /\ ~tabla_marcos'[i].esta_libre
    BY DEF Coloca
  <1>4. ASSUME NEW j \in Almacenadas'
        PROVE  /\ ~Lugar(j)'.esta_libre
               /\ \A k \in Almacenadas' :
                    j # k => lista'[j].marco # lista'[k].marco
    <2>1. CASE j = L + 1
      <3>1. \A k \in Almacenadas' : j # k => k \in 1..L
        BY <2>1, <1>2
      <3> QED
        BY <2>1, <3>1, <1>2, <1>3 DEF Lugar
    <2>2. CASE j # L + 1
      <3>1. j \in 1..L /\ lista'[j].marco = lista[j].marco
            /\ lista[j].marco \in D \ {i}
        BY <2>2, <1>2
      <3>2. ~tabla_marcos'[lista[j].marco].esta_libre
        BY <3>1, <1>1, <1>2, <1>3 DEF MarcoExclusivo, Lugar
      <3>3. ASSUME NEW k \in Almacenadas', j # k
            PROVE  lista'[j].marco # lista'[k].marco
        <4>1. CASE k = L + 1
          BY <4>1, <3>1, <1>2
        <4>2. CASE k # L + 1
          <5>1. k \in 1..L /\ lista'[k] = lista[k]
            BY <4>2, <1>2
          <5> QED
            BY <5>1, <3>1, <3>3, <1>1, <1>2 DEF MarcoExclusivo
        <4> QED
          BY <4>1, <4>2
      <3> QED
        BY <3>1, <3>2, <3>3 DEF Lugar
    <2> QED
      BY <2>1, <2>2
  <1>5. ASSUME NEW m \in D, m # i
        PROVE  \/ tabla_marcos'[m].file # tabla_marcos'[i].file
               \/ tabla_marcos'[m].base # tabla_marcos'[i].base
    <2>1. CASE i \in Libres(f) /\ tabla_marcos'[i].base = tabla_marcos[i].base
      <3>1. i \in D /\ tabla_marcos[i].file = f
        BY <2>1 DEF Libres, MarcosDe
      <3> QED
        BY <3>1, <2>1, <1>1, <1>3, <1>5 DEF MarcoExclusivo
    <2>2. CASE /\ i \notin D /\ TIPO_ASIGNACION = "GLOBAL"
               /\ tabla_marcos'[i].base = Cardinality(MarcosDe(f))
      <3>1. CASE tabla_marcos[m].file = f
        <4>1. m \in MarcosDe(f)
          BY <3>1 DEF MarcosDe
        <4>2. tabla_marcos[m].base < Cardinality(MarcosDe(f))
          BY <4>1, <2>2, <1>1 DEF MarcosGlobales
        <4>3. /\ Cardinality(MarcosDe(f)) \in Nat
              /\ tabla_marcos[m].base \in Nat
          <5>1. MarcosPorArchivo \in Nat /\ tabla_marcos[m] \in Marco
            BY <1>1, LugaresFinitos, ConstantesOK DEF TypeOK
          <5>2. tabla_marcos[m].base \in 0..(MarcosPorArchivo - 1)
            BY <5>1 DEF Marco, Lugares
          <5>3. tabla_marcos[m].base \in Nat
            BY <5>1, <5>2
          <5>4. Cardinality(MarcosDe(f)) \in Nat
            BY <1>1, MarcosFinitos
          <5> QED
            BY <5>3, <5>4
        <4> QED
          BY <4>2, <4>3, <2>2, <1>3, <1>5
      <3>2. CASE tabla_marcos[m].file # f
        BY <3>2, <1>3, <1>5
      <3> QED
        BY <3>1, <3>2
    <2> QED
      BY <2>1, <2>2 DEF Coloca
  <1>6. ASSUME NEW m \in D \cup {i}, NEW n \in D \cup {i}, m # n
        PROVE  \/ tabla_marcos'[m].file # tabla_marcos'[n].file
               \/ tabla_marcos'[m].base # tabla_marcos'[n].base
    <2>1. CASE m # i /\ n # i
      BY <2>1, <1>6, <1>1, <1>3 DEF MarcoExclusivo
    <2>2. CASE m = i
      BY <2>2, <1>5, <1>6
    <2>3. CASE n = i
      BY <2>3, <1>5, <1>6
    <2> QED
      BY <2>1, <2>2, <2>3
  <1> QED
    BY <1>3, <1>4, <1>6 DEF MarcoExclusivo

\* Storing a page takes one frame of its file and none of the others.
LEMMA ColocaEspacio ==
  ASSUME IInv, NEW f \in Archivos, NEW i \in Nat, NEW t,
         Coloca(f, i, t), Atendido
  PROVE  EspacioExacto'
  <1> DEFINE D == DOMAIN tabla_marcos
             ocupados(g) == MarcosDe(g) \ Libres(g)
  <1>1. TypeOK /\ EspacioExacto /\ MarcosPorArchivo' = MarcosPorArchivo
        /\ Archivos' = Archivos /\ MarcosPorArchivo \in Nat
        /\ espacio_disponible \in [Archivos -> 0..MarcosPorArchivo]
    BY ConstantesOK DEF IInv, TypeOK, Atendido, configuracion, Archivos
  <1>2. /\ DOMAIN tabla_marcos' = D \cup {i}
        /\ \A j \in D \ {i} :
             /\ tabla_marcos'[j].file = tabla_marcos[j].file
             /\ tabla_marcos'[j].esta_libre = tabla_marcos[j].esta_libre
        /\ tabla_marcos'[i].file = f /\ ~tabla_marcos'[i].esta_libre
        /\ espacio_disponible' = [espacio_disponible EXCEPT ![f] = @ - 1]
        /\ i \in Libres(f) \/ i \notin D
    BY DEF Coloca
  <1>3. \A g : ocupados(g) = {j \in D : /\ tabla_marcos[j].file = g
                                        /\ ~tabla_marcos[j].esta_libre}
    BY DEF MarcosDe, Libres
  <1>4. \A g : ocupados(g)' = {j \in D \cup {i} :
                                 /\ tabla_marcos'[j].file = g
                                 /\ ~tabla_marcos'[j].esta_libre}
    BY <1>2 DEF MarcosDe, Libres
  <1>5. \A g : IsFiniteSet(ocupados(g)) /\ Cardinality(ocupados(g)) \in Nat
    BY <1>1, MarcosFinitos
  <1>6. i \in D => tabla_marcos[i].esta_libre /\ tabla_marcos[i].file = f
    BY <1>2 DEF Libres, MarcosDe
  <1>7. ASSUME NEW g \in Archivos
        PROVE  espacio_disponible'[g] = MarcosPorArchivo
                                          - Cardinality(ocupados(g)')
    <2>0. espacio_disponible[g] = MarcosPorArchivo - Cardinality(ocupados(g))
      BY <1>1 DEF EspacioExacto
    <2>1. CASE g = f
      <3>1. ocupados(g)' = ocupados(g) \cup {i} /\ i \notin ocupados(g)
        BY <2>1, <1>2, <1>3, <1>4, <1>6
      <3> HIDE DEF ocupados
      <3>2. Cardinality(ocupados(g) \cup {i}) = Cardinality(ocupados(g)) + 1
        BY <3>1, <1>5, FS_AddElement
      <3>3. espacio_disponible'[g] = espacio_disponible[g] - 1
        BY <2>1, <1>1, <1>2
      <3> QED
        BY <2>0, <3>1, <3>2, <3>3, <1>1, <1>5
    <2>2. CASE g # f
      <3>1. ocupados(g)' = ocupados(g)
        BY <2>2, <1>2, <1>3, <1>4, <1>6
      <3>2. espacio_disponible'[g] = espacio_disponible[g]
        BY <2>2, <1>1, <1>2
      <3> HIDE DEF ocupados
      <3> QED
        BY <2>0, <3>1, <3>2
    <2> QED
      BY <2>1, <2>2
  <1> QED
    BY <1>1, <1>7 DEF EspacioExacto

\* With the global assignment the frames of a file still fill it from its
\* start.
LEMMA ColocaGlobales ==
  ASSUME IInv, NEW f \in Archivos, NEW i \in Nat, NEW t,
         Coloca(f, i, t), Atendido
  PROVE  MarcosGlobales'
  <1> SUFFICES ASSUME TIPO_ASIGNACION' = "GLOBAL"
               PROVE  MarcosGlobales'
    BY DEF MarcosGlobales
  <1> DEFINE D == DOMAIN tabla_marcos
  <1>1. TypeOK /\ MarcosGlobales /\ TIPO_ASIGNACION = "GLOBAL"
        /\ Archivos' = Archivos
    BY DEF IInv, Atendido, configuracion, Archivos
  <1>2. /\ DOMAIN tabla_marcos' = D \cup {i}
        /\ \A j \in D \ {i} : tabla_marcos'[j] = tabla_marcos[j]
        /\ tabla_marcos'[i].file = f /\ ~tabla_marcos'[i].esta_libre
    BY <1>1 DEF Coloca
  <1>3. \/ i \in Libres(f) /\ tabla_marcos'[i].base = tabla_marcos[i].base
        \/ i \notin D /\ tabla_marcos'[i].base = Cardinality(MarcosDe(f))
    BY DEF Coloca
  <1>4. \A g : /\ MarcosDe(g) = {j \in D : tabla_marcos[j].file = g}
               /\ MarcosDe(g)' = {j \in D \cup {i} :
                                    tabla_marcos'[j].file = g}
    BY <1>2 DEF MarcosDe
  <1>5. \A g : IsFiniteSet(MarcosDe(g)) /\ Cardinality(MarcosDe(g)) \in Nat
    BY <1>1, MarcosFinitos
  <1>6. \A j \in D : /\ tabla_marcos[j].base \in Nat
                     /\ tabla_marcos[j].file \in Archivos
    <2>1. MarcosPorArchivo \in Nat /\ \A j \in D : tabla_marcos[j] \in Marco
      BY <1>1, LugaresFinitos, ConstantesOK DEF TypeOK
    <2> QED
      BY <2>1 DEF Marco, Lugares
  <1>7. i \in D => i \in MarcosDe(f)
    BY <1>3 DEF Libres
  <1>8. ASSUME NEW g \in Archivos, NEW j \in MarcosDe(g)'
        PROVE  tabla_marcos'[j].base < Cardinality(MarcosDe(g)')
    <2>1. CASE i \notin D /\ g = f
      <3>1. MarcosDe(g)' = MarcosDe(g) \cup {i} /\ i \notin MarcosDe(g)
        BY <2>1, <1>2, <1>4
      <3>2. Cardinality(MarcosDe(g)') = Cardinality(MarcosDe(g)) + 1
        BY <3>1, <1>5, FS_AddElement
      <3>3. CASE j = i
        <4>1. tabla_marcos'[i].base = Cardinality(MarcosDe(f))
          BY <2>1, <1>3 DEF Libres, MarcosDe
        <4> QED
          BY <4>1, <3>2, <3>3, <2>1, <1>5
      <3>4. CASE j # i
        <4>1. j \in MarcosDe(g) /\ j \in D \ {i}
          BY <3>1, <3>4, <1>4
        <4>2. /\ tabla_marcos'[j].base < Cardinality(MarcosDe(g))
              /\ tabla_marcos'[j].base \in Nat
          BY <4>1, <1>1, <1>2, <1>6 DEF MarcosGlobales
        <4> QED
          BY <4>2, <3>2, <1>5
      <3> QED
        BY <3>3, <3>4
    <2>2. CASE i \in D \/ g # f
      <3>1. MarcosDe(g)' = MarcosDe(g)
        BY <2>2, <1>2, <1>4, <1>7
      <3>2. j \in MarcosDe(g) /\ j \in D
        BY <3>1, <1>4
      <3>3. tabla_marcos'[j].base = tabla_marcos[j].base
        BY <3>2, <1>2, <1>3
      <3> QED
        BY <3>1, <3>2, <3>3, <1>1 DEF MarcosGlobales
    <2> QED
      BY <2>1, <2>2
  <1>9. \A j \in D \cup {i} : tabla_marcos'[j].esta_libre =>
                                tabla_marcos'[j].proceso_asignado = SinDueno
    BY <1>1, <1>2 DEF MarcosGlobales
  <1> QED
    BY <1>1, <1>2, <1>8, <1>9 DEF MarcosGlobales

\* The page that is stored was not there.
LEMMA ColocaUnaVez ==
  ASSUME IInv, pedido.op = "SWAPSAVE", NEW f \in Archivos, NEW i \in Nat,
         NEW t, Coloca(f, i, t)
  PROVE  UnaVez'
  <1> SUFFICES ASSUME ~perdidas'
               PROVE  UnaVez'
    BY DEF UnaVez
  <1> DEFINE lista == lista_paginas_almacenadas
             L == Len(lista)
             pp == <<pedido.pid, pedido.pagina>>
  <1>1. UnaVez /\ ~perdidas
    BY DEF IInv, Coloca
  <1>2. pp \notin en_swap
    BY PedidoBienFormado
  <1>3. en_swap' = en_swap \cup {pp}
    BY DEF Coloca
  <1>4. /\ L \in Nat /\ Almacenadas = 1..L /\ Almacenadas' = 1..(L + 1)
        /\ \A j \in 1..L : lista'[j] = lista[j]
        /\ lista'[L + 1] = PaginaAlmacenada(i, t)
    BY ColocaLugares
  <1>n. PICK n \in Nat : n = L + 1
    BY <1>4
  <1>5. Par(n)' = pp /\ \A j \in 1..L : Par(j)' = Par(j)
    BY <1>4, <1>n DEF Par, PaginaAlmacenada
  <1>6. \A j \in 1..L : Par(j) \in en_swap /\ Par(j) # pp
    BY <1>1, <1>2, <1>4 DEF UnaVez
  <1>7. \A j \in Almacenadas' : j \in 1..L \/ j = n
    BY <1>4, <1>n
  <1>8. ASSUME NEW j \in Almacenadas', NEW k \in Almacenadas',
               Par(j)' = Par(k)'
        PROVE  j = k
    BY <1>1, <1>4, <1>5, <1>6, <1>7, <1>8 DEF UnaVez
  <1>9. \A j \in Almacenadas' : Par(j)' \in en_swap'
    BY <1>3, <1>5, <1>6, <1>7
  <1> QED
    BY <1>8, <1>9 DEF UnaVez

\* The page that is stored has its text at its place, which is no other
\* page's; what is there of another stays or is written over.
LEMMA ColocaContenido ==
  ASSUME IInv, NEW f \in Archivos, NEW i \in Nat, NEW t,
         Coloca(f, i, t), Atendido
  PROVE  ContenidoFiel'
  <1> SUFFICES ASSUME TIPO_ASIGNACION' = "GLOBAL", NEW j \in Almacenadas'
               PROVE  \/ Contenido(j)' = lista_paginas_almacenadas'[j].texto
                      \/ Contenido(j)' = Basura /\ Largos # {}
    BY DEF ContenidoFiel
  <1> DEFINE lista == lista_paginas_almacenadas
             L == Len(lista)
             base == tabla_marcos'[i].base
  <1>1. /\ TypeOK /\ MarcoExclusivo /\ ContenidoFiel
        /\ TIPO_ASIGNACION = "GLOBAL" /\ MarcosPorArchivo' = MarcosPorArchivo
    BY DEF IInv, Atendido, configuracion
  <1>2. /\ L \in Nat /\ Almacenadas = 1..L /\ Almacenadas' = 1..(L + 1)
        /\ \A k \in 1..L : /\ lista'[k] = lista[k]
                           /\ lista[k].marco \in DOMAIN tabla_marcos \ {i}
        /\ lista'[L + 1] = PaginaAlmacenada(i, t)
    BY ColocaLugares
  <1>3. /\ Escribe(f, base, t) /\ tabla_marcos'[i].file = f
        /\ tabla_marcos'[i] \in Marco
        /\ DOMAIN tabla_marcos' = DOMAIN tabla_marcos \cup {i}
        /\ \A m \in DOMAIN tabla_marcos \ {i} :
             tabla_marcos'[m] = tabla_marcos[m]
    <2>1. tabla_marcos' \in Seq(Marco) /\ i \in DOMAIN tabla_marcos'
      BY DEF Coloca
    <2>2. tabla_marcos'[i] \in Marco
      BY <2>1
    <2> QED
      BY <2>2, <1>1 DEF Coloca
  <1>4. MarcoExclusivo'
    BY ColocaExclusivo
  <1>5. CASE j = L + 1
    <2>1. lista'[j].marco = i /\ lista'[j].texto = t
      BY <1>2, <1>5 DEF PaginaAlmacenada
    <2>2. f \in Archivos /\ base \in Lugares
      BY <1>3 DEF Marco
    <2>3. archivos'[f][base] = t
      BY <1>3, <2>2 DEF Escribe
    <2> QED
      BY <1>3, <2>1, <2>3 DEF Contenido, Lugar
  <1>6. CASE j \in 1..L
    <2> DEFINE m == lista[j].marco
               g == tabla_marcos[m].file
               b == tabla_marcos[m].base
    <2>1. m \in DOMAIN tabla_marcos \ {i} /\ lista'[j] = lista[j]
      BY <1>2, <1>6
    <2>2. Lugar(j)' = tabla_marcos[m] /\ Lugar(j) = tabla_marcos[m]
      BY <1>3, <2>1 DEF Lugar
    <2>3. g \in Archivos /\ b \in Lugares
      BY <1>1, <2>1, LugaresFinitos DEF Marco
    <2>4. ~(g = f /\ b = base)
      BY <1>3, <1>4, <2>1 DEF MarcoExclusivo
    <2>5. archivos'[g][b] =
            IF Pisa(t, f, base, g, b) \/ archivos[g][b] \in Largos
            THEN Basura ELSE archivos[g][b]
      BY <1>3, <2>3, <2>4 DEF Escribe
    <2>6. Contenido(j)' = archivos'[g][b] /\ Contenido(j) = archivos[g][b]
      BY <2>2 DEF Contenido
    <2>7. \/ Contenido(j) = lista[j].texto
          \/ Contenido(j) = Basura /\ Largos # {}
      BY <1>1, <1>2, <1>6 DEF ContenidoFiel
    <2> QED
      BY <2>1, <2>5, <2>6, <2>7 DEF Pisa
  <1> QED
    BY <1>2, <1>5, <1>6

\* A request that is refused changes nothing but the mappings.
LEMMA NoGuardadaConserva ==
  ASSUME IInv, NadaGuardado, Atendido,
         respuesta' \in {[cod |-> "PAGINA_NO_GUARDADA"], Caido},
         lista_mapeos' \in 0..CantidadArchivos,
         lista_mapeos <= lista_mapeos'
  PROVE  IInv'
  <1>1. /\ TypeOK /\ MarcoExclusivo /\ EspacioExacto /\ MapeoExiste
        /\ MarcosGlobales /\ UnaVez /\ ContenidoFiel
    BY DEF IInv
  <1>2. /\ tabla_marcos' = tabla_marcos
        /\ lista_paginas_almacenadas' = lista_paginas_almacenadas
        /\ espacio_disponible' = espacio_disponible
        /\ en_swap' = en_swap /\ perdidas' = perdidas
        /\ TIPO_ASIGNACION' = TIPO_ASIGNACION
        /\ MARCOS_MAXIMOS' = MARCOS_MAXIMOS
        /\ MarcosPorArchivo' = MarcosPorArchivo
        /\ pedido' = SinPedido
        /\ archivos' = archivos
    BY DEF NadaGuardado, Atendido, configuracion
  <1>3. TypeOK'
    <2>1. Marco' = Marco
      BY <1>2 DEF Marco, Archivos, Lugares
    <2>2. /\ tabla_marcos' \in Seq(Marco')
          /\ lista_paginas_almacenadas' \in
               Seq([id_proceso : Procesos, numero_pagina : Paginas,
                    marco : DOMAIN tabla_marcos', texto : Guardados])
      BY <1>1, <1>2, <2>1 DEF TypeOK
    <2> QED
      BY <1>1, <1>2, <2>2 DEF TypeOK, Archivos, Lugares
  <1>4. MarcoExclusivo' /\ EspacioExacto' /\ MarcosGlobales' /\ UnaVez'
        /\ ContenidoFiel'
    BY <1>1, <1>2 DEF MarcoExclusivo, EspacioExacto, MarcosGlobales, UnaVez,
                      Almacenadas, Lugar, MarcosDe, Libres, Par, Archivos,
                      ContenidoFiel, Contenido
  <1>5. MapeoExiste'
    <2>1. lista_mapeos \in Nat /\ lista_mapeos' \in Nat /\ Archivos \subseteq Nat
      BY <1>1, ConstantesOK DEF TypeOK, Archivos
    <2>2. \A f \in Archivos : lista_mapeos >= f => lista_mapeos' >= f
      BY <2>1
    <2> QED
      BY <2>2, <1>1, <1>2 DEF MapeoExiste, Archivos
  <1>6. Conversacion'
    BY <1>2 DEF Conversacion, SinPedido
  <1> QED
    BY <1>3, <1>4, <1>5, <1>6 DEF IInv

\* Storing a page keeps the invariant.
LEMMA ColocaConserva ==
  ASSUME IInv, pedido.op = "SWAPSAVE", NEW f \in Archivos, NEW i \in Nat, NEW t,
         Coloca(f, i, t), Atendido, lista_mapeos' \in 0..CantidadArchivos,
         f <= lista_mapeos', lista_mapeos <= lista_mapeos'
  PROVE  IInv'
  <1>1. TypeOK /\ MapeoExiste
    BY DEF IInv
  <1>2. TypeOK'
    BY ColocaTipo
  <1>3. MarcoExclusivo' /\ EspacioExacto' /\ MarcosGlobales' /\ UnaVez'
        /\ ContenidoFiel'
    BY ColocaExclusivo, ColocaEspacio, ColocaGlobales, ColocaUnaVez,
       ColocaContenido
  <1>4. MapeoExiste'
    <2>1. /\ lista_mapeos \in Nat /\ lista_mapeos' \in Nat
          /\ Archivos \subseteq Nat /\ Archivos' = Archivos
          /\ MarcosPorArchivo' = MarcosPorArchivo
          /\ espacio_disponible \in [Archivos -> 0..MarcosPorArchivo]
          /\ espacio_disponible' = [espacio_disponible EXCEPT ![f] = @ - 1]
      BY SMTT(30), <1>1, ConstantesOK
         DEF TypeOK, Archivos, Atendido, configuracion, Coloca
    <2>2. ASSUME NEW g \in Archivos, espacio_disponible'[g] < MarcosPorArchivo
          PROVE  lista_mapeos' >= g
      <3>1. CASE g = f
        BY <3>1, <2>1
      <3>2. CASE g # f
        <4>1. espacio_disponible[g] < MarcosPorArchivo
          BY <3>2, <2>1, <2>2
        <4>2. lista_mapeos >= g
          BY <4>1, <1>1 DEF MapeoExiste
        <4> QED
          BY <4>2, <2>1
      <3> QED
        BY <3>1, <3>2
    <2> QED
      BY <2>1, <2>2 DEF MapeoExiste
  <1>5. Conversacion'
    BY DEF Conversacion, Atendido
  <1> QED
    BY <1>2, <1>3, <1>4, <1>5 DEF IInv

\* SWAPSAVE refuses the page, ends swap or stores the page in a frame; there
\* is no mapping less, and a file where a page is stored has one.
LEMMA SwapSaveCasos ==
  ASSUME IInv, SwapSave
  PROVE  /\ pedido.op = "SWAPSAVE" /\ Atendido
         /\ lista_mapeos' \in 0..CantidadArchivos
         /\ lista_mapeos <= lista_mapeos'
         /\ \/ /\ NadaGuardado
               /\ respuesta' \in {[cod |-> "PAGINA_NO_GUARDADA"], Caido}
            \/ \E f \in Archivos, i \in Nat, t \in Guardados :
                 Coloca(f, i, t) /\ f <= lista_mapeos'
  <1> DEFINE f == ArchivoEscritura(pedido.pid)
  <1>1. pedido.op = "SWAPSAVE" /\ Atendido
    BY DEF SwapSave
  <1>2. pedido.pid \in Procesos
    BY <1>1, PedidoBienFormado
  <1>3. lista_mapeos \in 0..CantidadArchivos /\ CantidadArchivos \in Nat
    BY ConstantesOK DEF IInv, TypeOK
  <1>4. CASE f = 0 /\ NoGuardada /\ UNCHANGED lista_mapeos
    BY <1>1, <1>3, <1>4 DEF NoGuardada
  <1>5. ASSUME NEW t \in Textos, f # 0, Mapeado(f),
               \/ TIPO_ASIGNACION = "GLOBAL" /\ AsignaGlobal(f, t)
               \/ TIPO_ASIGNACION = "FIJA" /\ AsignaFija(f)
               \/ Desborda(t)
        PROVE  /\ lista_mapeos' \in 0..CantidadArchivos
               /\ lista_mapeos <= lista_mapeos'
               /\ \/ /\ NadaGuardado
                     /\ respuesta' \in {[cod |-> "PAGINA_NO_GUARDADA"], Caido}
                  \/ \E g \in Archivos, i \in Nat, u \in Guardados :
                       Coloca(g, i, u) /\ g <= lista_mapeos'
    <2>1. /\ f \in Archivos /\ espacio_disponible[f] \in 1..MarcosPorArchivo
          /\ espacio_disponible[f] = MarcosPorArchivo =>
               \A g \in Archivos : g < f =>
                 espacio_disponible[g] < MarcosPorArchivo
      BY <1>2, <1>5, ArchivoElegido
    <2>2. Mapeado(f)
      BY <1>5
    <2> HIDE DEF f
    <2>3. /\ lista_mapeos' \in 0..CantidadArchivos
          /\ f <= lista_mapeos' /\ lista_mapeos <= lista_mapeos'
      BY <2>1, <2>2, MapeadoConserva
    <2>4. CASE TIPO_ASIGNACION = "GLOBAL" /\ AsignaGlobal(f, t)
      <3>1. \E i \in Nat : Coloca(f, i, t)
        BY <1>1, <2>1, <2>4, GlobalColoca
      <3>2. t \in Guardados
        BY DEF Guardados
      <3> QED
        BY <2>1, <2>3, <3>1, <3>2
    <2>5. CASE TIPO_ASIGNACION = "FIJA" /\ AsignaFija(f)
      <3>1. NoGuardada \/ \E i \in Nat : Coloca(f, i, Basura)
        BY <1>1, <2>1, <2>5, FijaColoca
      <3>2. Basura \in Guardados
        BY DEF Guardados
      <3> QED
        BY <2>1, <2>3, <3>1, <3>2 DEF NoGuardada
    <2>6. CASE Desborda(t)
      BY <2>3, <2>6 DEF Desborda
    <2> QED
      BY <1>5, <2>4, <2>5, <2>6
  <1>6. PICK t \in Escritos[pedido.dato] :
          \/ f = 0 /\ NoGuardada /\ UNCHANGED lista_mapeos
          \/ /\ f # 0 /\ Mapeado(f)
             /\ \/ TIPO_ASIGNACION = "GLOBAL" /\ AsignaGlobal(f, t)
                \/ TIPO_ASIGNACION = "FIJA" /\ AsignaFija(f)
                \/ Desborda(t)
    BY DEF SwapSave
  <1>7. t \in Textos
    BY <1>1, PedidoBienFormado DEF Textos
  <1> HIDE DEF f
  <1> QED
    BY <1>1, <1>4, <1>5, <1>6, <1>7

\* SWAPSAVE, whole
LEMMA SwapSaveConserva == IInv /\ SwapSave => IInv'
  <1> SUFFICES ASSUME IInv, SwapSave
               PROVE  IInv'
    OBVIOUS
  <1>1. CASE /\ NadaGuardado
             /\ respuesta' \in {[cod |-> "PAGINA_NO_GUARDADA"], Caido}
    BY <1>1, SwapSaveCasos, NoGuardadaConserva
  <1>2. CASE \E f \in Archivos, i \in Nat, t \in Guardados :
               Coloca(f, i, t) /\ f <= lista_mapeos'
    <2>1. PICK f \in Archivos, i \in Nat, t \in Guardados :
                 Coloca(f, i, t) /\ f <= lista_mapeos'
      BY <1>2
    <2> QED
      BY <2>1, SwapSaveCasos, ColocaConserva
  <1> QED
    BY <1>1, <1>2, SwapSaveCasos
-----------------------------------------------------------------------------
(* SWAPFREE *)

\* The loop of eliminar_pagina meets the first page of the number.
LEMMA PrimeraSale ==
  ASSUME TypeOK, NEW numero, ConNumero(numero) # {}
  PROVE  /\ Primero(ConNumero(numero)) \in Salen(numero)
         /\ Salen(numero) \subseteq Almacenadas
         /\ ConNumero(numero) \subseteq Almacenadas
  <1> DEFINE N == ConNumero(numero)
             L == Len(lista_paginas_almacenadas)
             k == Primero(N)
  <1>1. L \in Nat /\ Almacenadas = 1..L /\ N \subseteq 1..L
        /\ DOMAIN lista_paginas_almacenadas = 1..L
    BY LugaresFinitos DEF Almacenadas, ConNumero
  <1>2. k \in N /\ k \in 1..L /\ \A j \in N : k <= j
    BY <1>1, PrimeroEsMinimo
  <1>3. k - 1 \notin N /\ k \in 1..k /\ (k - k) % 2 = 0
    <2>1. k \in Int /\ k >= 1
      BY <1>1, <1>2
    <2>2. ~(k <= k - 1)
      BY <2>1
    <2> QED
      BY <2>1, <2>2, <1>2
  <1>4. k..(k - 1) = {}
    BY <1>1, <1>2
  <1>5. k..(k - 1) \subseteq N
    BY <1>4
  <1>6. k \in Visitadas(numero)
    <2> HIDE DEF k, N
    <2>1. \E j \in 1..k : /\ j - 1 \notin N
                          /\ j..(k - 1) \subseteq N
                          /\ (k - j) % 2 = 0
      BY <1>3, <1>5
    <2> QED
      BY <2>1, <1>1, <1>2 DEF Visitadas, N
  <1>7. Salen(numero) \subseteq N
    BY DEF Salen
  <1> QED
    BY <1>1, <1>2, <1>6, <1>7 DEF Salen

\* What freeing the frame of entry k changes; h says where each entry that
\* stays was
Libera(k, h) ==
  LET lista == lista_paginas_almacenadas
      m == lista[k].marco
  IN
  /\ k \in Salen(pedido.pagina) /\ k \in Almacenadas
  /\ tabla_marcos' \in Seq(Marco)
  /\ DOMAIN tabla_marcos' = DOMAIN tabla_marcos
  /\ \A j \in DOMAIN tabla_marcos :
       /\ tabla_marcos'[j].file = tabla_marcos[j].file
       /\ tabla_marcos'[j].base = tabla_marcos[j].base
       /\ j = m => tabla_marcos'[j].esta_libre
       /\ j # m => tabla_marcos'[j].esta_libre = tabla_marcos[j].esta_libre
       /\ TIPO_ASIGNACION = "GLOBAL" =>
            /\ j = m => tabla_marcos'[j].proceso_asignado = SinDueno
            /\ j # m => tabla_marcos'[j] = tabla_marcos[j]
  /\ lista' \in Seq([id_proceso : Procesos, numero_pagina : Paginas,
                     marco : DOMAIN tabla_marcos, texto : Guardados])
  /\ h \in [Almacenadas' -> Almacenadas \ Salen(pedido.pagina)]
  /\ \A a, b \in Almacenadas' : h[a] = h[b] => a = b
  /\ \A i \in Almacenadas \ Salen(pedido.pagina) :
       \E a \in Almacenadas' : h[a] = i
  /\ \A a \in Almacenadas' : lista'[a] = lista[h[a]]
  /\ espacio_disponible' =
       [espacio_disponible EXCEPT ![tabla_marcos[m].file] = @ + 1]

\* eliminar_pagina does that, with the first entry of the number.
LEMMA EliminaLibera ==
  ASSUME IInv, pedido.op = "SWAPFREE", ConNumero(pedido.pagina) # {},
         Elimina(pedido.pagina)
  PROVE  \E k \in Nat : \E h : Libera(k, h)
  <1> DEFINE lista == lista_paginas_almacenadas
             numero == pedido.pagina
             D == DOMAIN tabla_marcos
             n == Len(tabla_marcos)
             k == Primero(ConNumero(numero))
             m == lista[k].marco
             S == Salen(numero)
             P == [id_proceso : Procesos, numero_pagina : Paginas, marco : D,
                   texto : Guardados]
             tabla == [tabla_marcos EXCEPT ![m].esta_libre = TRUE,
                                           ![m].proceso_asignado = SinDueno]
             terminan(j) == /\ TIPO_ASIGNACION = "FIJA"
                            /\ Cardinality(Visitadas(numero) \cap
                                 PaginasDe(lista[k].id_proceso)) - 1 = 0
                            /\ tabla[j].proceso_asignado = lista[k].id_proceso
  <1>1. TypeOK
    BY DEF IInv
  <1>2. k \in S /\ S \subseteq Almacenadas /\ k \in Almacenadas
    BY <1>1, PrimeraSale
  <1>3. /\ tabla_marcos \in Seq(Marco) /\ n \in Nat /\ D = 1..n
        /\ tabla_marcos \in [D -> Marco]
        /\ \A j \in D : tabla_marcos[j] \in Marco
        /\ lista \in Seq(P) /\ lista[k] \in P /\ DOMAIN lista = Almacenadas
    BY <1>1, <1>2, LugaresFinitos DEF TypeOK, Almacenadas
  <1>4. m \in D /\ k \in Nat
    BY <1>1, <1>2, <1>3, LugaresFinitos
  <1>5. tabla_marcos' = [j \in DOMAIN tabla |->
                           IF terminan(j)
                           THEN [tabla[j] EXCEPT !.proceso_asignado = SinDueno]
                           ELSE tabla[j]]
    BY DEF Elimina
  <1>6. lista' = Quedan(lista, DOMAIN lista \ S)
    BY DEF Elimina
  <1>7. espacio_disponible' =
          [espacio_disponible EXCEPT ![tabla_marcos[m].file] = @ + 1]
    BY DEF Elimina
  <1> HIDE DEF k, m, S, terminan
  <1> DEFINE libre == [tabla_marcos[m] EXCEPT !.esta_libre = TRUE,
                                             !.proceso_asignado = SinDueno]
  <1>8. /\ libre \in Marco /\ libre.esta_libre = TRUE
        /\ libre.file = tabla_marcos[m].file
        /\ libre.base = tabla_marcos[m].base
        /\ libre.proceso_asignado = SinDueno
    BY <1>3, <1>4 DEF Marco
  <1>9. tabla = [tabla_marcos EXCEPT ![m] = libre]
    BY <1>3, <1>4 DEF Marco
  <1> HIDE DEF libre, tabla
  <1>10. /\ DOMAIN tabla = D /\ tabla[m] = libre
         /\ \A j \in D \ {m} : tabla[j] = tabla_marcos[j]
         /\ \A j \in D : tabla[j] \in Marco
    BY <1>3, <1>4, <1>8, <1>9
  <1>11. \A j \in D : /\ tabla_marcos'[j] \in Marco
                      /\ tabla_marcos'[j].file = tabla[j].file
                      /\ tabla_marcos'[j].base = tabla[j].base
                      /\ tabla_marcos'[j].esta_libre = tabla[j].esta_libre
                      /\ TIPO_ASIGNACION = "GLOBAL" =>
                           tabla_marcos'[j] = tabla[j]
    <2> TAKE j \in D
    <2>1. CASE terminan(j)
      <3>1. tabla_marcos'[j] = [tabla[j] EXCEPT !.proceso_asignado = SinDueno]
        BY <2>1, <1>5, <1>10
      <3>2. TIPO_ASIGNACION # "GLOBAL"
        BY <2>1 DEF terminan
      <3> QED
        BY <3>1, <3>2, <1>10 DEF Marco
    <2>2. CASE ~terminan(j)
      BY <2>2, <1>5, <1>10
    <2> QED
      BY <2>1, <2>2
  <1>12. tabla_marcos' \in Seq(Marco) /\ DOMAIN tabla_marcos' = D
    <2>1. DOMAIN tabla_marcos' = D
      BY <1>5, <1>10
    <2>2. tabla_marcos' \in [1..n -> Marco]
      BY <1>3, <1>5, <1>10, <1>11
    <2> QED
      BY SMTT(30), <2>1, <2>2, <1>3
  <1> DEFINE R == DOMAIN lista \ S
             c == 1..Cardinality(R)
  <1>r. R \in SUBSET DOMAIN lista
    OBVIOUS
  <1> HIDE DEF P, R
  <1>13. \E h \in [c -> R] :
           /\ \A a, b \in c : h[a] = h[b] => a = b
           /\ \A i \in R : \E a \in c : h[a] = i
           /\ \A a \in c : Quedan(lista, R)[a] = lista[h[a]]
    <2>1. lista \in Seq(P)
      BY <1>3
    <2> HIDE DEF lista
    <2> QED
      BY <2>1, <1>r, QuedanBien, Zenon
  <1>q. lista' = Quedan(lista, R)
    BY <1>6 DEF R
  <1>14. lista' \in Seq(P) /\ Almacenadas' = c
    BY <1>3, <1>q, <1>r, QuedanBien DEF Almacenadas
  <1>h. PICK h \in [c -> R] :
           /\ \A a, b \in c : h[a] = h[b] => a = b
           /\ \A i \in R : \E a \in c : h[a] = i
           /\ \A a \in c : lista'[a] = lista[h[a]]
    BY <1>13, <1>q
  <1>s. R = Almacenadas \ Salen(pedido.pagina)
    BY <1>3 DEF R, S
  <1>15. Libera(k, h)
    <2>1. /\ k \in Salen(pedido.pagina) /\ k \in Almacenadas
          /\ tabla_marcos' \in Seq(Marco) /\ DOMAIN tabla_marcos' = D
          /\ lista' \in Seq(P)
      BY <1>2, <1>12, <1>14 DEF S
    <2>2. /\ h \in [Almacenadas' -> Almacenadas \ Salen(pedido.pagina)]
          /\ \A a, b \in Almacenadas' : h[a] = h[b] => a = b
          /\ \A i \in Almacenadas \ Salen(pedido.pagina) :
               \E a \in Almacenadas' : h[a] = i
          /\ \A a \in Almacenadas' : lista'[a] = lista[h[a]]
      BY <1>h, <1>s, <1>14
    <2>3. \A j \in D :
            /\ tabla_marcos'[j].file = tabla_marcos[j].file
            /\ tabla_marcos'[j].base = tabla_marcos[j].base
            /\ j = m => tabla_marcos'[j].esta_libre
            /\ j # m => tabla_marcos'[j].esta_libre
                          = tabla_marcos[j].esta_libre
            /\ TIPO_ASIGNACION = "GLOBAL" =>
                 /\ j = m => tabla_marcos'[j].proceso_asignado = SinDueno
                 /\ j # m => tabla_marcos'[j] = tabla_marcos[j]
      BY <1>8, <1>10, <1>11
    <2> QED
      BY <2>1, <2>2, <2>3, <1>7 DEF Libera, m, P
  <1> QED
    BY <1>4, <1>15

\* What is left in the list is in frames other than the one that is freed.
LEMMA LiberaLugares ==
  ASSUME IInv, NEW k, NEW h, Libera(k, h)
  PROVE  LET lista == lista_paginas_almacenadas
             m == lista[k].marco
         IN
         /\ m \in DOMAIN tabla_marcos /\ ~tabla_marcos[m].esta_libre
         /\ tabla_marcos[m] \in Marco
         /\ \A a \in Almacenadas' :
              /\ h[a] \in Almacenadas /\ h[a] \notin Salen(pedido.pagina)
              /\ lista'[a] = lista[h[a]]
              /\ lista[h[a]].marco \in DOMAIN tabla_marcos \ {m}
  <1> DEFINE lista == lista_paginas_almacenadas
             m == lista[k].marco
  <1>1. TypeOK /\ MarcoExclusivo
    BY DEF IInv
  <1>2. k \in Almacenadas /\ k \in Salen(pedido.pagina)
    BY DEF Libera
  <1>3. \A i \in Almacenadas : lista[i].marco \in DOMAIN tabla_marcos
    BY <1>1, LugaresFinitos DEF Almacenadas
  <1>4. m \in DOMAIN tabla_marcos /\ ~tabla_marcos[m].esta_libre
        /\ tabla_marcos[m] \in Marco
    BY <1>1, <1>2, <1>3, LugaresFinitos DEF MarcoExclusivo, Lugar
  <1>5. \A a \in Almacenadas' :
          /\ h[a] \in Almacenadas /\ h[a] \notin Salen(pedido.pagina)
          /\ lista'[a] = lista[h[a]]
    BY DEF Libera
  <1>6. \A a \in Almacenadas' : h[a] # k
    BY <1>2, <1>5
  <1>7. \A a \in Almacenadas' : lista[h[a]].marco # m
    BY <1>1, <1>2, <1>5, <1>6 DEF MarcoExclusivo
  <1> QED
    BY <1>3, <1>4, <1>5, <1>7

\* Freeing a frame keeps the frames exclusive.
LEMMA LiberaExclusivo ==
  ASSUME IInv, NEW k, NEW h, Libera(k, h)
  PROVE  MarcoExclusivo'
  <1> DEFINE lista == lista_paginas_almacenadas
             D == DOMAIN tabla_marcos
  <1>1. MarcoExclusivo
    BY DEF IInv
  <1>2. /\ DOMAIN tabla_marcos' = D
        /\ \A j \in D : /\ tabla_marcos'[j].file = tabla_marcos[j].file
                        /\ tabla_marcos'[j].base = tabla_marcos[j].base
                        /\ j # lista[k].marco =>
                             tabla_marcos'[j].esta_libre
                               = tabla_marcos[j].esta_libre
        /\ \A a, b \in Almacenadas' : h[a] = h[b] => a = b
    BY DEF Libera
  <1>3. \A a \in Almacenadas' :
          /\ h[a] \in Almacenadas /\ lista'[a] = lista[h[a]]
          /\ lista[h[a]].marco \in D \ {lista[k].marco}
    BY LiberaLugares
  <1>4. \A a \in Almacenadas' : ~Lugar(a)'.esta_libre
    BY <1>1, <1>2, <1>3 DEF MarcoExclusivo, Lugar
  <1>5. \A a, b \in Almacenadas' :
          a # b => lista'[a].marco # lista'[b].marco
    BY <1>1, <1>2, <1>3 DEF MarcoExclusivo
  <1>6. \A m, n \in DOMAIN tabla_marcos' :
          m # n => \/ tabla_marcos'[m].file # tabla_marcos'[n].file
                   \/ tabla_marcos'[m].base # tabla_marcos'[n].base
    BY <1>1, <1>2 DEF MarcoExclusivo
  <1> QED
    BY <1>4, <1>5, <1>6 DEF MarcoExclusivo

\* Freeing a frame gives back one frame of its file, which had one less than
\* its size.
LEMMA LiberaEspacio ==
  ASSUME IInv, NEW k, NEW h, Libera(k, h), Atendido
  PROVE  /\ EspacioExacto'
         /\ espacio_disponible' \in [Archivos -> 0..MarcosPorArchivo]
         /\ \A g \in Archivos : espacio_disponible'[g] >= espacio_disponible[g]
  <1> DEFINE D == DOMAIN tabla_marcos
             m == lista_paginas_almacenadas[k].marco
             f == tabla_marcos[m].file
             ocupados(g) == MarcosDe(g) \ Libres(g)
  <1>1. TypeOK /\ EspacioExacto /\ MarcosPorArchivo' = MarcosPorArchivo
        /\ Archivos' = Archivos /\ MarcosPorArchivo \in Nat
        /\ espacio_disponible \in [Archivos -> 0..MarcosPorArchivo]
    BY ConstantesOK DEF IInv, TypeOK, Atendido, configuracion, Archivos
  <1>2. m \in D /\ ~tabla_marcos[m].esta_libre /\ tabla_marcos[m] \in Marco
    BY LiberaLugares
  <1>3. /\ DOMAIN tabla_marcos' = D
        /\ \A j \in D :
             /\ tabla_marcos'[j].file = tabla_marcos[j].file
             /\ j = m => tabla_marcos'[j].esta_libre
             /\ j # m => tabla_marcos'[j].esta_libre
                           = tabla_marcos[j].esta_libre
        /\ espacio_disponible' = [espacio_disponible EXCEPT ![f] = @ + 1]
    BY DEF Libera
  <1> HIDE DEF m
  <1>4. f \in Archivos
    BY <1>2 DEF Marco
  <1>5. \A g : ocupados(g) = {j \in D : /\ tabla_marcos[j].file = g
                                        /\ ~tabla_marcos[j].esta_libre}
    BY DEF MarcosDe, Libres
  <1>6. \A g : ocupados(g)' = {j \in D : /\ tabla_marcos'[j].file = g
                                         /\ ~tabla_marcos'[j].esta_libre}
    BY <1>3 DEF MarcosDe, Libres
  <1>7. \A g : IsFiniteSet(ocupados(g)) /\ Cardinality(ocupados(g)) \in Nat
    BY <1>1, MarcosFinitos
  <1>8. ASSUME NEW g \in Archivos
        PROVE  /\ espacio_disponible'[g] = MarcosPorArchivo
                                             - Cardinality(ocupados(g)')
               /\ espacio_disponible'[g] \in 0..MarcosPorArchivo
               /\ espacio_disponible'[g] >= espacio_disponible[g]
    <2>0. espacio_disponible[g] = MarcosPorArchivo - Cardinality(ocupados(g))
          /\ espacio_disponible[g] \in 0..MarcosPorArchivo
      BY <1>1 DEF EspacioExacto
    <2>1. CASE g = f
      <3>1. ocupados(g)' = ocupados(g) \ {m} /\ m \in ocupados(g)
        BY <2>1, <1>2, <1>3, <1>5, <1>6
      <3>2. espacio_disponible'[g] = espacio_disponible[g] + 1
        BY <2>1, <1>1, <1>3
      <3> HIDE DEF ocupados, f
      <3>3. Cardinality(ocupados(g) \ {m}) = Cardinality(ocupados(g)) - 1
        BY <3>1, <1>7, FS_RemoveElement
      <3>4. Cardinality(ocupados(g)) # 0
        BY <3>1, <1>7, FS_EmptySet
      <3>5. Cardinality(ocupados(g)') = Cardinality(ocupados(g)) - 1
        BY <3>1, <3>3
      <3> QED
        BY <2>0, <3>2, <3>4, <3>5, <1>1, <1>7
    <2>2. CASE g # f
      <3>1. ocupados(g)' = ocupados(g)
        BY <2>2, <1>2, <1>3, <1>5, <1>6
      <3>2. espacio_disponible'[g] = espacio_disponible[g]
        BY <2>2, <1>1, <1>3
      <3> HIDE DEF ocupados, f
      <3> QED
        BY <2>0, <3>1, <3>2
    <2> QED
      BY <2>1, <2>2
  <1>9. espacio_disponible' \in [Archivos -> 0..MarcosPorArchivo]
    BY <1>1, <1>3, <1>8
  <1> QED
    BY <1>1, <1>8, <1>9 DEF EspacioExacto

\* Freeing a frame keeps, with the global assignment, the free frames of
\* nobody and the files filled from the start.
LEMMA LiberaGlobales ==
  ASSUME IInv, NEW k, NEW h, Libera(k, h), Atendido
  PROVE  MarcosGlobales'
  <1> SUFFICES ASSUME TIPO_ASIGNACION' = "GLOBAL"
               PROVE  MarcosGlobales'
    BY DEF MarcosGlobales
  <1> DEFINE D == DOMAIN tabla_marcos
             m == lista_paginas_almacenadas[k].marco
  <1>1. MarcosGlobales /\ TIPO_ASIGNACION = "GLOBAL" /\ Archivos' = Archivos
    BY DEF IInv, Atendido, configuracion, Archivos
  <1>2. /\ DOMAIN tabla_marcos' = D
        /\ \A j \in D :
             /\ tabla_marcos'[j].file = tabla_marcos[j].file
             /\ tabla_marcos'[j].base = tabla_marcos[j].base
             /\ j = m => tabla_marcos'[j].proceso_asignado = SinDueno
             /\ j # m => tabla_marcos'[j] = tabla_marcos[j]
    BY <1>1 DEF Libera
  <1>3. \A j \in D : tabla_marcos'[j].esta_libre =>
                       tabla_marcos'[j].proceso_asignado = SinDueno
    BY <1>1, <1>2 DEF MarcosGlobales
  <1>4. \A g : MarcosDe(g)' = MarcosDe(g) /\ MarcosDe(g) \subseteq D
    BY <1>2 DEF MarcosDe
  <1>5. \A g \in Archivos : \A j \in MarcosDe(g)' :
          tabla_marcos'[j].base < Cardinality(MarcosDe(g)')
    BY <1>1, <1>2, <1>4 DEF MarcosGlobales
  <1> QED
    BY <1>1, <1>2, <1>3, <1>5 DEF MarcosGlobales

\* If nothing else leaves with it, the page that is given back is the one
\* that leaves.
LEMMA LiberaUnaVez ==
  ASSUME IInv, NEW k, NEW h, Libera(k, h),
         pedido.op = "SWAPFREE",
         NEW i \in Almacenadas, Par(i) = <<pedido.pid, pedido.pagina>>,
         perdidas' = (perdidas \/ Salen(pedido.pagina) # {i}),
         en_swap' = en_swap \ {<<pedido.pid, pedido.pagina>>}
  PROVE  UnaVez'
  <1> SUFFICES ASSUME ~perdidas'
               PROVE  UnaVez'
    BY DEF UnaVez
  <1> DEFINE lista == lista_paginas_almacenadas
             pp == <<pedido.pid, pedido.pagina>>
  <1>1. UnaVez /\ ~perdidas /\ Salen(pedido.pagina) = {i}
    BY DEF IInv, TypeOK
  <1>2. /\ h \in [Almacenadas' -> Almacenadas \ {i}]
        /\ \A a, b \in Almacenadas' : h[a] = h[b] => a = b
        /\ \A a \in Almacenadas' : lista'[a] = lista[h[a]]
    BY <1>1 DEF Libera
  <1>4. \A a \in Almacenadas' :
          h[a] \in Almacenadas /\ Par(a)' = Par(h[a]) /\ Par(h[a]) # pp
    <2> TAKE a \in Almacenadas'
    <2>1. h[a] \in Almacenadas /\ h[a] # i
      BY <1>2
    <2>2. Par(a)' = Par(h[a])
      BY <1>2 DEF Par
    <2> QED
      BY <2>1, <2>2, <1>1 DEF UnaVez
  <1>5. \A a, b \in Almacenadas' : Par(a)' = Par(b)' => a = b
    BY <1>1, <1>2, <1>4 DEF UnaVez
  <1>6. \A a \in Almacenadas' : Par(a)' \in en_swap'
    BY <1>1, <1>4 DEF UnaVez
  <1> QED
    BY <1>5, <1>6 DEF UnaVez

\* What is stored is where it was.
LEMMA LiberaContenido ==
  ASSUME IInv, NEW k, NEW h, Libera(k, h), Atendido, archivos' = archivos
  PROVE  ContenidoFiel'
  <1> SUFFICES ASSUME TIPO_ASIGNACION' = "GLOBAL", NEW a \in Almacenadas'
               PROVE  \/ Contenido(a)' = lista_paginas_almacenadas'[a].texto
                      \/ Contenido(a)' = Basura /\ Largos # {}
    BY DEF ContenidoFiel
  <1> DEFINE lista == lista_paginas_almacenadas
  <1>1. ContenidoFiel /\ TIPO_ASIGNACION = "GLOBAL"
    BY DEF IInv, Atendido, configuracion
  <1>2. /\ h[a] \in Almacenadas /\ lista'[a] = lista[h[a]]
        /\ lista[h[a]].marco \in DOMAIN tabla_marcos
    BY LiberaLugares
  <1>3. \A j \in DOMAIN tabla_marcos :
          /\ tabla_marcos'[j].file = tabla_marcos[j].file
          /\ tabla_marcos'[j].base = tabla_marcos[j].base
    BY DEF Libera
  <1>4. Contenido(a)' = Contenido(h[a])
    BY <1>2, <1>3 DEF Contenido, Lugar
  <1> QED
    BY <1>1, <1>2, <1>4 DEF ContenidoFiel

\* Freeing a frame keeps the type.
LEMMA LiberaTipo ==
  ASSUME IInv, NEW k, NEW h, Libera(k, h), Atendido,
         pedido.op = "SWAPFREE", UNCHANGED lista_mapeos,
         NEW i \in Almacenadas,
         perdidas' = (perdidas \/ Salen(pedido.pagina) # {i}),
         respuesta' = [cod |-> "RECEPCION_PAGINA", pid |-> pedido.pid,
                       pagina |-> pedido.pagina, texto |-> Contenido(i)],
         archivos' = archivos,
         en_swap' = en_swap \ {<<pedido.pid, pedido.pagina>>}
  PROVE  TypeOK'
  <1>1. /\ TypeOK /\ configuracion' = configuracion
        /\ MarcosPorArchivo' = MarcosPorArchivo
        /\ Marco' = Marco /\ Archivos' = Archivos /\ Lugares' = Lugares
    BY DEF IInv, Atendido, configuracion, Marco, Archivos, Lugares
  <1>2. /\ tabla_marcos' \in Seq(Marco')
        /\ lista_paginas_almacenadas' \in
             Seq([id_proceso : Procesos, numero_pagina : Paginas,
                  marco : DOMAIN tabla_marcos', texto : Guardados])
    BY <1>1 DEF Libera
  <1>3. espacio_disponible' \in [Archivos -> 0..MarcosPorArchivo]
    BY LiberaEspacio
  <1>4. respuesta' \in [cod : {"RECEPCION_PAGINA"}, pid : Procesos,
                        pagina : Paginas, texto : Guardados \cup {Nada}]
    <2>1. Lugar(i) \in Marco
      BY <1>1, LugaresFinitos DEF Lugar, Almacenadas
    <2>2. Contenido(i) \in Guardados \cup {Nada}
      BY <2>1, <1>1 DEF Marco, Contenido, TypeOK
    <2> QED
      BY <2>2, PedidoBienFormado
  <1>5. en_swap' \subseteq Usadas
    BY <1>1 DEF TypeOK
  <1>6. perdidas' \in BOOLEAN /\ pedido' = SinPedido
        /\ lista_mapeos' \in 0..CantidadArchivos
    BY <1>1 DEF TypeOK, Atendido
  <1>7. /\ TIPO_ASIGNACION' \in Tipos /\ MARCOS_MAXIMOS' \in Maximos
        /\ MarcosPorArchivo' \in Tamanios
    BY <1>1 DEF TypeOK, configuracion
  <1> QED
    BY <1>1, <1>2, <1>3, <1>4, <1>5, <1>6, <1>7 DEF TypeOK

\* The entry that SWAPFREE looks for
Buscada == Primero(PaginasDe(pedido.pid) \cap ConNumero(pedido.pagina))

\* It is the entry of the page asked for, and 0 only if there is none.
LEMMA BuscadaBien ==
  ASSUME TypeOK
  PROVE  /\ Buscada # 0 => /\ Buscada \in Almacenadas
                           /\ Par(Buscada) = <<pedido.pid, pedido.pagina>>
                           /\ ConNumero(pedido.pagina) # {}
         /\ Buscada = 0 => \A j \in Almacenadas :
                             Par(j) # <<pedido.pid, pedido.pagina>>
  <1> DEFINE B == PaginasDe(pedido.pid) \cap ConNumero(pedido.pagina)
             L == Len(lista_paginas_almacenadas)
  <1>1. L \in Nat /\ Almacenadas = 1..L /\ B \subseteq 1..L
    BY LugaresFinitos DEF Almacenadas, PaginasDe, ConNumero
  <1>2. /\ Buscada = 0 <=> B = {}
        /\ Buscada # 0 => Buscada \in B
    BY <1>1, PrimeroEsMinimo DEF Buscada
  <1>3. \A j \in Almacenadas : j \in B <=> Par(j) = <<pedido.pid, pedido.pagina>>
    BY DEF Par, Almacenadas, PaginasDe, ConNumero
  <1>4. B \subseteq ConNumero(pedido.pagina)
    OBVIOUS
  <1> HIDE DEF B
  <1> QED
    BY <1>1, <1>2, <1>3, <1>4

\* SWAPFREE in terms of Buscada
LEMMA SwapFreeCasos ==
  ASSUME SwapFree
  PROVE  /\ pedido.op = "SWAPFREE" /\ Atendido
         /\ UNCHANGED <<archivos, lista_mapeos>>
         /\ en_swap' = en_swap \ {<<pedido.pid, pedido.pagina>>}
         /\ \/ /\ Buscada # 0 /\ Elimina(pedido.pagina)
               /\ perdidas' = (perdidas \/ Salen(pedido.pagina) # {Buscada})
               /\ respuesta' = [cod |-> "RECEPCION_PAGINA", pid |-> pedido.pid,
                                pagina |-> pedido.pagina,
                                texto |-> Contenido(Buscada)]
            \/ /\ Buscada = 0 /\ respuesta' \in {Silencio, Perdido}
               /\ UNCHANGED <<tabla_marcos, lista_paginas_almacenadas,
                              espacio_disponible, perdidas>>
  BY DEF SwapFree, Buscada

\* SWAPFREE, whole
LEMMA SwapFreeConserva == IInv /\ SwapFree => IInv'
  <1> SUFFICES ASSUME IInv, SwapFree
               PROVE  IInv'
    OBVIOUS
  <1>1. /\ pedido.op = "SWAPFREE" /\ Atendido /\ lista_mapeos' = lista_mapeos
        /\ archivos' = archivos
        /\ en_swap' = en_swap \ {<<pedido.pid, pedido.pagina>>}
    BY SwapFreeCasos
  <1>2. TypeOK /\ MarcoExclusivo /\ EspacioExacto /\ MapeoExiste
        /\ MarcosGlobales /\ UnaVez /\ ContenidoFiel
    BY DEF IInv
  <1>3. Conversacion'
    BY <1>1 DEF Conversacion, Atendido
  <1>4. CASE /\ Buscada # 0 /\ Elimina(pedido.pagina)
             /\ perdidas' = (perdidas \/ Salen(pedido.pagina) # {Buscada})
             /\ respuesta' = [cod |-> "RECEPCION_PAGINA", pid |-> pedido.pid,
                              pagina |-> pedido.pagina,
                              texto |-> Contenido(Buscada)]
    <2>1. /\ Buscada \in Almacenadas
          /\ Par(Buscada) = <<pedido.pid, pedido.pagina>>
          /\ ConNumero(pedido.pagina) # {}
      BY <1>2, <1>4, BuscadaBien
    <2>k. PICK k \in Nat : \E h : Libera(k, h)
      BY <1>1, <1>4, <2>1, EliminaLibera
    <2>2. PICK h : Libera(k, h)
      BY <2>k
    <2>3. TypeOK'
      BY <1>1, <1>4, <2>1, <2>2, LiberaTipo
    <2>4. MarcoExclusivo' /\ EspacioExacto' /\ MarcosGlobales'
      BY <1>1, <2>2, LiberaExclusivo, LiberaEspacio, LiberaGlobales
    <2>5. UnaVez' /\ ContenidoFiel'
      BY <1>1, <1>4, <2>1, <2>2, LiberaUnaVez, LiberaContenido
    <2>6. MapeoExiste'
      <3>1. /\ espacio_disponible' \in [Archivos -> 0..MarcosPorArchivo]
            /\ espacio_disponible \in [Archivos -> 0..MarcosPorArchivo]
            /\ \A g \in Archivos :
                 espacio_disponible'[g] >= espacio_disponible[g]
            /\ MarcosPorArchivo' = MarcosPorArchivo
            /\ MarcosPorArchivo \in Nat /\ Archivos' = Archivos
        BY <1>1, <1>2, <2>2, LiberaEspacio, ConstantesOK
           DEF TypeOK, Atendido, configuracion, Archivos
      <3>2. \A g \in Archivos : espacio_disponible'[g] < MarcosPorArchivo =>
                                  espacio_disponible[g] < MarcosPorArchivo
        <4> TAKE g \in Archivos
        <4>1. /\ espacio_disponible'[g] \in 0..MarcosPorArchivo
              /\ espacio_disponible[g] \in 0..MarcosPorArchivo
              /\ espacio_disponible'[g] >= espacio_disponible[g]
          BY <3>1
        <4> QED
          BY <4>1, <3>1
      <3> QED
        BY <3>1, <3>2, <1>1, <1>2 DEF MapeoExiste
    <2> QED
      BY <1>3, <2>3, <2>4, <2>5, <2>6 DEF IInv
  <1>5. CASE /\ Buscada = 0 /\ respuesta' \in {Silencio, Perdido}
             /\ UNCHANGED <<tabla_marcos, lista_paginas_almacenadas,
                            espacio_disponible, perdidas>>
    <2>1. /\ tabla_marcos' = tabla_marcos
          /\ lista_paginas_almacenadas' = lista_paginas_almacenadas
          /\ espacio_disponible' = espacio_disponible
          /\ perdidas' = perdidas
          /\ TIPO_ASIGNACION' = TIPO_ASIGNACION
          /\ MARCOS_MAXIMOS' = MARCOS_MAXIMOS
          /\ MarcosPorArchivo' = MarcosPorArchivo
          /\ pedido' = SinPedido /\ lista_mapeos' = lista_mapeos
      BY <1>1, <1>5 DEF Atendido, configuracion
    <2>2. TypeOK'
      <3>1. Marco' = Marco
        BY <2>1 DEF Marco, Archivos, Lugares
      <3>2. /\ tabla_marcos' \in Seq(Marco')
            /\ lista_paginas_almacenadas' \in
                 Seq([id_proceso : Procesos, numero_pagina : Paginas,
                      marco : DOMAIN tabla_marcos', texto : Guardados])
        BY <1>2, <2>1, <3>1 DEF TypeOK
      <3>3. en_swap' \subseteq Usadas
        BY <1>1, <1>2 DEF TypeOK
      <3> QED
        BY <1>1, <1>2, <1>5, <2>1, <3>2, <3>3 DEF TypeOK, Archivos, Lugares
    <2>3. MarcoExclusivo' /\ EspacioExacto' /\ MarcosGlobales' /\ MapeoExiste'
          /\ ContenidoFiel'
      BY <1>1, <1>2, <2>1
         DEF MarcoExclusivo, EspacioExacto, MarcosGlobales, MapeoExiste,
             Almacenadas, Lugar, MarcosDe, Libres, Archivos, ContenidoFiel,
             Contenido
    <2>4. UnaVez'
      <3>1. \A j \in Almacenadas : Par(j) # <<pedido.pid, pedido.pagina>>
        BY <1>2, <1>5, BuscadaBien
      <3> QED
        BY <3>1, <1>1, <1>2, <2>1 DEF UnaVez, Almacenadas, Par
    <2> QED
      BY <1>3, <2>2, <2>3, <2>4 DEF IInv
  <1> QED
    BY <1>4, <1>5, SwapFreeCasos
-----------------------------------------------------------------------------
(* memoria, and the whole specification *)

LEMMA ClienteConserva == IInv /\ Cliente => IInv'
  <1> SUFFICES ASSUME IInv, Cliente
               PROVE  IInv'
    OBVIOUS
  <1>1. TypeOK /\ MarcoExclusivo /\ EspacioExacto /\ MapeoExiste
        /\ Conversacion /\ MarcosGlobales /\ UnaVez /\ ContenidoFiel
    BY DEF IInv
  <1>2. UNCHANGED <<configuracion, marcos, en_swap, perdidas>>
    BY DEF Cliente, EnviaPagina, PidePagina, RecibeRespuesta
  <1>3. /\ tabla_marcos' = tabla_marcos
        /\ lista_paginas_almacenadas' = lista_paginas_almacenadas
        /\ espacio_disponible' = espacio_disponible
        /\ lista_mapeos' = lista_mapeos /\ archivos' = archivos
        /\ TIPO_ASIGNACION' = TIPO_ASIGNACION
        /\ MARCOS_MAXIMOS' = MARCOS_MAXIMOS
        /\ MarcosPorArchivo' = MarcosPorArchivo
        /\ en_swap' = en_swap /\ perdidas' = perdidas
    BY <1>2 DEF configuracion, marcos
  <1>4. MarcoExclusivo' /\ EspacioExacto' /\ MarcosGlobales' /\ MapeoExiste'
        /\ UnaVez' /\ ContenidoFiel'
    BY <1>1, <1>3 DEF MarcoExclusivo, EspacioExacto, MarcosGlobales,
                      MapeoExiste, UnaVez, Almacenadas, Lugar, MarcosDe,
                      Libres, Par, Archivos, ContenidoFiel, Contenido
  <1> DEFINE Pedidos ==
        {SinPedido}
          \cup [op : {"SWAPSAVE"}, pid : Procesos, pagina : Paginas,
                dato : Datos]
          \cup [op : {"SWAPFREE"}, pid : Procesos, pagina : Paginas]
  <1>5. ASSUME pedido' \in Pedidos,
               respuesta' = respuesta \/ respuesta' = SinRespuesta
        PROVE  TypeOK'
    <2>1. Marco' = Marco
      BY <1>3 DEF Marco, Archivos, Lugares
    <2>2. /\ tabla_marcos' \in Seq(Marco')
          /\ lista_paginas_almacenadas' \in
               Seq([id_proceso : Procesos, numero_pagina : Paginas,
                    marco : DOMAIN tabla_marcos', texto : Guardados])
      BY <1>1, <1>3, <2>1 DEF TypeOK
    <2> QED
      BY <1>1, <1>3, <1>5, <2>2 DEF TypeOK, Archivos, Lugares
  <1>6. CASE RecibeRespuesta
    <2>1. pedido' = pedido /\ respuesta # SinRespuesta
          /\ respuesta' = SinRespuesta
      BY <1>6 DEF RecibeRespuesta
    <2>2. TypeOK'
      BY <1>1, <1>5, <2>1 DEF TypeOK
    <2>3. Conversacion'
      BY <1>1, <2>1 DEF Conversacion
    <2> QED
      BY <1>4, <2>2, <2>3 DEF IInv
  <1>7. ASSUME pedido = SinPedido, respuesta = SinRespuesta,
               NEW pp \in Usadas, pp \notin en_swap,
               NEW dato \in Datos, EnviaPagina(pp[1], pp[2], dato)
        PROVE  IInv'
    <2>1. pp = <<pp[1], pp[2]>> /\ pp[1] \in Procesos /\ pp[2] \in Paginas
      BY ConstantesOK
    <2>2. /\ pedido' = [op |-> "SWAPSAVE", pid |-> pp[1], pagina |-> pp[2],
                        dato |-> dato]
          /\ respuesta' = respuesta
      BY <1>7 DEF EnviaPagina
    <2>3. TypeOK'
      BY <1>5, <1>7, <2>1, <2>2
    <2>4. Conversacion'
      BY <1>3, <1>7, <2>1, <2>2 DEF Conversacion
    <2> QED
      BY <1>4, <2>3, <2>4 DEF IInv
  <1>8. ASSUME pedido = SinPedido, respuesta = SinRespuesta,
               NEW pp \in Usadas, pp \in en_swap,
               PidePagina(pp[1], pp[2])
        PROVE  IInv'
    <2>1. pp = <<pp[1], pp[2]>> /\ pp[1] \in Procesos /\ pp[2] \in Paginas
      BY ConstantesOK
    <2>2. /\ pedido' = [op |-> "SWAPFREE", pid |-> pp[1], pagina |-> pp[2]]
          /\ respuesta' = respuesta
      BY <1>8 DEF PidePagina
    <2>3. TypeOK'
      BY <1>5, <1>8, <2>1, <2>2
    <2>4. Conversacion'
      BY <1>3, <1>8, <2>1, <2>2 DEF Conversacion
    <2> QED
      BY <1>4, <2>3, <2>4 DEF IInv
  <1> QED
    BY <1>6, <1>7, <1>8 DEF Cliente

\* Every step keeps the invariant.
LEMMA IInvInductivo == IInv /\ [Next]_swapVars => IInv'
  <1> SUFFICES ASSUME IInv, [Next]_swapVars
               PROVE  IInv'
    OBVIOUS
  <1>1. CASE Cliente
    BY <1>1, ClienteConserva
  <1>2. CASE SwapSave
    BY <1>2, SwapSaveConserva
  <1>3. CASE SwapFree
    BY <1>3, SwapFreeConserva
  <1>4. CASE UNCHANGED swapVars
    <2>1. UNCHANGED <<TIPO_ASIGNACION, MARCOS_MAXIMOS, MarcosPorArchivo,
                      tabla_marcos, lista_paginas_almacenadas, archivos,
                      espacio_disponible, lista_mapeos, pedido, respuesta,
                      en_swap, perdidas>>
      BY <1>4 DEF swapVars, configuracion, marcos
    <2>2. Marco' = Marco
      BY <2>1 DEF Marco, Archivos, Lugares
    <2>3. TypeOK'
      BY <2>1, <2>2 DEF IInv, TypeOK, Archivos, Lugares
    <2>4. MarcoExclusivo' /\ EspacioExacto' /\ MarcosGlobales'
          /\ MapeoExiste' /\ UnaVez' /\ ContenidoFiel'
      BY <2>1 DEF IInv, MarcoExclusivo, EspacioExacto, MarcosGlobales,
                  MapeoExiste, UnaVez, Almacenadas, Lugar, MarcosDe, Libres,
                  Par, Archivos, ContenidoFiel, Contenido
    <2>5. Conversacion'
      BY <2>1 DEF IInv, Conversacion
    <2> QED
      BY <2>3, <2>4, <2>5 DEF IInv
  <1> QED
    BY <1>1, <1>2, <1>3, <1>4 DEF Next, Swap

LEMMA IInvSiempre == Spec => []IInv
  BY IInvInicial, IInvInductivo, PTL DEF Spec

\* The frames lie in their files and no file's space is ever negative:
\* insertar_pagina_en_archivo never writes beyond the end of a file.
THEOREM TipoCorrecto == Spec => []TypeOK
  <1>1. IInv => TypeOK
    BY DEF IInv
  <1> QED
    BY <1>1, IInvSiempre, PTL

\* seleccionar_marco_libre, seleccionar_marco_libre_fija and
\* instanciar_marco_global never give a frame that holds a page, or a place
\* of a file that another frame has.
THEOREM MarcosExclusivos == Spec => []MarcoExclusivo
  <1>1. IInv => MarcoExclusivo
    BY DEF IInv
  <1> QED
    BY <1>1, IInvSiempre, PTL

\* espacio_disponible is the size of the file less its taken frames, also
\* after eliminar_pagina dropped entries whose frames it did not free.
THEOREM EspacioSiempreExacto == Spec => []EspacioExacto
  <1>1. IInv => EspacioExacto
    BY DEF IInv
  <1> QED
    BY <1>1, IInvSiempre, PTL

\* lista_mapeos has an entry at the number of every file with a page.
THEOREM MapeosExisten == Spec => []MapeoExiste
  <1>1. IInv => MapeoExiste
    BY DEF IInv
  <1> QED
    BY <1>1, IInvSiempre, PTL

\* With the global assignment, where a stored page is the file has what
\* strlen() made of it when it was last saved, or, if some text exceeds a
\* frame, bytes that were written over: eliminar_pagina and the frames that
\* are used again never leave there what is another page's.
THEOREM ContenidosFieles == Spec => []ContenidoFiel
  <1>1. IInv => ContenidoFiel
    BY DEF IInv
  <1> QED
    BY <1>1, IInvSiempre, PTL
-----------------------------------------------------------------------------
(* Swap implements Almacen *)

\* What Almacen has for guardadas
Guardadas == {Par(i) : i \in Almacenadas}

\* A!Spec with names for its parts
LEMMA AlmacenConNombres ==
  /\ A!Init = /\ Guardadas = {} /\ perdidas = FALSE
              /\ PedidoAbstracto = SinPedido
              /\ RespuestaAbstracta = SinRespuesta
  /\ A!swapVars = <<Guardadas, PedidoAbstracto, RespuestaAbstracta, perdidas>>
  BY DEF A!Init, A!swapVars, A!SinPedido, A!SinRespuesta, SinPedido,
         SinRespuesta, Guardadas, Par, Almacenadas

\* A request in hand, as Almacen sees it
LEMMA PedidoVisto ==
  ASSUME IInv, pedido.op = "SWAPSAVE" \/ pedido.op = "SWAPFREE", Atendido
  PROVE  /\ PedidoAbstracto.op = pedido.op
         /\ PedidoAbstracto.pagina = <<pedido.pid, pedido.pagina>>
         /\ PedidoAbstracto' = SinPedido
  <1>1. pedido # SinPedido
    BY PedidoBienFormado
  <1>2. pedido' = SinPedido
    BY DEF Atendido
  <1>3. PedidoAbstracto = [op |-> pedido.op,
                           pagina |-> <<pedido.pid, pedido.pagina>>]
    BY <1>1 DEF PedidoAbstracto
  <1>4. PedidoAbstracto' = SinPedido
    BY <1>2 DEF PedidoAbstracto
  <1> QED
    BY <1>3, <1>4

\* Storing a page adds it to guardadas.
LEMMA ColocaGuardadas ==
  ASSUME IInv, NEW f \in Archivos, NEW i \in Nat, NEW t,
         Coloca(f, i, t)
  PROVE  Guardadas' = Guardadas \cup {<<pedido.pid, pedido.pagina>>}
  <1> DEFINE lista == lista_paginas_almacenadas
             L == Len(lista)
             pp == <<pedido.pid, pedido.pagina>>
  <1>1. /\ L \in Nat /\ Almacenadas = 1..L /\ Almacenadas' = 1..(L + 1)
        /\ \A j \in 1..L : lista'[j] = lista[j]
        /\ lista'[L + 1] = PaginaAlmacenada(i, t)
    BY ColocaLugares
  <1>2. PICK n \in Nat : n = L + 1
    BY <1>1
  <1>3. Par(n)' = pp /\ \A j \in Almacenadas : Par(j)' = Par(j)
    BY <1>1, <1>2 DEF Par, PaginaAlmacenada
  <1>4. Almacenadas' = Almacenadas \cup {n}
    BY <1>1, <1>2
  <1> QED
    BY <1>3, <1>4 DEF Guardadas

\* SWAPSAVE is the abstract Guarda.
LEMMA SwapSaveGuarda == IInv /\ SwapSave => A!Guarda
  <1> SUFFICES ASSUME IInv, SwapSave
               PROVE  A!Guarda
    OBVIOUS
  <1> DEFINE pp == <<pedido.pid, pedido.pagina>>
  <1>1. pedido.op = "SWAPSAVE" /\ Atendido
    BY SwapSaveCasos
  <1>2. /\ PedidoAbstracto.op = "SWAPSAVE" /\ PedidoAbstracto.pagina = pp
        /\ PedidoAbstracto' = SinPedido
    BY <1>1, PedidoVisto
  <1>3. CASE /\ NadaGuardado
             /\ respuesta' \in {[cod |-> "PAGINA_NO_GUARDADA"], Caido}
    <2>1. Guardadas' = Guardadas /\ perdidas' = perdidas
      BY <1>3 DEF NadaGuardado, Guardadas, Par, Almacenadas
    <2>2. RespuestaAbstracta' \in {[cod |-> "PAGINA_NO_GUARDADA"], Caido}
      <3>1. respuesta'.cod # "RECEPCION_PAGINA"
        BY <1>3 DEF Caido
      <3> QED
        BY <1>3, <3>1 DEF RespuestaAbstracta
    <2> QED
      BY <1>2, <2>1, <2>2
         DEF A!Guarda, A!SinPedido, A!Caido, SinPedido, Caido, Guardadas,
             Par, Almacenadas
  <1>4. CASE \E f \in Archivos, i \in Nat, t \in Guardados : Coloca(f, i, t)
    <2>1. PICK f \in Archivos, i \in Nat, t \in Guardados :
                 Coloca(f, i, t)
      BY <1>4
    <2>2. Guardadas' = Guardadas \cup {pp}
      BY <2>1, ColocaGuardadas
    <2>3. RespuestaAbstracta' = [cod |-> "PAGINA_GUARDADA"]
          /\ perdidas' = perdidas
      BY <2>1 DEF Coloca, RespuestaAbstracta
    <2> QED
      BY <1>2, <2>2, <2>3
         DEF A!Guarda, A!SinPedido, SinPedido, Guardadas, Par, Almacenadas
  <1> QED
    BY <1>3, <1>4, SwapSaveCasos

\* What leaves with the page that is given back has its number; and nothing
\* else leaves exactly when perdidas stays as it was.
LEMMA LiberaGuardadas ==
  ASSUME IInv, NEW k, NEW h, Libera(k, h),
         NEW i \in Almacenadas, Par(i) = <<pedido.pid, pedido.pagina>>,
         perdidas' = (perdidas \/ Salen(pedido.pagina) # {i}),
         PedidoAbstracto.pagina = <<pedido.pid, pedido.pagina>>
  PROVE  \E salen \in SUBSET A!DeSuNumero :
           /\ Guardadas' = Guardadas \ salen
           /\ perdidas' = (perdidas
                             \/ salen # {<<pedido.pid, pedido.pagina>>})
  <1> DEFINE lista == lista_paginas_almacenadas
             pp == <<pedido.pid, pedido.pagina>>
             S == Salen(pedido.pagina)
             antes == Guardadas
             despues == {Par(j) : j \in Almacenadas \ S}
             salen == antes \ despues
  <1>1. TypeOK /\ UnaVez /\ perdidas \in BOOLEAN
    BY DEF IInv, TypeOK
  <1>2. /\ h \in [Almacenadas' -> Almacenadas \ S]
        /\ \A j \in Almacenadas \ S : \E a \in Almacenadas' : h[a] = j
        /\ \A a \in Almacenadas' : lista'[a] = lista[h[a]]
    BY DEF Libera
  <1>3. \A a \in Almacenadas' : Par(a)' = Par(h[a])
    BY <1>2 DEF Par
  <1>4. Guardadas' = despues
    <2>1. Guardadas' = {Par(a)' : a \in Almacenadas'}
      BY DEF Guardadas
    <2>2. \A q : q \in Guardadas' => q \in despues
      BY <2>1, <1>2, <1>3
    <2>3. \A j \in Almacenadas \ S : Par(j) \in Guardadas'
      BY <2>1, <1>2, <1>3
    <2> QED
      BY <2>2, <2>3
  <1>5. antes = {Par(j) : j \in Almacenadas} /\ despues \subseteq antes
    BY DEF Guardadas
  <1>6. \A j \in Almacenadas : Par(j) \notin despues => j \in S
    OBVIOUS
  <1>7. \A j \in S : Par(j)[2] = pedido.pagina
    BY DEF Salen, ConNumero, Par
  <1>8. A!DeSuNumero = {q \in antes : q[2] = pedido.pagina}
    BY DEF A!DeSuNumero, Guardadas, Par, Almacenadas
  <1> HIDE DEF despues, antes
  <1>9. salen \in SUBSET A!DeSuNumero
    BY <1>5, <1>6, <1>7, <1>8
  <1>10. antes \ salen = despues
    BY <1>5
  <1>11. ASSUME ~perdidas
         PROVE  (S = {i}) <=> (salen = {pp})
    <2>1. \A j, l \in Almacenadas : Par(j) = Par(l) => j = l
      BY <1>1, <1>11 DEF UnaVez
    <2>2. \A j \in S : j \in Almacenadas
      BY DEF Salen, ConNumero, Almacenadas
    <2>3. \A j \in S : Par(j) \in salen
      BY <2>1, <2>2, <1>5 DEF despues
    <2>4. \A q \in salen : \E j \in S : q = Par(j)
      BY <1>5, <1>6
    <2> HIDE DEF S, salen
    <2>5. ASSUME S = {i}
          PROVE  salen = {pp}
      BY <2>3, <2>4, <2>5
    <2>6. ASSUME salen = {pp}
          PROVE  S = {i}
      <3>1. \A j \in S : j = i
        BY <2>1, <2>2, <2>3, <2>6
      <3>2. PICK j \in S : pp = Par(j)
        BY <2>4, <2>6
      <3> QED
        BY <3>1, <3>2
    <2> QED
      BY <2>5, <2>6
  <1>12. perdidas' = (perdidas \/ salen # {pp})
    <2>1. CASE perdidas
      BY <2>1
    <2>2. CASE ~perdidas
      BY <2>2, <1>11
    <2> QED
      BY <2>1, <2>2
  <1> WITNESS salen \in SUBSET A!DeSuNumero
  <1> QED
    BY <1>4, <1>10, <1>12 DEF antes

\* A!Devuelve with names for its parts
LEMMA DevuelveConNombres ==
  A!Devuelve =
    (/\ PedidoAbstracto.op = "SWAPFREE"
     /\ \/ /\ PedidoAbstracto.pagina \in Guardadas
           /\ \E salen \in SUBSET A!DeSuNumero :
                /\ Guardadas' = Guardadas \ salen
                /\ perdidas' = (perdidas \/ salen # {PedidoAbstracto.pagina})
           /\ RespuestaAbstracta' = [cod |-> "RECEPCION_PAGINA",
                                     pagina |-> PedidoAbstracto.pagina]
        \/ /\ PedidoAbstracto.pagina \notin Guardadas
           /\ RespuestaAbstracta' \in {Silencio, Perdido}
           /\ Guardadas' = Guardadas /\ perdidas' = perdidas
     /\ PedidoAbstracto' = SinPedido)
  BY DEF A!Devuelve, A!SinPedido, A!Silencio, A!Perdido, SinPedido, Silencio,
         Perdido, Guardadas, Par, Almacenadas

\* SWAPFREE is the abstract Devuelve.
LEMMA SwapFreeDevuelve == IInv /\ SwapFree => A!Devuelve
  <1> SUFFICES ASSUME IInv, SwapFree
               PROVE  A!Devuelve
    OBVIOUS
  <1> DEFINE pp == <<pedido.pid, pedido.pagina>>
  <1>1. pedido.op = "SWAPFREE" /\ Atendido
    BY SwapFreeCasos
  <1>2. /\ PedidoAbstracto.op = "SWAPFREE" /\ PedidoAbstracto.pagina = pp
        /\ PedidoAbstracto' = SinPedido
    BY <1>1, PedidoVisto
  <1>3. TypeOK
    BY DEF IInv
  <1>5. CASE /\ Buscada # 0 /\ Elimina(pedido.pagina)
             /\ perdidas' = (perdidas \/ Salen(pedido.pagina) # {Buscada})
             /\ respuesta' = [cod |-> "RECEPCION_PAGINA", pid |-> pedido.pid,
                              pagina |-> pedido.pagina,
                              texto |-> Contenido(Buscada)]
    <2>1. /\ Buscada \in Almacenadas /\ Par(Buscada) = pp
          /\ ConNumero(pedido.pagina) # {}
      BY <1>3, <1>5, BuscadaBien
    <2>k. PICK k \in Nat : \E h : Libera(k, h)
      BY <1>1, <1>5, <2>1, EliminaLibera
    <2>2. PICK h : Libera(k, h)
      BY <2>k
    <2>3. \E salen \in SUBSET A!DeSuNumero :
            /\ Guardadas' = Guardadas \ salen
            /\ perdidas' = (perdidas \/ salen # {pp})
      BY <1>2, <1>5, <2>1, <2>2, LiberaGuardadas
    <2>4. RespuestaAbstracta' = [cod |-> "RECEPCION_PAGINA", pagina |-> pp]
      BY <1>5 DEF RespuestaAbstracta
    <2>5. pp \in Guardadas
      BY <2>1 DEF Guardadas
    <2> QED
      BY <1>2, <2>3, <2>4, <2>5, DevuelveConNombres
  <1>6. CASE /\ Buscada = 0 /\ respuesta' \in {Silencio, Perdido}
             /\ UNCHANGED <<tabla_marcos, lista_paginas_almacenadas,
                            espacio_disponible, perdidas>>
    <2>1. pp \notin Guardadas
      BY <1>3, <1>6, BuscadaBien DEF Guardadas
    <2>2. Guardadas' = Guardadas /\ perdidas' = perdidas
      BY <1>6 DEF Guardadas, Par, Almacenadas
    <2>3. RespuestaAbstracta' \in {Silencio, Perdido}
      BY <1>6 DEF RespuestaAbstracta, Silencio, Perdido
    <2> QED
      BY <1>2, <2>1, <2>2, <2>3, DevuelveConNombres
  <1> QED
    BY <1>5, <1>6, SwapFreeCasos

\* What memoria does is what it does with Almacen.
LEMMA ClienteAbstracto == IInv /\ Cliente => A!Cliente
  <1> SUFFICES ASSUME IInv, Cliente
               PROVE  A!Cliente
    OBVIOUS
  <1>1. /\ lista_paginas_almacenadas' = lista_paginas_almacenadas
        /\ perdidas' = perdidas
    BY DEF Cliente, EnviaPagina, PidePagina, RecibeRespuesta, marcos
  <1>2. CASE RecibeRespuesta
    <2>1. /\ respuesta \notin {SinRespuesta, Silencio, Perdido, Caido}
          /\ respuesta' = SinRespuesta /\ pedido' = pedido
      BY <1>2 DEF RecibeRespuesta
    <2>2. RespuestaAbstracta \notin {SinRespuesta, Silencio, Perdido, Caido}
      <3>1. CASE respuesta.cod = "RECEPCION_PAGINA"
        <4>1. RespuestaAbstracta.cod = "RECEPCION_PAGINA"
          BY <3>1 DEF RespuestaAbstracta
        <4> QED
          BY <4>1 DEF SinRespuesta, Silencio, Perdido, Caido
      <3>2. CASE respuesta.cod # "RECEPCION_PAGINA"
        BY <2>1, <3>2 DEF RespuestaAbstracta
      <3> QED
        BY <3>1, <3>2
    <2>3. RespuestaAbstracta' = SinRespuesta
      BY <2>1 DEF RespuestaAbstracta, SinRespuesta
    <2>4. PedidoAbstracto' = PedidoAbstracto
      BY <2>1 DEF PedidoAbstracto
    <2> QED
      BY <1>1, <2>2, <2>3, <2>4
         DEF A!Cliente, A!RecibeRespuesta, A!SinRespuesta, A!Silencio,
             A!Terminado, A!Perdido, A!Caido, SinRespuesta, Silencio, Perdido,
             Caido
  <1>3. ASSUME pedido = SinPedido, respuesta = SinRespuesta,
               NEW pp \in Usadas,
               (\E dato \in Datos : EnviaPagina(pp[1], pp[2], dato))
                 \/ PidePagina(pp[1], pp[2])
        PROVE  A!Cliente
    <2>1. pp = <<pp[1], pp[2]>>
      BY ConstantesOK
    <2>2. PedidoAbstracto = SinPedido /\ RespuestaAbstracta = SinRespuesta
      BY <1>3 DEF PedidoAbstracto, RespuestaAbstracta, SinRespuesta
    <2>3. RespuestaAbstracta' = RespuestaAbstracta
      BY <1>3 DEF EnviaPagina, PidePagina, RespuestaAbstracta
    <2>4. CASE \E dato \in Datos : EnviaPagina(pp[1], pp[2], dato)
      <3>1. PICK dato \in Datos : EnviaPagina(pp[1], pp[2], dato)
        BY <2>4
      <3>2. /\ pedido'.op = "SWAPSAVE" /\ pedido' # SinPedido
            /\ pedido'.pid = pp[1] /\ pedido'.pagina = pp[2]
        BY <3>1 DEF EnviaPagina, SinPedido
      <3>3. PedidoAbstracto' = [op |-> "SWAPSAVE", pagina |-> pp]
        BY <2>1, <3>2 DEF PedidoAbstracto, SinPedido
      <3>4. A!EnviaPagina(pp)
        BY <1>1, <2>3, <3>3 DEF A!EnviaPagina
      <3> QED
        BY <2>2, <3>4
           DEF A!Cliente, A!SinPedido, A!SinRespuesta, SinPedido, SinRespuesta
    <2>5. CASE PidePagina(pp[1], pp[2])
      <3>1. /\ pedido'.op = "SWAPFREE" /\ pedido' # SinPedido
            /\ pedido'.pid = pp[1] /\ pedido'.pagina = pp[2]
        BY <2>5 DEF PidePagina, SinPedido
      <3>2. PedidoAbstracto' = [op |-> "SWAPFREE", pagina |-> pp]
        BY <2>1, <3>1 DEF PedidoAbstracto, SinPedido
      <3>3. A!PidePagina(pp)
        BY <1>1, <2>3, <3>2 DEF A!PidePagina
      <3> QED
        BY <2>2, <3>3
           DEF A!Cliente, A!SinPedido, A!SinRespuesta, SinPedido, SinRespuesta
    <2> QED
      BY <1>3, <2>4, <2>5
  <1> QED
    BY <1>2, <1>3 DEF Cliente

\* Seen from memoria, swap keeps what Almacen promises, and Memoria relies
\* on: each request has its effect on the set of the pages and its answer,
\* and only pages of the number asked for leave with it.
THEOREM ImplementaAlmacenSiempre == Spec => ImplementaAlmacen
  <1>1. Init => A!Init
    <2> SUFFICES ASSUME Init
                 PROVE  A!Init
      OBVIOUS
    <2>1. Guardadas = {}
      BY DEF Init, Guardadas, Almacenadas
    <2>2. PedidoAbstracto = SinPedido /\ RespuestaAbstracta = SinRespuesta
      BY DEF Init, PedidoAbstracto, RespuestaAbstracta, SinRespuesta
    <2> QED
      BY <2>1, <2>2, AlmacenConNombres DEF Init
  <1>2. IInv /\ [Next]_swapVars => [A!Cliente \/ A!Swap]_(A!swapVars)
    <2> SUFFICES ASSUME IInv, [Next]_swapVars
                 PROVE  [A!Cliente \/ A!Swap]_(A!swapVars)
      OBVIOUS
    <2>1. CASE Cliente
      BY <2>1, ClienteAbstracto
    <2>2. CASE SwapSave
      BY <2>2, SwapSaveGuarda DEF A!Swap
    <2>3. CASE SwapFree
      BY <2>3, SwapFreeDevuelve DEF A!Swap
    <2>4. CASE UNCHANGED swapVars
      <3>1. UNCHANGED <<lista_paginas_almacenadas, pedido, respuesta, perdidas>>
        BY <2>4 DEF swapVars, marcos
      <3>2. UNCHANGED A!swapVars
        BY <3>1 DEF A!swapVars, PedidoAbstracto, RespuestaAbstracta
      <3> QED
        BY <3>2
    <2> QED
      BY <2>1, <2>2, <2>3, <2>4 DEF Next, Swap
  <1> QED
    BY <1>1, <1>2, IInvSiempre, PTL DEF Spec, ImplementaAlmacen, A!Spec
=============================================================================
