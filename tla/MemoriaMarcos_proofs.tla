------------------------ MODULE MemoriaMarcos_proofs ------------------------
(***************************************************************************)
(* Proofs about which pages are in memory, in which frames, and what the   *)
(* lists, the TLB and swap say of them.                                    *)
(***************************************************************************)
EXTENDS Memoria_proofs
-----------------------------------------------------------------------------
(* What a step does to the pages in memory: one of these *)

\* Nothing of memoria but the TLB, which may lose entries; swap answers, or
\* its refusal is read and memoria falls.
Espera ==
  /\ UNCHANGED <<config, tablas, reemplazo, operacion>>
  /\ Range(tlb') \subseteq Range(tlb) /\ (caida => caida')
  /\ \/ UNCHANGED swapVars \/ S!Swap
     \/ /\ Guardando /\ S!RecibeRespuesta /\ caida'
        /\ respuesta.cod = "PAGINA_NO_GUARDADA"

\* A request starts, goes on or ends, and nothing else.
Sigue ==
  /\ ~Reemplazando'
  /\ UNCHANGED <<config, libres, paginas, paginas_en_memoria, reemplazo, tlb>>
  /\ \/ /\ UNCHANGED <<tabla_procesos, tabla_paginas>>
        /\ EnCurso \/ tabla_paginas # Nadie
     \/ \E pid \in Procesos : BuscaTabla(pid)
  /\ \/ UNCHANGED swapVars /\ (Guardando => respuesta \in S!Terminado)
     \/ /\ Guardando /\ S!RecibeRespuesta
        /\ respuesta.cod = "PAGINA_NO_GUARDADA"
  /\ ConSuMarco \/ Trayendo => respuesta = S!Perdido

\* Victim v, found at that place, leaves for swap.
Manda(v, lugar) ==
  /\ Necesita /\ EnCurso /\ GetMarco = -1
  /\ Envia(v, lugar) /\ VictimaDe(v, lugar) /\ MismasPaginas
  /\ Clock => v \in Presentes
  /\ UNCHANGED <<config, libres, tabla_procesos, paginas_en_memoria,
                 tabla_paginas, reemplazo, caida>>

\* Page p is created in frame m, free or of a victim.
Crea(p, m, libre) ==
  /\ EnCurso /\ tabla_paginas \in Procesos /\ p[1] = tabla_paginas
  /\ Existen' = Existen \cup {p} /\ Presentes' = Presentes \cup {p}
  /\ Pagina(p)'.marco = m
  /\ \A x \in Existen : Pagina(x)'.marco = Pagina(x).marco
  /\ libres' = libres \ {m}
  /\ paginas_en_memoria' = [paginas_en_memoria EXCEPT ![p[1]] = @ + 1]
  /\ tlb' = AgregaTlb(tlb, p, m)
  /\ lista_reemplazo' = AgregaAsignacion(p, libre)
  /\ referencias' = Ultima(p) /\ ~Reemplazando'
  /\ UNCHANGED <<config, tabla_procesos, tabla_paginas, ultimo_Clock, cruces,
                 caida, swapVars>>
  /\ libre => GetMarco = m /\ Necesita /\ ~SinReloj
  /\ ~libre => ConSuMarco /\ m = operacion.marco

\* Page p, which was left without a frame, gets a free one.
Entra(p, m) ==
  /\ EnCurso /\ tabla_paginas \in Procesos /\ p[1] = tabla_paginas
  /\ Necesita /\ GetMarco = m /\ ~SinReloj
  /\ Existen' = Existen /\ Presentes' = Presentes \cup {p}
  /\ \A x \in Existen :
       Pagina(x)'.marco = IF x = p THEN m ELSE Pagina(x).marco
  /\ lista_reemplazo' = AgregaAsignacion(p, TRUE)
  /\ referencias' = Ultima(p)
  /\ UNCHANGED <<config, libres, tabla_procesos, paginas_en_memoria,
                 tabla_paginas, ultimo_Clock, cruces, tlb, operacion, caida,
                 swapVars>>

\* Victim v has left.
Sale(v, lugar) ==
  /\ EnCurso /\ Guardando /\ v = operacion.victima /\ lugar = operacion.lugar
  /\ VictimaDe(v, lugar) /\ Deja(v, lugar) /\ tabla_paginas \in Procesos
  /\ respuesta.cod = "PAGINA_GUARDADA"
  /\ Existen' = Existen /\ Presentes' = Presentes \ {v}
  /\ \A x \in Existen : Pagina(x)'.marco = Pagina(x).marco
  /\ ConSuMarco' /\ operacion'.marco = Pagina(v).marco

\* Page p is asked back, for frame m.
PidePagina(p, m) ==
  /\ EnCurso /\ ConSuMarco /\ p = Actual /\ m = operacion.marco
  /\ p[1] = tabla_paginas /\ Trayendo' /\ Actual' = Actual
  /\ Existen' = Existen /\ Presentes' = Presentes
  /\ \A x \in Existen :
       Pagina(x)'.marco = IF x = p THEN m ELSE Pagina(x).marco
  /\ S!PidePagina(p)
  /\ UNCHANGED <<config, libres, tabla_procesos, paginas_en_memoria,
                 tabla_paginas, reemplazo, tlb, caida>>

\* Page p is back.
Vuelve(p) ==
  /\ EnCurso /\ Trayendo /\ p = Actual /\ p[1] = tabla_paginas
  /\ tabla_paginas \in Procesos /\ respuesta.cod = "RECEPCION_PAGINA"
  /\ S!RecibeRespuesta
  /\ Existen' = Existen /\ Presentes' = Presentes \cup {p}
  /\ \A x \in Existen : Pagina(x)'.marco = Pagina(x).marco
  /\ paginas_en_memoria' = [paginas_en_memoria EXCEPT ![p[1]] = @ + 1]
  /\ lista_reemplazo' = AgregaAsignacion(p, FALSE)
  /\ referencias' = Ultima(p) /\ ~Reemplazando'
  /\ UNCHANGED <<config, libres, tabla_procesos, tabla_paginas, ultimo_Clock,
                 cruces, tlb, caida>>

Paso ==
  \/ Espera \/ Sigue \/ Accede
  \/ \E v \in Existen, lugar \in Nat : Manda(v, lugar) \/ Sale(v, lugar)
  \/ \E p \in Usadas \ Existen, m \in Marcos, libre \in BOOLEAN :
       Crea(p, m, libre)
  \/ \E p \in Existen \ Presentes, m \in Marcos :
       Entra(p, m) \/ PidePagina(p, m)
  \/ \E p \in Existen \ Presentes : Vuelve(p)

LEMMA EmpiezaSigue ==
  ASSUME NEW tipo, NEW faltan, Empieza(tipo, faltan), operacion = Libre,
         \/ /\ UNCHANGED <<tabla_procesos, tabla_paginas>>
            /\ tabla_paginas # Nadie
         \/ \E pid \in Procesos : BuscaTabla(pid)
  PROVE  Sigue
  BY DEF Empieza, Sigue, Reemplazando, Guardando, ConSuMarco, Trayendo, EnCurso

LEMMA AvanzaSigue ==
  ASSUME IInvTipos, EnCurso, Avanza
  PROVE  ~Reemplazando'
  <1>1. operacion \in Operaciones
    BY TocaBien
  <1> QED
    BY <1>1 DEF Avanza, Operaciones, Reemplazando, Guardando, ConSuMarco,
                Trayendo, EnCurso

\* The steps that leave the pages in memory as they were.
LEMMA PasoQuieto ==
  ASSUME IInvTipos,
         \/ MemLeeEscribe \/ MemAlloc \/ MemFree \/ LimpiaTlb \/ Swap
         \/ Cae \/ Recorre \/ NoGuardada \/ NoTrajo \/ UNCHANGED vars
  PROVE  Espera \/ Sigue
  <1>1. CASE MemLeeEscribe
    BY <1>1, EmpiezaSigue DEF MemLeeEscribe, PuedeEmpezar
  <1>2. CASE MemAlloc
    BY <1>2, EmpiezaSigue DEF MemAlloc, PuedeEmpezar
  <1>3. CASE Cae \/ Swap \/ UNCHANGED vars
    BY <1>3 DEF Cae, Swap, vars, memVars, Espera
  <1>4. CASE MemFree
    BY <1>3, <1>4, EmpiezaSigue DEF MemFree, PuedeEmpezar
  <1>5. CASE LimpiaTlb
    <2>1. Range(tlb') = {}
      BY <1>5 DEF LimpiaTlb, Range
    <2> QED
      BY <1>5, <2>1 DEF LimpiaTlb, Espera
  <1>6. CASE Recorre
    <2>1. EnCurso /\ Avanza /\ operacion.pc = "sigue"
      BY <1>6 DEF Recorre, Falta, EnPaso, EnCurso
    <2> QED
      BY <1>6, <2>1, AvanzaSigue
         DEF Recorre, Sigue, tablas, Guardando, ConSuMarco, Trayendo
  <1>7. CASE NoGuardada \/ NoTrajo
    <2>1. /\ EnCurso /\ ~caida /\ Falla
          /\ UNCHANGED <<config, tablas, reemplazo, tlb>>
          /\ \/ UNCHANGED swapVars /\ (Guardando => respuesta \in S!Terminado)
             \/ /\ Guardando /\ S!RecibeRespuesta
                /\ respuesta.cod = "PAGINA_NO_GUARDADA"
          /\ ConSuMarco \/ Trayendo => respuesta = S!Perdido
      BY <1>7 DEF NoGuardada, NoTrajo, EnPaso, EnCurso, Guardando, ConSuMarco,
                  Trayendo
    <2>2. CASE operacion' = Libre
      BY <2>1, <2>2 DEF Sigue, tablas, Reemplazando, Guardando, ConSuMarco,
                        Trayendo, EnCurso
    <2>3. CASE Avanza
      BY <2>1, <2>3, AvanzaSigue DEF Sigue, tablas
    <2>4. CASE operacion' = operacion /\ caida'
      BY <2>1, <2>4 DEF Espera
    <2>5. CASE FallaPrimerHeader
      <3>1. operacion \in Operaciones /\ tabla_paginas \in Procesos
        BY <2>1, TocaBien
      <3>2. operacion'.pc = "sigue"
        BY <2>5, <3>1 DEF FallaPrimerHeader, Operaciones
      <3>3. ~Reemplazando'
        BY <3>2 DEF Reemplazando, Guardando, ConSuMarco, Trayendo
      <3> QED
        BY <2>1, <3>3 DEF Sigue, tablas
    <2> QED
      BY <2>1, <2>2, <2>3, <2>4, <2>5 DEF Falla, FallaCadena, FallaFooter
  <1> QED
    BY <1>1, <1>2, <1>3, <1>4, <1>5, <1>6, <1>7

LEMMA PasoCrea ==
  ASSUME IInvTipos, EnCurso, Toca = Nueva, NEW m \in Marcos,
         NEW libre \in BOOLEAN, AgregaPagina(m, libre),
         libre => GetMarco = m /\ Necesita /\ ~SinReloj,
         ~libre => ConSuMarco /\ m = operacion.marco
  PROVE  \E p \in Usadas \ Existen : Crea(p, m, libre)
  <1>1. PICK p \in Usadas \ Existen :
          /\ p = <<tabla_paginas, Cantidad + 1>>
          /\ Existen' = Existen \cup {p}
          /\ Presentes' = Presentes \cup {p}
          /\ Pagina(p)'.marco = m
          /\ \A x \in Existen : Pagina(x)' = Pagina(x)
    BY AgregaPaginaVista
  <1>2. /\ libres' = libres \ {m}
        /\ paginas_en_memoria' =
             [paginas_en_memoria EXCEPT ![tabla_paginas] = @ + 1]
        /\ tlb' = AgregaTlb(tlb, p, m)
        /\ lista_reemplazo' = AgregaAsignacion(p, libre)
        /\ referencias' = Ultima(p) /\ Avanza
        /\ UNCHANGED <<config, tabla_procesos, tabla_paginas, ultimo_Clock,
                       cruces, caida, swapVars>>
    BY <1>1 DEF AgregaPagina
  <1>3. p[1] = tabla_paginas /\ tabla_paginas \in Procesos /\ ~Reemplazando'
    BY <1>1, <1>2, TocaBien, AvanzaSigue
  <1>4. Crea(p, m, libre)
    BY <1>1, <1>2, <1>3 DEF Crea
  <1> QED
    BY <1>4

LEMMA PasoConMarcoLibre ==
  ASSUME IInvTipos, ConMarcoLibre, ~Cae
  PROVE  Paso
  <1>1. Necesita /\ EnCurso /\ GetMarco \in Marcos /\ ~SinReloj
    BY NecesitaBien DEF ConMarcoLibre
  <1>2. PICK m \in Marcos : m = GetMarco
    BY <1>1
  <1>3. CASE Toca = Nueva
    <2>1. AgregaPagina(m, TRUE)
      BY <1>1, <1>2, <1>3 DEF ConMarcoLibre
    <2>2. \E p \in Usadas \ Existen : Crea(p, m, TRUE)
      BY <1>1, <1>2, <1>3, <2>1, PasoCrea
    <2> QED
      BY <2>2 DEF Paso
  <1>4. CASE Toca # Nueva
    <2>1. /\ Actual \in Existen \ Presentes
          /\ Existen' = Existen /\ Presentes' = Presentes \cup {Actual}
          /\ \A x \in Existen : Pagina(x)'.marco =
               IF x = Actual THEN GetMarco ELSE Pagina(x).marco
      BY <1>1, <1>4, ConMarcoLibreVista
    <2>2. /\ lista_reemplazo' = AgregaAsignacion(Actual, TRUE)
          /\ referencias' = Ultima(Actual)
          /\ UNCHANGED <<config, libres, tabla_procesos, paginas_en_memoria,
                         tabla_paginas, ultimo_Clock, cruces, tlb,
                         operacion, caida, swapVars>>
      BY <1>1, <1>4 DEF ConMarcoLibre
    <2>3. PICK p \in Existen \ Presentes : p = Actual
      BY <2>1
    <2>4. p[1] = tabla_paginas /\ tabla_paginas \in Procesos
      BY <1>1, <2>3, TocaBien
    <2>5. Entra(p, m)
      BY <1>1, <1>2, <2>1, <2>2, <2>3, <2>4 DEF Entra
    <2> QED
      BY <2>5 DEF Paso
  <1> QED
    BY <1>3, <1>4

LEMMA PasoReemplazaLRU ==
  ASSUME IInvTipos, ReemplazaLRU, ~Cae
  PROVE  Paso
  <1>1. /\ Necesita /\ GetMarco = -1 /\ ~Clock
        /\ lista_reemplazo[Lista] # <<>> /\ Envia(Victima, 0)
        /\ UNCHANGED <<config, tablas, reemplazo, caida>>
    BY DEF ReemplazaLRU
  <1>2. EnCurso /\ tabla_paginas \in Procesos
    BY <1>1, NecesitaBien, TocaBien
  <1>3. PICK l \in Seq(Usadas) :
          l = lista_reemplazo[Lista] /\ Range(l) \subseteq Existen
    BY <1>2 DEF Lista, IInvTipos, Tipos
  <1>4. Head(l) \in Existen
    BY <1>1, <1>3, RangoSinElPrimero
  <1>5. PICK v \in Existen : v = Victima
    BY <1>3, <1>4 DEF Victima
  <1>6. VictimaDe(v, 0)
    BY <1>1, <1>5 DEF VictimaDe, Victima
  <1>7. MismasPaginas
    BY <1>1 DEF MismasPaginas, Existen, Presentes, Pagina, tablas
  <1>8. Manda(v, 0)
    BY <1>1, <1>2, <1>5, <1>6, <1>7 DEF Manda, tablas
  <1> QED
    BY <1>8 DEF Paso

LEMMA PasoReemplazaClock ==
  ASSUME IInvTipos, ReemplazaClock, ~Cae
  PROVE  Paso
  <1>1. /\ MismasPaginas /\ Fija /\ Gira.lugar # 0
        /\ lista_reemplazo[Lista] # <<>> =>
             ultimo_Clock[tabla_paginas] < Len(lista_reemplazo[Lista])
        /\ Envia(lista_reemplazo[Lista][Vuelta[Gira.lugar]],
                 Vuelta[Gira.lugar])
        /\ UNCHANGED <<config, libres, tabla_procesos, paginas_en_memoria,
                       tabla_paginas, reemplazo, caida>>
    BY ReemplazaClockVista
  <1>2. Necesita /\ Clock /\ GetMarco = -1
    BY DEF ReemplazaClock
  <1>3. EnCurso /\ tabla_paginas \in Procesos
    BY <1>2, NecesitaBien, TocaBien
  <1>4. PICK l \in Seq(Usadas) :
          l = lista_reemplazo[Lista] /\ Range(l) \subseteq Existen
    BY <1>3 DEF Lista, IInvTipos, Tipos
  <1>5. /\ Vuelta[Gira.lugar] \in DOMAIN l
        /\ l[Vuelta[Gira.lugar]] \in Presentes
    BY <1>1, <1>3, <1>4, GiraBien DEF IInvTipos
  <1>6. PICK lugar \in Nat : lugar = Vuelta[Gira.lugar] /\ lugar \in DOMAIN l
    BY <1>4, <1>5, LenProperties
  <1>7. PICK v \in Existen : v = l[lugar]
    BY <1>4, <1>6 DEF Range
  <1>8. VictimaDe(v, lugar)
    <2>1. l # <<>>
      BY <1>6
    <2> QED
      BY <1>1, <1>2, <1>4, <1>6, <1>7, <2>1 DEF VictimaDe
  <1>9. Envia(v, lugar) /\ v \in Presentes
    BY <1>1, <1>4, <1>5, <1>6, <1>7
  <1>10. Manda(v, lugar)
    BY <1>1, <1>2, <1>3, <1>8, <1>9 DEF Manda
  <1> QED
    BY <1>10 DEF Paso

LEMMA PasoGuardada ==
  ASSUME IInvTipos, Guardada
  PROVE  Paso
  <1>1. /\ Guardando /\ EnCurso /\ Deja(operacion.victima, operacion.lugar)
        /\ respuesta.cod = "PAGINA_GUARDADA"
    BY DEF Guardada, EnPaso, Guardando, EnCurso
  <1>2. /\ operacion.victima \in Existen
        /\ VictimaDe(operacion.victima, operacion.lugar)
    BY <1>1 DEF IInvTipos, ReemplazoBien
  <1>3. operacion \in Operaciones /\ tabla_paginas \in Procesos
    BY <1>1, TocaBien
  <1>4. PICK v \in Existen, lugar \in Nat :
          v = operacion.victima /\ lugar = operacion.lugar
    BY <1>2, <1>3 DEF Operaciones
  <1>5. /\ Existen' = Existen /\ Presentes' = Presentes \ {v}
        /\ \A x \in Existen : Pagina(x)'.marco = Pagina(x).marco
    BY <1>1, <1>4, DejaVista
  <1>6. operacion' = [operacion EXCEPT !.pc = "con_marco", !.victima = NULA,
                                  !.lugar = 0, !.marco = Pagina(v).marco]
    BY <1>1, <1>4 DEF Deja
  <1>7. operacion'.pc = "con_marco" /\ operacion'.marco = Pagina(v).marco
    BY <1>3, <1>6 DEF Operaciones
  <1>8. ConSuMarco'
    <2>1. operacion'.tipo # "ninguno"
      BY <1>3, <1>6 DEF Operaciones, Pedidos
    <2> QED
      BY <1>7, <2>1 DEF ConSuMarco, EnCurso, Libre
  <1>9. Sale(v, lugar)
    BY <1>1, <1>2, <1>3, <1>4, <1>5, <1>7, <1>8 DEF Sale
  <1> QED
    BY <1>9 DEF Paso

LEMMA PasoPide ==
  ASSUME IInvTipos, Pide
  PROVE  Paso
  <1>1. /\ Existen' = Existen /\ Presentes' = Presentes
        /\ Actual \in Existen \ Presentes /\ ConSuMarco /\ Toca # Nueva
        /\ \A x \in Existen : Pagina(x)'.marco =
             IF x = Actual THEN operacion.marco ELSE Pagina(x).marco
    BY PideVista
  <1>2. /\ operacion' = [operacion EXCEPT !.pc = "trae", !.marco = 0]
        /\ S!PidePagina(Actual)
        /\ UNCHANGED <<config, libres, tabla_procesos, paginas_en_memoria,
                       tabla_paginas, reemplazo, tlb, caida>>
    BY DEF Pide
  <1>3. EnCurso
    BY <1>1 DEF ConSuMarco
  <1>4. operacion \in Operaciones /\ Actual[1] = tabla_paginas
    BY <1>3, TocaBien
  <1>5. /\ operacion'.pc = "trae" /\ operacion'.faltan = operacion.faltan
        /\ operacion'.tipo # "ninguno"
    BY <1>2, <1>4 DEF Operaciones, Pedidos
  <1>6. Trayendo' /\ Actual' = Actual
    BY <1>2, <1>5 DEF Trayendo, EnCurso, Libre, Actual, Toca
  <1>7. PICK p \in Existen \ Presentes, m \in Marcos :
          p = Actual /\ m = operacion.marco
    BY <1>1 DEF IInvTipos, ReemplazoBien
  <1>8. PidePagina(p, m)
    BY <1>1, <1>2, <1>3, <1>4, <1>6, <1>7 DEF PidePagina
  <1> QED
    BY <1>8 DEF Paso

LEMMA PasoTrajo ==
  ASSUME IInvTipos, Trajo
  PROVE  Paso
  <1>1. /\ Existen' = Existen /\ Presentes' = Presentes \cup {Actual}
        /\ Actual \in Existen \ Presentes /\ Trayendo
        /\ \A x \in Existen : Pagina(x)'.marco = Pagina(x).marco
    BY TrajoVista
  <1>2. /\ S!RecibeRespuesta /\ respuesta.cod = "RECEPCION_PAGINA"
        /\ paginas_en_memoria' =
             [paginas_en_memoria EXCEPT ![tabla_paginas] = @ + 1]
        /\ lista_reemplazo' = AgregaAsignacion(Actual, FALSE)
        /\ referencias' = Ultima(Actual)
        /\ operacion' = [operacion EXCEPT !.pc = "sigue"]
        /\ UNCHANGED <<config, libres, tabla_procesos, tabla_paginas,
                       ultimo_Clock, cruces, tlb, caida>>
    BY DEF Trajo
  <1>3. EnCurso
    BY <1>1 DEF Trayendo
  <1>4. /\ operacion \in Operaciones /\ tabla_paginas \in Procesos
        /\ Actual[1] = tabla_paginas
    BY <1>3, TocaBien
  <1>5. operacion'.pc = "sigue"
    BY <1>2, <1>4 DEF Operaciones
  <1>6. ~Reemplazando'
    BY <1>5 DEF Reemplazando, Guardando, ConSuMarco, Trayendo
  <1>7. PICK p \in Existen \ Presentes : p = Actual
    BY <1>1
  <1>8. Vuelve(p)
    BY <1>1, <1>2, <1>3, <1>4, <1>6, <1>7 DEF Vuelve
  <1> QED
    BY <1>8 DEF Paso

LEMMA PasoNuevaConMarco ==
  ASSUME IInvTipos, NuevaConMarco
  PROVE  Paso
  <1>1. /\ ConSuMarco /\ EnCurso /\ Toca = Nueva
        /\ AgregaPagina(operacion.marco, FALSE)
    BY DEF NuevaConMarco, EnPaso, ConSuMarco, EnCurso
  <1>2. PICK m \in Marcos : m = operacion.marco
    BY <1>1 DEF IInvTipos, ReemplazoBien
  <1>3. \E p \in Usadas \ Existen : Crea(p, m, FALSE)
    BY <1>1, <1>2, PasoCrea
  <1> QED
    BY <1>3 DEF Paso

\* Every step of memoria is one of them.
LEMMA PasoBien ==
  ASSUME IInvTipos, [Next]_vars
  PROVE  Paso
  <1>1. CASE \/ MemLeeEscribe \/ MemAlloc \/ MemFree \/ LimpiaTlb \/ Swap
             \/ Cae \/ Recorre \/ NoGuardada \/ NoTrajo \/ UNCHANGED vars
    BY <1>1, PasoQuieto DEF Paso
  <1>2. CASE Atiende /\ ~Cae /\ ~(Recorre \/ NoGuardada \/ NoTrajo)
    BY <1>2, PasoConMarcoLibre, PasoReemplazaLRU, PasoReemplazaClock,
       PasoGuardada, PasoNuevaConMarco, PasoPide, PasoTrajo
       DEF Atiende, SinPagina, Corrompe, LiberaSinIniciar, Paso
  <1> QED
    BY <1>1, <1>2 DEF Next
-----------------------------------------------------------------------------
(* The TLB *)

\* With at most one entry the TLB tells the truth, and it has forgotten the
\* victim that travels.
TlbExacta ==
  config.CANTIDAD_ENTRADAS_TLB <= 1 =>
    \A e \in Range(tlb) :
      /\ e.pagina \in Presentes
      /\ e.marco = Pagina(e.pagina).marco
      /\ Guardando => e.pagina # operacion.victima

LEMMA PresentesExisten == Presentes \subseteq Existen
  BY DEF Presentes, Existen

\* So an access is to a page in memory.
LEMMA AccedeAPresente ==
  ASSUME IInvTipos, TlbExacta, config.CANTIDAD_ENTRADAS_TLB <= 1, Accede
  PROVE  Actual \in Presentes
  <1>1. Acceso /\ AMano /\ Actual \in Existen
    BY AccedeVista DEF Accede
  <1>2. CASE Pagina(Actual).presencia
    BY <1>1, <1>2 DEF Presentes, Existen
  <1>3. CASE EnTlb(Actual) # 0
    <2>1. PICK p \in Usadas : p = Actual
      BY <1>1 DEF Existen
    <2>2. tlb \in Seq(DeTlb)
      BY DEF IInvTipos, Tipos
    <2>3. tlb[EnTlb(p)] \in Range(tlb) /\ tlb[EnTlb(p)].pagina = p
      BY <1>3, <2>1, <2>2, EnTlbBien DEF Range
    <2> QED
      BY <2>1, <2>3 DEF TlbExacta
  <1> QED
    BY <1>1, <1>2, <1>3 DEF AMano

LEMMA TlbPaso ==
  ASSUME IInvTipos, TlbExacta, Paso
  PROVE  TlbExacta'
  <1>c. config' = config
    BY DEF Paso, Espera, Sigue, Accede, Manda, Sale, Crea, Entra, PidePagina,
           Vuelve, Deja
  <1> SUFFICES ASSUME config.CANTIDAD_ENTRADAS_TLB <= 1, NEW e \in Range(tlb')
               PROVE  /\ e.pagina \in Presentes'
                      /\ e.marco = Pagina(e.pagina)'.marco
                      /\ Guardando' => e.pagina # operacion'.victima
    BY <1>c DEF TlbExacta, Pagina
  <1>t. /\ tlb \in Seq(DeTlb) /\ Len(tlb) <= config.CANTIDAD_ENTRADAS_TLB
        /\ config \in Configuraciones
        /\ config.CANTIDAD_ENTRADAS_TLB \in Nat /\ Len(tlb) \in Nat
    BY ConfigBien, LenProperties DEF IInvTipos, Tipos
  <1>e. ASSUME e \in Range(tlb)
        PROVE  /\ e.pagina \in Presentes /\ e.pagina \in Existen
               /\ e.marco = Pagina(e.pagina).marco
               /\ Guardando => e.pagina # operacion.victima
    BY <1>e, PresentesExisten DEF TlbExacta
  <1>1. CASE Espera \/ Sigue
    <2>1. /\ e \in Range(tlb) /\ Presentes' = Presentes
          /\ Pagina(e.pagina)' = Pagina(e.pagina)
      BY <1>1 DEF Espera, Sigue, Presentes, Pagina, tablas
    <2>2. Guardando' => Guardando /\ operacion' = operacion
      BY <1>1 DEF Espera, Sigue, Reemplazando, Guardando, EnCurso
    <2> QED
      BY <1>e, <2>1, <2>2
  <1>2. CASE Accede
    <2>1. PICK t \in Seq(DeTlb), m \in Marcos :
            /\ tlb' = AgregaTlb(t, Actual, m)
            /\ Len(t) <= config.CANTIDAD_ENTRADAS_TLB
            /\ \/ m = Pagina(Actual).marco
               \/ \E d \in Range(tlb) : d.pagina = Actual /\ d.marco = m
      BY <1>2, AccedeTlb
    <2>2. PICK p \in Existen : p = Actual
      BY <1>2, AccedeVista
    <2>3. e = Entrada(p, m)
      BY <1>t, <2>1, <2>2, AgregaTlbBien DEF Existen
    <2>4. e.pagina = p /\ e.marco = m
      BY <2>3 DEF Entrada
    <2>5. MismasPaginas /\ ~Reemplazando'
      BY <1>2, AccedeVista, AvanzaSigue DEF Accede
    <2>6. p \in Presentes /\ m = Pagina(p).marco
      BY <1>2, <2>1, <2>2, AccedeAPresente DEF TlbExacta
    <2> QED
      BY <2>4, <2>5, <2>6 DEF MismasPaginas, Reemplazando
  <1>3. ASSUME NEW v \in Existen, NEW lugar \in Nat, Manda(v, lugar)
        PROVE  /\ e.pagina \in Presentes'
               /\ e.marco = Pagina(e.pagina)'.marco
               /\ Guardando' => e.pagina # operacion'.victima
    <2>1. tlb' = EliminaDeTlb(v) /\ MismasPaginas
      BY <1>3 DEF Manda, Envia
    <2>2. e \in Range(tlb) /\ e.pagina # v
      <3>1. Len(tlb) <= 1
        BY <1>t
      <3> QED
        BY <1>t, <2>1, <3>1, EliminaDeTlbBien
    <2>3. operacion'.victima = v
      <3>1. operacion \in Operaciones
        BY <1>3, TocaBien DEF Manda
      <3> QED
        BY <1>3, <3>1 DEF Manda, Envia, Operaciones
    <2> QED
      BY <1>e, <2>1, <2>2, <2>3 DEF MismasPaginas
  <1>4. ASSUME NEW v \in Existen, NEW lugar \in Nat, Sale(v, lugar)
        PROVE  /\ e.pagina \in Presentes'
               /\ e.marco = Pagina(e.pagina)'.marco
               /\ Guardando' => e.pagina # operacion'.victima
    <2>1. /\ tlb' = tlb /\ Guardando /\ v = operacion.victima
          /\ Presentes' = Presentes \ {v} /\ ConSuMarco'
          /\ \A x \in Existen : Pagina(x)'.marco = Pagina(x).marco
      BY <1>4 DEF Sale, Deja
    <2>2. e \in Range(tlb)
      BY <2>1
    <2>3. ~Guardando'
      BY <2>1 DEF Guardando, ConSuMarco
    <2> QED
      BY <1>e, <2>1, <2>2, <2>3
  <1>5. ASSUME NEW p \in Usadas \ Existen, NEW m \in Marcos,
               NEW libre \in BOOLEAN, Crea(p, m, libre)
        PROVE  /\ e.pagina \in Presentes'
               /\ e.marco = Pagina(e.pagina)'.marco
               /\ Guardando' => e.pagina # operacion'.victima
    <2>1. /\ tlb' = AgregaTlb(tlb, p, m) /\ Presentes' = Presentes \cup {p}
          /\ Pagina(p)'.marco = m /\ ~Guardando'
      BY <1>5 DEF Crea, Reemplazando
    <2>2. e = Entrada(p, m)
      BY <1>t, <2>1, AgregaTlbBien
    <2> QED
      BY <2>1, <2>2 DEF Entrada
  <1>6. ASSUME NEW p \in Existen \ Presentes, NEW m \in Marcos,
               Entra(p, m) \/ PidePagina(p, m) \/ Vuelve(p)
        PROVE  /\ e.pagina \in Presentes'
               /\ e.marco = Pagina(e.pagina)'.marco
               /\ Guardando' => e.pagina # operacion'.victima
    <2>1. /\ tlb' = tlb /\ Presentes \subseteq Presentes'
          /\ \A x \in Existen : x # p => Pagina(x)'.marco = Pagina(x).marco
      BY <1>6 DEF Entra, PidePagina, Vuelve
    <2>2. e \in Range(tlb)
      BY <2>1
    <2>3. Guardando' => Guardando /\ operacion' = operacion
      BY <1>6 DEF Entra, PidePagina, Vuelve, Reemplazando, Guardando, Trayendo,
                  EnCurso
    <2> QED
      BY <1>e, <2>1, <2>2, <2>3
  <1>7. 0 \in Marcos
    BY <1>t, ConfigBien DEF Marcos
  <1> QED
    BY <1>1, <1>2, <1>3, <1>4, <1>5, <1>6, <1>7 DEF Paso

\* With one entry at most the TLB is right of every page, through references,
\* replacements and the signal that cleans it.
THEOREM TlbFielSiempre == Spec => []TlbFiel
  <1>1. Init => TlbExacta
    BY DEF Init, TlbExacta, Range
  <1>2. IInvTipos /\ TlbExacta /\ [Next]_vars => TlbExacta'
    BY PasoBien, TlbPaso
  <1>3. TlbExacta => TlbFiel
    BY DEF TlbExacta, TlbFiel, Range
  <1> QED
    BY <1>1, <1>2, <1>3, TiposInductivos, PTL DEF Spec
-----------------------------------------------------------------------------
(* The lists of LRU *)

EnUso == IF Fija THEN Procesos ELSE {Todos}

\* With fixed assignment each process has its list, so actualizarLRU never
\* takes out a page of another.
ListasPropias ==
  Fija => /\ cruces = 0
          /\ \A l \in Procesos : \A q \in Range(lista_reemplazo[l]) : q[1] = l

\* The pages in memory, once each.
ListaLRU ==
  ~Clock /\ cruces = 0 =>
    \A l \in EnUso :
      /\ Unica(lista_reemplazo[l])
      /\ Range(lista_reemplazo[l]) = {q \in Presentes : Fija => q[1] = l}

LEMMA ConfigFija ==
  ASSUME Paso
  PROVE  /\ config' = config /\ Fija' = Fija /\ Clock' = Clock
         /\ EnUso' = EnUso /\ Marcos' = Marcos
  <1>1. config' = config
    BY DEF Paso, Espera, Sigue, Accede, Manda, Sale, Crea, Entra, PidePagina,
           Vuelve, Deja
  <1> QED
    BY <1>1 DEF Fija, Clock, EnUso, Marcos

LEMMA ListaAgrega ==
  ASSUME IInvTipos, tabla_paginas \in Procesos, NEW p \in Usadas, NEW libre,
         NEW l \in Procesos \cup {Todos}
  PROVE  /\ lista_reemplazo[l] \in Seq(Usadas)
         /\ l = Lista /\ (libre \/ ~Clock) =>
              /\ AgregaAsignacion(p, libre)[l]
                   = Append(lista_reemplazo[l], p)
              /\ Range(AgregaAsignacion(p, libre)[l])
                   = Range(lista_reemplazo[l]) \cup {p}
              /\ Unica(lista_reemplazo[l]) /\ p \notin Range(lista_reemplazo[l])
                   => Unica(AgregaAsignacion(p, libre)[l])
         /\ ~(l = Lista /\ (libre \/ ~Clock)) =>
              AgregaAsignacion(p, libre)[l] = lista_reemplazo[l]
  <1>1. /\ lista_reemplazo \in [Procesos \cup {Todos} -> Seq(Usadas)]
        /\ Lista \in Procesos \cup {Todos}
    BY DEF IInvTipos, Tipos, Lista
  <1>2. lista_reemplazo[l] \in Seq(Usadas)
    BY <1>1
  <1>3. AgregaAsignacion(p, libre)[l] =
          IF l = Lista /\ (libre \/ ~Clock)
          THEN Append(lista_reemplazo[l], p) ELSE lista_reemplazo[l]
    BY <1>1 DEF AgregaAsignacion
  <1> QED
    BY <1>2, <1>3, RangoAlFinal

LEMMA ListasPropiasPaso ==
  ASSUME IInvTipos, ListasPropias, Paso
  PROVE  ListasPropias'
  <1> SUFFICES ASSUME Fija
               PROVE  /\ cruces' = 0
                      /\ \A l \in Procesos :
                           \A q \in Range(lista_reemplazo'[l]) : q[1] = l
    BY ConfigFija DEF ListasPropias
  <1>1. /\ cruces = 0
        /\ \A l \in Procesos : \A q \in Range(lista_reemplazo[l]) : q[1] = l
    BY DEF ListasPropias
  <1>t. lista_reemplazo \in [Procesos \cup {Todos} -> Seq(Usadas)]
    BY DEF IInvTipos, Tipos
  <1>2. CASE UNCHANGED <<lista_reemplazo, cruces>>
    BY <1>1, <1>2
  <1>3. CASE Accede /\ ~Clock
    <2>1. /\ Lista = tabla_paginas /\ tabla_paginas \in Procesos
          /\ Actual \in Usadas /\ Actual[1] = tabla_paginas
      BY <1>3, AccedeVista, TocaBien DEF Lista, Existen
    <2>2. PICK p \in Usadas, s \in Seq(Usadas) :
            p = Actual /\ s = lista_reemplazo[Lista]
      BY <1>t, <2>1
    <2>3. /\ lista_reemplazo' =
               [lista_reemplazo EXCEPT ![Lista] = ActualizaLRU(s, p)]
          /\ cruces' = cruces + IF Cruza(s, p) THEN 1 ELSE 0
      BY <1>3, <2>2 DEF Accede
    <2>4. \A q \in Range(s) : q \in Usadas /\ q[1] = p[1]
      BY <1>1, <2>1, <2>2, SeqDef DEF Range
    <2>5. ~Cruza(s, p)
      <3>1. SUFFICES ASSUME DeSuNumero(s, p) # {}
                     PROVE  s[Primero(DeSuNumero(s, p))] = p
        BY DEF Cruza
      <3>2. DeSuNumero(s, p) \in SUBSET (1..Len(s)) /\ Len(s) \in Nat
        BY LenProperties DEF DeSuNumero
      <3>3. Primero(DeSuNumero(s, p)) \in DeSuNumero(s, p)
        BY <3>1, <3>2, PrimeroEsMinimo
      <3>4. PICK i \in DOMAIN s :
              i = Primero(DeSuNumero(s, p)) /\ s[i][2] = p[2]
        BY <3>3 DEF DeSuNumero
      <3>5. s[i] \in Usadas /\ s[i][1] = p[1]
        BY <2>4 DEF Range
      <3> QED
        BY <3>4, <3>5, UsadasBien
    <2>6. Range(ActualizaLRU(s, p)) \subseteq Range(s) \cup {p}
      BY ActualizaLRUBien
    <2> QED
      BY <1>1, <1>t, <2>1, <2>2, <2>3, <2>4, <2>5, <2>6
  <1>4. ASSUME NEW p \in Usadas, NEW libre,
               lista_reemplazo' = AgregaAsignacion(p, libre),
               p[1] = tabla_paginas, tabla_paginas \in Procesos,
               cruces' = cruces
        PROVE  /\ cruces' = 0
               /\ \A l \in Procesos :
                    \A q \in Range(lista_reemplazo'[l]) : q[1] = l
    <2>1. Lista = tabla_paginas
      BY DEF Lista
    <2>2. SUFFICES ASSUME NEW l \in Procesos,
                          NEW q \in Range(lista_reemplazo'[l])
                   PROVE  q[1] = l
      BY <1>1, <1>4
    <2>3. q \in Range(lista_reemplazo[l]) \/ (l = tabla_paginas /\ q = p)
      BY <1>4, <2>1, ListaAgrega
    <2> QED
      BY <1>1, <1>4, <2>3
  <1>5. ASSUME NEW v \in Existen, NEW lugar \in Nat, Sale(v, lugar), ~Clock
        PROVE  /\ cruces' = 0
               /\ \A l \in Procesos :
                    \A q \in Range(lista_reemplazo'[l]) : q[1] = l
    <2>1. /\ Lista = tabla_paginas /\ tabla_paginas \in Procesos
          /\ lista_reemplazo[Lista] # <<>> /\ cruces' = cruces
          /\ lista_reemplazo' = [lista_reemplazo EXCEPT ![Lista] = Tail(@)]
      BY <1>5 DEF Sale, VictimaDe, Deja, Lista
    <2>2. PICK s \in Seq(Usadas) : s = lista_reemplazo[Lista]
      BY <1>t, <2>1
    <2>3. Range(Tail(s)) \subseteq Range(s)
      BY <2>1, <2>2, RangoSinElPrimero
    <2> QED
      BY <1>1, <1>t, <2>1, <2>2, <2>3
  <1>6. Paso => \/ UNCHANGED <<lista_reemplazo, cruces>> \/ (Accede /\ ~Clock)
                \/ \E v \in Existen, lugar \in Nat : Sale(v, lugar) /\ ~Clock
                \/ \E p \in Usadas, libre \in BOOLEAN :
                     /\ lista_reemplazo' = AgregaAsignacion(p, libre)
                     /\ p[1] = tabla_paginas /\ tabla_paginas \in Procesos
                     /\ cruces' = cruces
    BY ZenonT(40)
       DEF Paso, Espera, Sigue, Accede, Manda, Sale, Crea, Entra, PidePagina,
           Vuelve, Deja, reemplazo, Existen
  <1> QED
    BY <1>2, <1>3, <1>4, <1>5, <1>6

LEMMA ListaLRUAgrega ==
  ASSUME IInvTipos, ListaLRU, ~Clock, cruces = 0, tabla_paginas \in Procesos,
         NEW p \in Usadas \ Presentes, p[1] = tabla_paginas, NEW libre,
         NEW l \in EnUso
  PROVE  /\ Unica(AgregaAsignacion(p, libre)[l])
         /\ Range(AgregaAsignacion(p, libre)[l])
              = {q \in Presentes \cup {p} : Fija => q[1] = l}
  <1>1. /\ l \in Procesos \cup {Todos} /\ (l = Lista <=> (Fija => p[1] = l))
        /\ Unica(lista_reemplazo[l])
        /\ Range(lista_reemplazo[l]) = {q \in Presentes : Fija => q[1] = l}
    BY DEF EnUso, Lista, ListaLRU
  <1>2. p \notin Range(lista_reemplazo[l]) /\ p \in Usadas
    BY <1>1
  <1>3. l = Lista => /\ Range(AgregaAsignacion(p, libre)[l]) =
                          Range(lista_reemplazo[l]) \cup {p}
                     /\ Unica(AgregaAsignacion(p, libre)[l])
    BY <1>1, <1>2, ListaAgrega
  <1>4. l # Lista =>
          AgregaAsignacion(p, libre)[l] = lista_reemplazo[l]
    BY <1>1, <1>2, ListaAgrega
  <1> QED
    BY <1>1, <1>3, <1>4

LEMMA ListaLRUPaso ==
  ASSUME IInvTipos, ListasPropias, ListaLRU, Paso
  PROVE  ListaLRU'
  <1> SUFFICES ASSUME ~Clock, cruces' = 0, NEW l \in EnUso
               PROVE  /\ Unica(lista_reemplazo'[l])
                      /\ Range(lista_reemplazo'[l])
                           = {q \in Presentes' : Fija => q[1] = l}
    BY ConfigFija DEF ListaLRU
  <1>t. /\ lista_reemplazo \in [Procesos \cup {Todos} -> Seq(Usadas)]
        /\ cruces \in Nat /\ l \in Procesos \cup {Todos}
    BY DEF IInvTipos, Tipos, EnUso
  <1>l. ASSUME cruces = 0
        PROVE  /\ Unica(lista_reemplazo[l])
               /\ Range(lista_reemplazo[l])
                    = {q \in Presentes : Fija => q[1] = l}
    BY <1>l DEF ListaLRU
  <1>1. CASE /\ UNCHANGED <<lista_reemplazo, cruces>>
             /\ Presentes' = Presentes
    BY <1>1, <1>l
  <1>2. CASE Accede
    <2>1. /\ Lista \in EnUso /\ tabla_paginas \in Procesos
          /\ Actual \in Usadas
          /\ Presentes' = Presentes
      BY <1>2, AccedeVista, TocaBien
         DEF Lista, EnUso, Existen, MismasPaginas
    <2>2. PICK p \in Usadas, s \in Seq(Usadas) :
            p = Actual /\ s = lista_reemplazo[Lista]
      BY <1>t, <2>1 DEF EnUso
    <2>3. /\ lista_reemplazo' =
               [lista_reemplazo EXCEPT ![Lista] = ActualizaLRU(s, p)]
          /\ cruces' = cruces + IF Cruza(s, p) THEN 1 ELSE 0
      BY <1>2, <2>2 DEF Accede
    <2>4. cruces = 0 /\ ~Cruza(s, p)
      BY <1>t, <2>3
    <2>5. /\ Unica(s)
          /\ Range(s) = {q \in Presentes : Fija => q[1] = Lista}
      BY <2>1, <2>2, <2>4 DEF ListaLRU
    <2>6. Unica(ActualizaLRU(s, p)) /\ Range(ActualizaLRU(s, p)) = Range(s)
      <3>1. CASE ActualizaLRU(s, p) = s
        BY <2>5, <3>1
      <3>2. ASSUME NEW i \in DOMAIN s, s[i] = p,
                   ActualizaLRU(s, p) = Append(RemoveAt(s, i), p)
            PROVE  /\ Unica(ActualizaLRU(s, p))
                   /\ Range(ActualizaLRU(s, p)) = Range(s)
        <4>1. PICK r \in Seq(Usadas) :
                r = RemoveAt(s, i) /\ Unica(r) /\ Range(r) = Range(s) \ {p}
          BY <2>5, <3>2, RangoSinUno
        <4>2. p \in Range(s)
          BY <3>2 DEF Range
        <4>3. p \notin Range(r)
          BY <4>1
        <4>4. Unica(Append(r, p)) /\ Range(Append(r, p)) = Range(r) \cup {p}
          BY <4>1, <4>3, RangoAlFinal
        <4> QED
          BY <3>2, <4>1, <4>2, <4>4
      <3> QED
        BY <2>4, <3>1, <3>2, ActualizaLRUBien
    <2>7. CASE l = Lista
      BY <1>t, <2>1, <2>3, <2>5, <2>6, <2>7
    <2>8. CASE l # Lista
      BY <1>t, <1>l, <2>1, <2>3, <2>4, <2>8
    <2> QED
      BY <2>7, <2>8
  <1>3. ASSUME NEW p \in Usadas \ Presentes, NEW libre,
               lista_reemplazo' = AgregaAsignacion(p, libre),
               p[1] = tabla_paginas, tabla_paginas \in Procesos,
               cruces' = cruces, Presentes' = Presentes \cup {p}
        PROVE  /\ Unica(lista_reemplazo'[l])
               /\ Range(lista_reemplazo'[l])
                    = {q \in Presentes' : Fija => q[1] = l}
    BY <1>3, ListaLRUAgrega
  <1>4. ASSUME NEW v \in Existen, NEW lugar \in Nat, Sale(v, lugar)
        PROVE  /\ Unica(lista_reemplazo'[l])
               /\ Range(lista_reemplazo'[l])
                    = {q \in Presentes' : Fija => q[1] = l}
    <2>1. /\ tabla_paginas \in Procesos /\ Lista \in EnUso
          /\ lista_reemplazo[Lista] # <<>> /\ cruces' = cruces
          /\ v = Head(lista_reemplazo[Lista])
          /\ lista_reemplazo' = [lista_reemplazo EXCEPT ![Lista] = Tail(@)]
          /\ Presentes' = Presentes \ {v}
      BY <1>4 DEF Sale, VictimaDe, Deja, Lista, EnUso
    <2>2. PICK s \in Seq(Usadas) : s = lista_reemplazo[Lista]
      BY <1>t, <2>1 DEF EnUso
    <2>3. /\ Unica(s)
          /\ Range(s) = {q \in Presentes : Fija => q[1] = Lista}
      BY <2>1, <2>2 DEF ListaLRU
    <2>4. /\ Unica(Tail(s)) /\ Range(Tail(s)) = Range(s) \ {v}
          /\ v \in Range(s)
      BY <2>1, <2>2, <2>3, RangoSinElPrimero
    <2>5. CASE l = Lista
      BY <1>t, <2>1, <2>2, <2>3, <2>4, <2>5
    <2>6. CASE l # Lista
      <3>1. ~(Fija => v[1] = l)
        BY <2>1, <2>3, <2>4, <2>6 DEF EnUso
      <3> QED
        BY <1>t, <1>l, <2>1, <2>6, <3>1
    <2> QED
      BY <2>5, <2>6
  <1>5. Paso => \/ /\ UNCHANGED <<lista_reemplazo, cruces>>
                   /\ Presentes' = Presentes
                \/ Accede
                \/ \E v \in Existen, lugar \in Nat : Sale(v, lugar)
                \/ \E p \in Usadas \ Presentes, libre \in BOOLEAN :
                     /\ lista_reemplazo' = AgregaAsignacion(p, libre)
                     /\ p[1] = tabla_paginas /\ tabla_paginas \in Procesos
                     /\ cruces' = cruces /\ Presentes' = Presentes \cup {p}
    <2>1. Espera \/ Sigue => /\ UNCHANGED <<lista_reemplazo, cruces>>
                             /\ Presentes' = Presentes
      BY DEF Espera, Sigue, tablas, reemplazo, Presentes, Pagina
    <2>2. Existen \subseteq Usadas /\ Presentes \subseteq Existen
      BY PresentesExisten DEF Existen
    <2> QED
      BY <2>1, <2>2 DEF Paso, Manda, Crea, Entra, PidePagina, Vuelve,
         reemplazo, MismasPaginas
  <1> QED
    BY <1>1, <1>2, <1>3, <1>4, <1>5

LEMMA ListasInductivas == Spec => [](IInvTipos /\ ListasPropias /\ ListaLRU)
  <1>1. Init => ListasPropias /\ ListaLRU
    <2> SUFFICES ASSUME Init PROVE ListasPropias /\ ListaLRU
      OBVIOUS
    <2>1. /\ cruces = 0 /\ Presentes = {}
          /\ lista_reemplazo = [l \in Procesos \cup {Todos} |-> <<>>]
      <3>1. \A p \in Usadas : ~(p[2] <= Len(paginas[p[1]]))
        BY UsadasBien DEF Init
      <3> QED
        BY <3>1 DEF Init, Presentes
    <2> QED
      BY <2>1 DEF ListasPropias, ListaLRU, EnUso, Unica, Range
  <1>2. IInvTipos /\ ListasPropias /\ ListaLRU /\ [Next]_vars
          => ListasPropias' /\ ListaLRU'
    BY PasoBien, ListasPropiasPaso, ListaLRUPaso
  <1> QED
    BY <1>1, <1>2, TiposInductivos, PTL DEF Spec
-----------------------------------------------------------------------------
(* The order of the lists of LRU *)

\* The history holds the pages in memory, and orders each list: of its pages,
\* one that comes before another was referenced before.
Referencias ==
  ~Clock /\ cruces = 0 =>
    /\ Unica(referencias) /\ Presentes \subseteq Range(referencias)
    /\ \A l \in EnUso : \A x, y \in Usadas :
         Antes(lista_reemplazo[l], x, y) => Antes(referencias, x, y)

LEMMA AntesEnRango ==
  ASSUME NEW s, NEW x, NEW y, Antes(s, x, y)
  PROVE  x \in Range(s) /\ y \in Range(s)
  BY DEF Antes, Range

\* The history without a page keeps the order of the others.
LEMMA SinReferenciaOrdena ==
  ASSUME referencias \in Seq(Usadas), NEW p, NEW x, NEW y,
         x # p, y # p, Antes(referencias, x, y)
  PROVE  Antes(SinReferencia(p), x, y)
  <1>1. PICK lugares \in SUBSET DOMAIN referencias :
          lugares = {i \in DOMAIN referencias : referencias[i] = p}
    OBVIOUS
  <1>2. SinReferencia(p) = SinPrimero(referencias, lugares)
    BY <1>1 DEF SinReferencia
  <1>3. CASE lugares = {}
    <2>1. SinReferencia(p) = referencias
      BY <1>2, <1>3, SinPrimeroBien
    <2> QED
      BY <2>1
  <1>4. CASE lugares # {}
    <2>1. PICK i \in DOMAIN referencias :
            /\ referencias[i] = p
            /\ SinPrimero(referencias, lugares) = RemoveAt(referencias, i)
      BY <1>1, <1>4, SinPrimeroBien
    <2>2. Antes(RemoveAt(referencias, i), x, y)
      BY <2>1, AntesSinUno
    <2> QED
      BY <1>2, <2>1, <2>2
  <1> QED
    BY <1>3, <1>4

\* After a reference to p everything else comes before it.
LEMMA UltimaOrdena ==
  ASSUME referencias \in Seq(Usadas), Unica(referencias),
         NEW p \in Usadas, NEW x, NEW y, x # p,
         IF y = p THEN x \in Range(referencias) ELSE Antes(referencias, x, y)
  PROVE  Antes(Ultima(p), x, y)
  <1>1. PICK r \in Seq(Usadas) :
          r = SinReferencia(p) /\ Range(r) = Range(referencias) \ {p}
    BY UltimaBien
  <1>2. Antes(Append(r, p), x, y) <=> Antes(r, x, y) \/ (y = p /\ x \in Range(r))
    BY <1>1, AntesAlFinal
  <1>3. y # p => Antes(r, x, y)
    BY <1>1, SinReferenciaOrdena
  <1> QED
    BY <1>1, <1>2, <1>3 DEF Ultima

\* A list with p at its end, whether it was in it before or not.
LEMMA OrdenTrasUltima ==
  ASSUME IInvTipos, ListaLRU, Referencias, ~Clock, cruces = 0,
         NEW l \in EnUso, NEW p \in Usadas, NEW s \in Seq(Usadas),
         NEW x, NEW y, Range(s) \subseteq Range(lista_reemplazo[l]) \ {p},
         \A u, v \in Usadas :
           Antes(s, u, v) => Antes(lista_reemplazo[l], u, v),
         Antes(Append(s, p), x, y)
  PROVE  Antes(Ultima(p), x, y)
  <1>1. /\ referencias \in Seq(Usadas) /\ Unica(referencias)
        /\ Presentes \subseteq Range(referencias)
        /\ Range(lista_reemplazo[l]) \subseteq Presentes
        /\ Presentes \subseteq Usadas
    BY DEF IInvTipos, Tipos, Referencias, ListaLRU, Presentes
  <1>2. Antes(s, x, y) \/ (y = p /\ x \in Range(s))
    BY AntesAlFinal
  <1>3. CASE y = p /\ x \in Range(s)
    BY <1>1, <1>3, UltimaOrdena
  <1>4. CASE Antes(s, x, y)
    <2>1. x \in Range(s) /\ y \in Range(s)
      BY <1>4, AntesEnRango
    <2>2. Antes(referencias, x, y) /\ x # p /\ y # p
      BY <1>1, <1>4, <2>1 DEF Referencias
    <2> QED
      BY <1>1, <2>2, UltimaOrdena
  <1> QED
    BY <1>2, <1>3, <1>4

LEMMA ReferenciasPaso ==
  ASSUME IInvTipos, ListasPropias, ListaLRU, Referencias, Paso
  PROVE  Referencias'
  <1> SUFFICES ASSUME ~Clock, cruces' = 0
               PROVE  /\ Unica(referencias')
                      /\ Presentes' \subseteq Range(referencias')
                      /\ \A l \in EnUso : \A x, y \in Usadas :
                           Antes(lista_reemplazo'[l], x, y)
                             => Antes(referencias', x, y)
    BY ConfigFija DEF Referencias
  <1>t. /\ lista_reemplazo \in [Procesos \cup {Todos} -> Seq(Usadas)]
        /\ cruces \in Nat /\ referencias \in Seq(Usadas)
        /\ EnUso \subseteq Procesos \cup {Todos}
    BY DEF IInvTipos, Tipos, EnUso
  <1>r. ASSUME cruces = 0
        PROVE  /\ Unica(referencias) /\ Presentes \subseteq Range(referencias)
               /\ \A l \in EnUso : \A x, y \in Usadas :
                    Antes(lista_reemplazo[l], x, y) => Antes(referencias, x, y)
               /\ \A l \in EnUso :
                    /\ Unica(lista_reemplazo[l])
                    /\ Range(lista_reemplazo[l])
                         = {q \in Presentes : Fija => q[1] = l}
    BY <1>r DEF Referencias, ListaLRU
  <1>1. CASE /\ UNCHANGED <<lista_reemplazo, cruces, referencias>>
             /\ Presentes' = Presentes
    BY <1>1, <1>r
  <1>2. CASE Accede
    <2>1. /\ Lista \in EnUso /\ tabla_paginas \in Procesos
          /\ Actual \in Usadas /\ Actual[1] = tabla_paginas
          /\ Presentes' = Presentes /\ referencias' = Ultima(Actual)
      BY <1>2, AccedeVista, TocaBien
         DEF Lista, EnUso, Existen, MismasPaginas, Accede
    <2>2. PICK p \in Usadas, s \in Seq(Usadas) :
            p = Actual /\ s = lista_reemplazo[Lista]
      BY <1>t, <2>1
    <2>3. /\ lista_reemplazo' =
               [lista_reemplazo EXCEPT ![Lista] = ActualizaLRU(s, p)]
          /\ cruces' = cruces + IF Cruza(s, p) THEN 1 ELSE 0
      BY <1>2, <2>2 DEF Accede
    <2>4. cruces = 0 /\ ~Cruza(s, p)
      BY <1>t, <2>3
    <2>5. Unica(Ultima(p)) /\ Presentes \subseteq Range(Ultima(p))
      BY <1>r, <1>t, <2>4, UltimaBien
    <2>6. ASSUME NEW x \in Usadas, NEW y \in Usadas,
                 Antes(ActualizaLRU(s, p), x, y)
          PROVE  Antes(Ultima(p), x, y)
      <3>1. CASE ActualizaLRU(s, p) = s /\ \A q \in Range(s) : q[2] # p[2]
        <4>1. Antes(s, x, y) /\ x # p /\ y # p
          BY <2>6, <3>1, AntesEnRango
        <4> QED
          BY <1>r, <1>t, <2>1, <2>2, <2>4, <4>1, UltimaOrdena
      <3>2. ASSUME NEW i \in DOMAIN s, s[i] = p,
                   ActualizaLRU(s, p) = Append(RemoveAt(s, i), p)
            PROVE  Antes(Ultima(p), x, y)
        <4>1. Unica(s)
          BY <1>r, <2>1, <2>2, <2>4
        <4>2. PICK r \in Seq(Usadas) :
                /\ r = RemoveAt(s, i) /\ Range(r) = Range(s) \ {p}
                /\ \A u, v \in Usadas : Antes(r, u, v) => Antes(s, u, v)
          BY <3>2, <4>1, RangoSinUno, AntesSinUno
        <4>3. Antes(Append(r, p), x, y)
          BY <2>6, <3>2, <4>2
        <4> QED
          BY <2>1, <2>2, <2>4, <4>2, <4>3, OrdenTrasUltima
      <3> QED
        BY <2>4, <3>1, <3>2, ActualizaLRUBien
    <2>7. ASSUME NEW l \in EnUso, NEW x \in Usadas, NEW y \in Usadas,
                 Antes(lista_reemplazo'[l], x, y)
          PROVE  Antes(Ultima(p), x, y)
      <3>1. CASE l = Lista
        <4>1. Antes(ActualizaLRU(s, p), x, y)
          BY <1>t, <2>1, <2>3, <2>7, <3>1
        <4> QED
          BY <2>6, <4>1
      <3>2. CASE l # Lista
        <4>1. Antes(lista_reemplazo[l], x, y)
          BY <1>t, <2>1, <2>3, <2>7, <3>2
        <4>2. x \in Range(lista_reemplazo[l]) /\ y \in Range(lista_reemplazo[l])
          BY <4>1, AntesEnRango
        <4>3. x # p /\ y # p
          BY <1>r, <2>1, <2>2, <2>4, <3>2, <4>2 DEF EnUso, Lista
        <4> QED
          BY <1>r, <1>t, <2>4, <4>1, <4>3, UltimaOrdena
      <3> QED
        BY <3>1, <3>2
    <2> QED
      BY <2>1, <2>2, <2>5, <2>7
  <1>3. ASSUME NEW p \in Usadas \ Presentes, NEW libre,
               lista_reemplazo' = AgregaAsignacion(p, libre),
               p[1] = tabla_paginas, tabla_paginas \in Procesos,
               cruces' = cruces, Presentes' = Presentes \cup {p},
               referencias' = Ultima(p)
        PROVE  /\ Unica(referencias')
               /\ Presentes' \subseteq Range(referencias')
               /\ \A l \in EnUso : \A x, y \in Usadas :
                    Antes(lista_reemplazo'[l], x, y)
                      => Antes(referencias', x, y)
    <2>1. cruces = 0 /\ p \in Usadas
      BY <1>3
    <2>2. Unica(Ultima(p)) /\ Presentes \cup {p} \subseteq Range(Ultima(p))
      BY <1>r, <1>t, <2>1, UltimaBien
    <2>3. ASSUME NEW l \in EnUso, NEW x \in Usadas, NEW y \in Usadas,
                 Antes(lista_reemplazo'[l], x, y)
          PROVE  Antes(Ultima(p), x, y)
      <3>1. PICK s \in Seq(Usadas) : s = lista_reemplazo[l]
        BY <1>t
      <3>2. Range(s) \subseteq Presentes /\ p \notin Range(s)
        BY <1>3, <1>r, <2>1, <3>1
      <3>3. CASE l = Lista
        <4>1. Antes(Append(s, p), x, y)
          BY <1>3, <1>t, <2>1, <2>3, <3>1, <3>3, ListaAgrega
        <4> QED
          BY <2>1, <3>1, <3>2, <4>1, OrdenTrasUltima
      <3>4. CASE l # Lista
        <4>1. Antes(s, x, y)
          BY <1>3, <1>t, <2>1, <2>3, <3>1, <3>4, ListaAgrega
        <4>2. x # p /\ y # p /\ Antes(referencias, x, y)
          BY <1>r, <2>1, <3>1, <3>2, <4>1, AntesEnRango
        <4> QED
          BY <1>r, <1>t, <2>1, <4>2, UltimaOrdena
      <3> QED
        BY <3>3, <3>4
    <2> QED
      BY <1>3, <2>2, <2>3
  <1>4. ASSUME NEW v \in Existen, NEW lugar \in Nat, Sale(v, lugar)
        PROVE  /\ Unica(referencias')
               /\ Presentes' \subseteq Range(referencias')
               /\ \A l \in EnUso : \A x, y \in Usadas :
                    Antes(lista_reemplazo'[l], x, y)
                      => Antes(referencias', x, y)
    <2>1. /\ tabla_paginas \in Procesos /\ Lista \in EnUso
          /\ lista_reemplazo[Lista] # <<>> /\ cruces = 0
          /\ lista_reemplazo' = [lista_reemplazo EXCEPT ![Lista] = Tail(@)]
          /\ Presentes' = Presentes \ {v}
          /\ referencias' = SinReferencia(v)
      BY <1>4 DEF Sale, VictimaDe, Deja, Lista, EnUso
    <2>2. v \in Usadas
      BY DEF Existen
    <2>3. /\ Unica(SinReferencia(v))
          /\ Presentes \ {v} \subseteq Range(SinReferencia(v))
      BY <1>r, <1>t, <2>1, <2>2, UltimaBien
    <2>4. ListaLRU'
      BY <1>4, ListaLRUPaso
    <2>5. ASSUME NEW l \in EnUso, NEW x \in Usadas, NEW y \in Usadas,
                 Antes(lista_reemplazo'[l], x, y)
          PROVE  Antes(SinReferencia(v), x, y)
      <3>1. x # v /\ y # v
        <4>1. x \in Range(lista_reemplazo'[l]) /\ y \in Range(lista_reemplazo'[l])
          BY <2>5, AntesEnRango
        <4>2. Range(lista_reemplazo'[l]) \subseteq Presentes'
          BY <2>4, ConfigFija DEF ListaLRU
        <4> QED
          BY <2>1, <4>1, <4>2
      <3>2. PICK s \in Seq(Usadas) : s = lista_reemplazo[l]
        BY <1>t
      <3>3. CASE l = Lista
        <4>1. Antes(Tail(s), x, y) /\ s # <<>>
          BY <1>t, <2>1, <2>5, <3>2, <3>3
        <4> QED
          BY <3>2, <4>1, AntesSinElPrimero, <1>r, <1>t, <2>1, <3>1,
             SinReferenciaOrdena
      <3>4. CASE l # Lista
        <4>1. Antes(s, x, y)
          BY <1>t, <2>1, <2>5, <3>2, <3>4
        <4> QED
          BY <1>r, <1>t, <2>1, <3>1, <3>2, <4>1, SinReferenciaOrdena
      <3> QED
        BY <3>3, <3>4
    <2> QED
      BY <2>1, <2>3, <2>5
  <1>5. Paso => \/ /\ UNCHANGED <<lista_reemplazo, cruces, referencias>>
                   /\ Presentes' = Presentes
                \/ Accede
                \/ \E v \in Existen, lugar \in Nat : Sale(v, lugar)
                \/ \E p \in Usadas \ Presentes, libre \in BOOLEAN :
                     /\ lista_reemplazo' = AgregaAsignacion(p, libre)
                     /\ p[1] = tabla_paginas /\ tabla_paginas \in Procesos
                     /\ cruces' = cruces /\ Presentes' = Presentes \cup {p}
                     /\ referencias' = Ultima(p)
    <2>1. Espera \/ Sigue =>
            /\ UNCHANGED <<lista_reemplazo, cruces, referencias>>
            /\ Presentes' = Presentes
      BY DEF Espera, Sigue, tablas, reemplazo, Presentes, Pagina
    <2>2. Existen \subseteq Usadas /\ Presentes \subseteq Existen
      BY PresentesExisten DEF Existen
    <2> QED
      BY <2>1, <2>2 DEF Paso, Manda, Crea, Entra, PidePagina, Vuelve,
         reemplazo, MismasPaginas
  <1> QED
    BY <1>1, <1>2, <1>3, <1>4, <1>5

LEMMA OrdenInductivo ==
  Spec => [](IInvTipos /\ ListasPropias /\ ListaLRU /\ Referencias)
  <1>1. Init => Referencias
    <2> SUFFICES ASSUME Init PROVE Referencias
      OBVIOUS
    <2>1. /\ Presentes = {} /\ referencias = <<>>
          /\ lista_reemplazo = [l \in Procesos \cup {Todos} |-> <<>>]
      <3>1. \A p \in Usadas : ~(p[2] <= Len(paginas[p[1]]))
        BY UsadasBien DEF Init
      <3> QED
        BY <3>1 DEF Init, Presentes
    <2> QED
      BY <2>1 DEF Referencias, EnUso, Unica, Range, Antes
  <1>2. IInvTipos /\ ListasPropias /\ ListaLRU /\ Referencias /\ [Next]_vars
          => Referencias'
    BY PasoBien, ReferenciasPaso
  <1> QED
    BY <1>1, <1>2, ListasInductivas, PTL DEF Spec

\* As long as actualizarLRU has not taken out the page of another process
\* (cruces = 0), the victim of LRU is the page that goes longest without a
\* reference, for any processes and pages, with both assignments.
THEOREM OrdenSiempre == Spec => []OrdenDeReferencia
  <1>1. IInvTipos /\ ListaLRU /\ Referencias => OrdenDeReferencia
    <2> SUFFICES ASSUME IInvTipos, ListaLRU, Referencias, ~Clock, cruces = 0,
                        NEW l \in EnUso
                 PROVE  LET s == lista_reemplazo[l] IN
                        /\ IsInjective(s)
                        /\ Range(s) = {q \in Presentes : Fija => q[1] = l}
                        /\ \A i, j \in DOMAIN s : i < j =>
                             \E a, b \in DOMAIN referencias :
                               /\ a < b
                               /\ referencias[a] = s[i] /\ referencias[b] = s[j]
      BY DEF OrdenDeReferencia, EnUso
    <2>1. PICK s \in Seq(Usadas) : s = lista_reemplazo[l]
      BY DEF IInvTipos, Tipos, EnUso
    <2>2. Unica(s) /\ Range(s) = {q \in Presentes : Fija => q[1] = l}
      BY <2>1 DEF ListaLRU
    <2>3. ASSUME NEW i \in DOMAIN s, NEW j \in DOMAIN s, i < j
          PROVE  Antes(referencias, s[i], s[j])
      <3>1. Antes(s, s[i], s[j]) /\ s[i] \in Usadas /\ s[j] \in Usadas
        BY <2>3, ElementOfSeq, LenProperties DEF Antes
      <3> QED
        BY <2>1, <3>1 DEF Referencias
    <2> QED
      BY <2>1, <2>2, <2>3 DEF Antes, Unica, IsInjective
  <1> QED
    BY <1>1, OrdenInductivo, PTL
-----------------------------------------------------------------------------
(* The frames of a process, and what getMarco gives *)

\* Whoever has pages, or is being served, has its place among the tables.
Tablas ==
  /\ EnCurso \/ tabla_paginas # Nadie =>
       tabla_paginas \in Range(tabla_procesos)
  /\ \A x \in Existen : x[1] \in Range(tabla_procesos)

Base(p) == (Lugar(p) - 1) * config.MARCOS_POR_CARPINCHO

LEMMA LugarEnTabla ==
  ASSUME NEW t \in Seq(Procesos), NEW p \in Range(t)
  PROVE  /\ Primero({i \in DOMAIN t : t[i] = p}) \in DOMAIN t
         /\ t[Primero({i \in DOMAIN t : t[i] = p})] = p
  <1>1. PICK lugares \in SUBSET DOMAIN t :
          lugares = {i \in DOMAIN t : t[i] = p} /\ lugares # {}
    BY DEF Range
  <1>2. DOMAIN t = 1..Len(t) /\ Len(t) \in Nat
    BY LenProperties
  <1>3. Primero(lugares) \in lugares
    BY <1>1, <1>2, PrimeroEsMinimo
  <1> QED
    BY <1>1, <1>3

\* A process never changes its place.
LEMMA LugarQueda ==
  ASSUME IInvTipos, NEW p \in Range(tabla_procesos),
         \/ tabla_procesos' = tabla_procesos
         \/ \E pid \in Procesos : BuscaTabla(pid)
  PROVE  Lugar(p)' = Lugar(p)
  <1>1. tabla_procesos \in Seq(Procesos) /\ Unica(tabla_procesos)
    BY DEF IInvTipos, Tipos
  <1>2. CASE tabla_procesos' = tabla_procesos
    BY <1>2 DEF Lugar
  <1>3. ASSUME NEW pid \in Procesos, BuscaTabla(pid),
               tabla_procesos' # tabla_procesos
        PROVE  Lugar(p)' = Lugar(p)
    <2>1. PICK t \in Seq(Procesos), r \in Seq(Procesos) :
            /\ t = tabla_procesos /\ r = tabla_procesos' /\ Unica(r)
            /\ r = Append(t, pid) /\ p \in Range(t) /\ p \in Range(r)
      BY <1>1, <1>3, BuscaTablaBien DEF BuscaTabla
    <2>2. PICK i \in DOMAIN t : i = Lugar(p) /\ t[i] = p
      BY <2>1, LugarEnTabla DEF Lugar
    <2>3. PICK j \in DOMAIN r : j = Lugar(p)' /\ r[j] = p
      <3>1. Lugar(p)' = Primero({k \in DOMAIN r : r[k] = p})
        BY <2>1 DEF Lugar
      <3> QED
        BY <2>1, <3>1, LugarEnTabla
    <2>4. i \in DOMAIN r /\ r[i] = t[i]
      BY <2>1, AppendProperties, LenProperties
    <2> QED
      BY <2>1, <2>2, <2>3, <2>4 DEF Unica
  <1> QED
    BY <1>2, <1>3

LEMMA TablasPaso ==
  ASSUME IInvTipos, Tablas, Paso
  PROVE  /\ Tablas'
         /\ \A p \in Range(tabla_procesos) : Base(p)' = Base(p)
  <1>t. tabla_procesos \in Seq(Procesos) /\ Unica(tabla_procesos)
    BY DEF IInvTipos, Tipos
  <1>1. CASE Sigue
    <2>1. Existen' = Existen
      BY <1>1 DEF Sigue, Existen
    <2>2. CASE /\ UNCHANGED <<tabla_procesos, tabla_paginas>>
               /\ EnCurso \/ tabla_paginas # Nadie
      <3>1. \A p : Lugar(p)' = Lugar(p)
        BY <2>2 DEF Lugar
      <3> QED
        BY <1>1, <2>1, <2>2, <3>1 DEF Tablas, Sigue, Base
    <2>3. ASSUME NEW pid \in Procesos, BuscaTabla(pid)
          PROVE  /\ Tablas'
                 /\ \A p \in Range(tabla_procesos) : Base(p)' = Base(p)
      <3>1. /\ tabla_paginas' = pid
            /\ Range(tabla_procesos') = Range(tabla_procesos) \cup {pid}
        BY <1>t, <2>3, BuscaTablaBien DEF BuscaTabla
      <3>2. Tablas'
        BY <2>1, <3>1 DEF Tablas
      <3>3. \A p \in Range(tabla_procesos) : Lugar(p)' = Lugar(p)
        BY <2>3, LugarQueda
      <3> QED
        BY <1>1, <3>2, <3>3 DEF Sigue, Base
    <2> QED
      BY <1>1, <2>2, <2>3 DEF Sigue
  <1>2. CASE /\ UNCHANGED <<tabla_procesos, tabla_paginas>>
             /\ EnCurso' => EnCurso
             /\ \A x \in Existen' : x \in Existen \/ x[1] = tabla_paginas
             /\ Existen' # Existen => EnCurso
    <2>1. \A p : Lugar(p)' = Lugar(p)
      BY <1>2 DEF Lugar
    <2> QED
      BY <1>2, <2>1, ConfigFija DEF Tablas, Base
  <1>3. Paso => Sigue \/ (/\ UNCHANGED <<tabla_procesos, tabla_paginas>>
                          /\ EnCurso' => EnCurso
                          /\ \A x \in Existen' :
                               x \in Existen \/ x[1] = tabla_paginas
                          /\ Existen' # Existen => EnCurso)
    <2>1. Espera => /\ UNCHANGED <<tabla_procesos, tabla_paginas>>
                    /\ EnCurso' = EnCurso /\ Existen' = Existen
      BY DEF Espera, tablas, Existen, EnCurso
    <2>2. Accede => /\ UNCHANGED <<tabla_procesos, tabla_paginas>>
                    /\ EnCurso /\ Existen' = Existen
      BY AccedeVista DEF Accede, MismasPaginas
    <2> QED
      BY ZenonT(40), <2>1, <2>2
         DEF Paso, Manda, Sale, Crea, Entra, PidePagina, Vuelve,
         MismasPaginas, Deja
  <1> QED
    BY <1>1, <1>2, <1>3

LEMMA BaseNatural ==
  ASSUME IInvTipos, NEW p \in Range(tabla_procesos)
  PROVE  Base(p) \in Nat
  <1>1. PICK t \in Seq(Procesos) : t = tabla_procesos /\ p \in Range(t)
    BY DEF IInvTipos, Tipos
  <1>2. Lugar(p) \in 1..Len(t)
    BY <1>1, LugarEnTabla, LenProperties DEF Lugar
  <1>3. PICK n \in Nat, k \in Nat :
          n = Lugar(p) - 1 /\ k = config.MARCOS_POR_CARPINCHO
    BY SMTT(30), <1>1, <1>2, ConfigBien, LenProperties DEF IInvTipos, Tipos
  <1>4. n * k \in Nat
    OBVIOUS
  <1> QED
    BY <1>3, <1>4 DEF Base

\* getMarco finds no frame when none is free, or when the process has one more
\* than those it should; otherwise a free one, or the next of its own.
LEMMA GetMarcoBien ==
  ASSUME IInvTipos, Tablas, EnCurso
  PROVE  /\ ~Fija /\ libres = {} => GetMarco = -1
         /\ ~Fija /\ libres # {} => GetMarco \in libres /\ GetMarco # -1
         /\ Fija /\ paginas_en_memoria[tabla_paginas]
                       > config.MARCOS_POR_CARPINCHO => GetMarco = -1
         /\ Fija /\ paginas_en_memoria[tabla_paginas]
                       \in 0..config.MARCOS_POR_CARPINCHO =>
              /\ GetMarco # -1
              /\ GetMarco = Base(tabla_paginas)
                              + paginas_en_memoria[tabla_paginas]
  <1>t. /\ tabla_paginas \in Procesos /\ libres \subseteq Marcos
        /\ tabla_paginas \in Range(tabla_procesos)
        /\ paginas_en_memoria[tabla_paginas] \in Int
        /\ config.MARCOS_POR_CARPINCHO \in Nat /\ config.MARCOS \in Nat
        /\ Base(tabla_paginas) \in Nat
    BY TocaBien, BaseNatural, ConfigBien DEF IInvTipos, Tipos, Tablas
  <1>1. ASSUME ~Fija, libres # {}
        PROVE  GetMarco \in libres /\ GetMarco # -1
    <2>1. libres \subseteq 0..(config.MARCOS - 1) /\ libres \in SUBSET Int
      BY <1>t DEF Marcos
    <2>2. IsFiniteSet(libres)
      <3>1. config.MARCOS - 1 \in Int
        BY <1>t
      <3>2. IsFiniteSet(0..(config.MARCOS - 1))
        BY <3>1, FS_Interval
      <3> QED
        BY <2>1, <3>2, FS_Subset
    <2>3. \E i \in libres : \A j \in libres : i <= j
      BY <1>1, <2>1, <2>2, MinimoExiste
    <2>4. Primero(libres) \in libres
      BY <1>1, <2>3 DEF Primero
    <2>5. GetMarco = Primero(libres)
      BY <1>1 DEF GetMarco
    <2>6. PICK m \in 0..(config.MARCOS - 1) : m = Primero(libres)
      BY <2>1, <2>4
    <2> QED
      BY <1>t, <2>4, <2>5, <2>6
  <1>2. ~Fija /\ libres = {} => GetMarco = -1
    BY DEF GetMarco
  <1>3. MarcoPropio = Base(tabla_paginas) + paginas_en_memoria[tabla_paginas]
    BY DEF MarcoPropio, Base
  <1>4. Fija /\ paginas_en_memoria[tabla_paginas]
                  > config.MARCOS_POR_CARPINCHO => GetMarco = -1
    BY <1>t DEF GetMarco
  <1>5. ASSUME Fija, paginas_en_memoria[tabla_paginas]
                       \in 0..config.MARCOS_POR_CARPINCHO
        PROVE  GetMarco = MarcoPropio
    BY <1>5 DEF GetMarco
  <1>6. paginas_en_memoria[tabla_paginas] \in Nat =>
          Base(tabla_paginas) + paginas_en_memoria[tabla_paginas] # -1
    BY <1>t
  <1> QED
    BY <1>1, <1>2, <1>3, <1>4, <1>5, <1>6
-----------------------------------------------------------------------------
(* The conversation with swap *)

\* Who waits, and for what, according to what memoria does.
Conversacion ==
  /\ Guardando =>
       \/ /\ pedido = [op |-> "SWAPSAVE", pagina |-> operacion.victima]
          /\ respuesta = S!SinRespuesta
       \/ /\ pedido = S!SinPedido
          /\ respuesta.cod \in {"PAGINA_GUARDADA", "PAGINA_NO_GUARDADA"}
       \/ pedido = S!SinPedido /\ respuesta = S!SinRespuesta /\ caida
       \/ pedido = S!SinPedido /\ respuesta \in S!Terminado
  /\ Trayendo =>
       \/ /\ pedido = [op |-> "SWAPFREE", pagina |-> Actual]
          /\ respuesta = S!SinRespuesta
       \/ /\ pedido = S!SinPedido
          /\ \/ respuesta = [cod |-> "RECEPCION_PAGINA", pagina |-> Actual]
             \/ respuesta \in {S!Silencio, S!Perdido}
  /\ ConSuMarco => pedido = S!SinPedido /\ respuesta = S!SinRespuesta
  /\ ~Reemplazando =>
       /\ pedido = S!SinPedido
       /\ respuesta = S!SinRespuesta \/ respuesta \in S!Terminado

\* Once swap has ended nothing comes from it any more.
LEMMA PerdidoQueda ==
  ASSUME Conversacion, Paso, respuesta = S!Perdido
  PROVE  respuesta' = S!Perdido
  <1>1. pedido = S!SinPedido /\ respuesta.cod = "perdido"
    BY DEF Conversacion, S!SinPedido, S!SinRespuesta, S!Perdido, Reemplazando
  <1>2. ~S!Swap
    BY <1>1 DEF S!Swap, S!Guarda, S!Devuelve, S!SinPedido
  <1>3. CASE Espera \/ Sigue \/ Accede
    BY <1>1, <1>2, <1>3 DEF Espera, Sigue, Accede, swapVars
  <1>4. respuesta \in S!Terminado
    BY DEF S!Terminado
  <1>5. ASSUME NEW v, NEW lugar, Manda(v, lugar) \/ Sale(v, lugar)
        PROVE  respuesta' = S!Perdido
    BY <1>1, <1>4, <1>5 DEF Manda, Envia, Sale, swapVars
  <1>6. ASSUME NEW p, NEW m, NEW libre,
               Crea(p, m, libre) \/ Entra(p, m) \/ PidePagina(p, m) \/ Vuelve(p)
        PROVE  respuesta' = S!Perdido
    BY <1>1, <1>6 DEF Crea, Entra, PidePagina, Vuelve, swapVars, S!PidePagina
  <1> QED
    BY <1>3, <1>5, <1>6 DEF Paso

LEMMA ConversacionPaso ==
  ASSUME IInvTipos, Conversacion, Paso
  PROVE  Conversacion'
  <1>1. CASE Espera
    <2>1. /\ Guardando' = Guardando /\ Trayendo' = Trayendo
          /\ ConSuMarco' = ConSuMarco /\ Reemplazando' = Reemplazando
          /\ Actual' = Actual /\ operacion' = operacion /\ (caida => caida')
      BY <1>1 DEF Espera, Guardando, Trayendo, ConSuMarco, Reemplazando,
                  EnCurso, Actual, Toca, tablas
    <2>2. CASE UNCHANGED swapVars
      BY <2>1, <2>2 DEF Conversacion, swapVars
    <2>3. CASE S!Swap
      <3>1. pedido # S!SinPedido /\ pedido' = S!SinPedido
        BY <2>3 DEF S!Swap, S!Guarda, S!Devuelve, S!SinPedido
      <3>2. CASE Guardando
        <4>1. pedido.op = "SWAPSAVE"
          BY <3>1, <3>2 DEF Conversacion
        <4>2. \/ respuesta'.cod \in {"PAGINA_GUARDADA", "PAGINA_NO_GUARDADA"}
              \/ respuesta' \in S!Terminado'
          BY <2>3, <4>1 DEF S!Swap, S!Guarda, S!Devuelve, S!Terminado
        <4>3. ~Trayendo /\ ~ConSuMarco /\ Reemplazando
          BY <3>2 DEF Guardando, Trayendo, ConSuMarco, Reemplazando
        <4> QED
          BY <2>1, <3>1, <3>2, <4>2, <4>3 DEF Conversacion
      <3>3. CASE Trayendo
        <4>1. pedido.op = "SWAPFREE" /\ pedido.pagina = Actual
          BY <3>1, <3>3 DEF Conversacion
        <4>2. \/ respuesta' = [cod |-> "RECEPCION_PAGINA", pagina |-> Actual]
              \/ respuesta' \in {S!Silencio, S!Perdido}
          BY <2>3, <4>1 DEF S!Swap, S!Guarda, S!Devuelve
        <4>3. ~Guardando /\ ~ConSuMarco /\ Reemplazando
          BY <3>3 DEF Guardando, Trayendo, ConSuMarco, Reemplazando
        <4> QED
          BY <2>1, <3>1, <3>3, <4>2, <4>3 DEF Conversacion
      <3> QED
        BY <3>1, <3>2, <3>3 DEF Conversacion, Reemplazando
    <2>4. CASE Guardando /\ S!RecibeRespuesta /\ caida'
      <3>1. pedido = S!SinPedido
        BY <2>4 DEF Conversacion, S!RecibeRespuesta
      <3>2. pedido' = S!SinPedido /\ respuesta' = S!SinRespuesta
        BY <2>4, <3>1 DEF S!RecibeRespuesta
      <3>3. ~Trayendo /\ ~ConSuMarco /\ Reemplazando
        BY <2>4 DEF Guardando, Trayendo, ConSuMarco, Reemplazando
      <3> QED
        BY <2>1, <2>4, <3>2, <3>3 DEF Conversacion
    <2> QED
      BY <1>1, <2>2, <2>3, <2>4 DEF Espera
  <1>2. CASE Sigue
    <2>1. ~Guardando' /\ ~Trayendo' /\ ~ConSuMarco' /\ ~Reemplazando'
      BY <1>2 DEF Sigue, Reemplazando
    <2>2. CASE Guardando /\ S!RecibeRespuesta
      <3>1. pedido' = S!SinPedido /\ respuesta' = S!SinRespuesta
        BY <2>2 DEF Conversacion, S!RecibeRespuesta
      <3> QED
        BY <2>1, <3>1 DEF Conversacion
    <2>3. CASE UNCHANGED swapVars /\ (Guardando => respuesta \in S!Terminado)
      <3>1. /\ pedido = S!SinPedido
            /\ respuesta = S!SinRespuesta \/ respuesta \in S!Terminado
        <4>1. /\ S!SinRespuesta \notin S!Terminado /\ S!Perdido \in S!Terminado
              /\ \A r \in S!Terminado :
                   r.cod \notin {"PAGINA_GUARDADA", "PAGINA_NO_GUARDADA"}
          BY DEF S!SinRespuesta, S!Terminado, S!Perdido, S!Caido
        <4> QED
          BY <1>2, <2>3, <4>1 DEF Conversacion, Sigue, Reemplazando
      <3> QED
        BY <2>1, <2>3, <3>1 DEF Conversacion, swapVars, S!SinPedido,
           S!SinRespuesta, S!Terminado, S!Perdido, S!Caido
    <2> QED
      BY <1>2, <2>2, <2>3 DEF Sigue
  <1>3. CASE Accede
    <2>1. ~Reemplazando' /\ ~Reemplazando /\ UNCHANGED swapVars
      <3>1. EnCurso /\ operacion.pc = "sigue" /\ Avanza
        BY <1>3 DEF Accede, Falta, EnPaso, EnCurso
      <3> QED
        BY <1>3, <3>1, AvanzaSigue
           DEF Accede, Reemplazando, Guardando, ConSuMarco, Trayendo
    <2> QED
      BY <2>1 DEF Conversacion, Reemplazando, swapVars
  <1>4. ASSUME NEW v \in Existen, NEW lugar \in Nat, Manda(v, lugar)
        PROVE  Conversacion'
    <2>1. operacion \in Operaciones /\ operacion.pc = "sigue"
      BY <1>4, TocaBien, NecesitaBien DEF Manda
    <2>2. /\ operacion'.pc = "guarda" /\ operacion'.victima = v
          /\ operacion'.tipo # "ninguno"
      BY <1>4, <2>1 DEF Manda, Envia, Operaciones, Pedidos
    <2>3. /\ pedido = S!SinPedido
          /\ respuesta = S!SinRespuesta \/ respuesta \in S!Terminado
      BY <1>4, <2>1 DEF Conversacion, Reemplazando, Guardando, ConSuMarco,
                        Trayendo, Manda
    <2>4. /\ respuesta' = respuesta
          /\ \/ pedido' = S!SinPedido /\ respuesta \in S!Terminado
             \/ /\ pedido' = [op |-> "SWAPSAVE", pagina |-> v]
                /\ respuesta = S!SinRespuesta
      BY <1>4, <2>3 DEF Manda, Envia, S!EnviaPagina, swapVars
    <2>5. /\ EnCurso' /\ S!SinRespuesta' = S!SinRespuesta
          /\ S!SinPedido' = S!SinPedido /\ S!Terminado' = S!Terminado
      BY <2>2 DEF EnCurso, Libre, S!SinRespuesta, S!SinPedido, S!Terminado,
                  S!Perdido, S!Caido
    <2> QED
      BY <2>2, <2>4, <2>5 DEF Conversacion, Reemplazando, Guardando,
                              ConSuMarco, Trayendo
  <1>5. ASSUME NEW v \in Existen, NEW lugar \in Nat, Sale(v, lugar)
        PROVE  Conversacion'
    <2>1. /\ pedido = S!SinPedido
          /\ pedido' = pedido /\ respuesta' = S!SinRespuesta
      <3>1. S!SinRespuesta.cod = "ninguna"
        BY DEF S!SinRespuesta
      <3> QED
        BY <1>5, <3>1 DEF Sale, Deja, S!RecibeRespuesta, Conversacion
    <2>2. ConSuMarco'
      BY <1>5 DEF Sale
    <2> QED
      BY <2>1, <2>2 DEF Conversacion, Reemplazando, Guardando, ConSuMarco,
                        Trayendo, S!SinPedido, S!SinRespuesta
  <1>6. ASSUME NEW p \in Usadas \ Existen, NEW m \in Marcos,
               NEW libre \in BOOLEAN, Crea(p, m, libre)
        PROVE  Conversacion'
    <2>1. ~Reemplazando' /\ ~Guardando /\ ~Trayendo /\ UNCHANGED swapVars
      BY <1>6, NecesitaBien DEF Crea, Reemplazando, Guardando, ConSuMarco,
                                Trayendo
    <2> QED
      BY <2>1 DEF Conversacion, Reemplazando, swapVars
  <1>7. ASSUME NEW p \in Existen \ Presentes, NEW m \in Marcos, Entra(p, m)
        PROVE  Conversacion'
    <2>1. operacion' = operacion /\ ~Reemplazando /\ UNCHANGED swapVars
      BY <1>7, NecesitaBien DEF Entra, Reemplazando, Guardando, ConSuMarco,
                                Trayendo
    <2> QED
      BY <2>1 DEF Conversacion, Reemplazando, Guardando, ConSuMarco, Trayendo,
                  EnCurso, swapVars
  <1>8. ASSUME NEW p \in Existen \ Presentes, NEW m \in Marcos,
               PidePagina(p, m)
        PROVE  Conversacion'
    <2>1. /\ Trayendo' /\ p = Actual /\ Actual' = Actual
          /\ respuesta = S!SinRespuesta
          /\ pedido' = [op |-> "SWAPFREE", pagina |-> p]
          /\ respuesta' = respuesta
      BY <1>8 DEF PidePagina, S!PidePagina, Conversacion
    <2>2. S!SinRespuesta' = S!SinRespuesta
      BY DEF S!SinRespuesta
    <2> QED
      BY <2>1, <2>2 DEF Conversacion, Reemplazando, Guardando, ConSuMarco,
                        Trayendo
  <1>9. ASSUME NEW p \in Existen \ Presentes, Vuelve(p)
        PROVE  Conversacion'
    <2>1. /\ ~Reemplazando' /\ pedido' = pedido /\ pedido = S!SinPedido
          /\ respuesta' = S!SinRespuesta
      <3>1. S!SinRespuesta.cod = "ninguna"
        BY DEF S!SinRespuesta
      <3> QED
        BY <1>9, <3>1 DEF Vuelve, S!RecibeRespuesta, Conversacion
    <2> QED
      BY <2>1 DEF Conversacion, Reemplazando, S!SinPedido, S!SinRespuesta
  <1> QED
    BY <1>1, <1>2, <1>3, <1>4, <1>5, <1>6, <1>7, <1>8, <1>9 DEF Paso
-----------------------------------------------------------------------------
(* How many pages of a process are in memory, and where there is room *)

Del(P, p) == {q \in P : q[1] = p}

ConMarco == ConSuMarco \/ Trayendo

\* The frames of its own that a process has taken: of its pages in memory, and
\* the one in transit from a page to another.
Tomados(p) ==
  paginas_en_memoria[p]
    + (IF ConMarco /\ p = tabla_paginas THEN 1 ELSE 0)

Cuenta ==
  cruces = 0 /\ respuesta # S!Perdido =>
    \A p \in Procesos : paginas_en_memoria[p] = Cardinality(Del(Presentes, p))

\* A page is out of memory, or about to leave it, only if there was no room.
SinHuecos ==
  /\ ~Fija /\ (Existen # Presentes \/ Reemplazando) => libres = {}
  /\ Fija /\ respuesta # S!Perdido =>
       \A p \in Procesos :
         (\E q \in Existen \ Presentes : q[1] = p)
           \/ (Reemplazando /\ p = tabla_paginas)
         => Tomados(p) > config.MARCOS_POR_CARPINCHO

\* The clock chose a page in memory, which has not left yet.
VictimaPresente == Clock /\ Guardando => operacion.victima \in Presentes

IInvCuenta == Tablas /\ Conversacion /\ ListasPropias /\ ListaLRU
                /\ VictimaPresente /\ Cuenta /\ SinHuecos

LEMMA FinitasDel ==
  ASSUME IInvTipos, NEW p \in Procesos
  PROVE  IsFiniteSet(Del(Presentes, p))
  <1>1. PICK n \in Nat : n = Len(paginas[p])
    BY LenProperties DEF IInvTipos, Tipos
  <1>2. IsFiniteSet({p}) /\ IsFiniteSet(1..n)
    <2>1. 1 \in Int /\ n \in Int
      OBVIOUS
    <2> QED
      BY <2>1, FS_Singleton, FS_Interval
  <1>3. IsFiniteSet({p} \X (1..n))
    BY <1>2, FS_Product
  <1>4. \A q \in Del(Presentes, p) : q \in {p} \X (1..n)
    <2> TAKE q \in Del(Presentes, p)
    <2>1. q \in Usadas /\ q[1] = p /\ q[2] <= n
      BY <1>1 DEF Del, Presentes
    <2>2. q = <<q[1], q[2]>> /\ q[2] \in Nat /\ q[2] >= 1
      BY <2>1, UsadasBien
    <2> QED
      BY <2>1, <2>2
  <1> QED
    BY <1>3, <1>4, FS_Subset

LEMMA DelConUna ==
  ASSUME NEW P, NEW p, IsFiniteSet(Del(P, p)), NEW x, x \notin P
  PROVE  Cardinality(Del(P \cup {x}, p)) =
           Cardinality(Del(P, p)) + (IF x[1] = p THEN 1 ELSE 0)
  <1>1. CASE x[1] = p
    <2>1. Del(P \cup {x}, p) = Del(P, p) \cup {x} /\ x \notin Del(P, p)
      BY <1>1 DEF Del
    <2> QED
      BY <1>1, <2>1, FS_AddElement
  <1>2. CASE x[1] # p
    <2>1. Del(P \cup {x}, p) = Del(P, p)
      BY <1>2 DEF Del
    <2> QED
      BY <1>2, <2>1, FS_CardinalityType
  <1> QED
    BY <1>1, <1>2

LEMMA DelSinUna ==
  ASSUME NEW P, NEW p, IsFiniteSet(Del(P, p)), NEW x \in P
  PROVE  Cardinality(Del(P \ {x}, p)) =
           Cardinality(Del(P, p)) - (IF x[1] = p THEN 1 ELSE 0)
  <1>1. CASE x[1] = p
    <2>1. Del(P \ {x}, p) = Del(P, p) \ {x} /\ x \in Del(P, p)
      BY <1>1 DEF Del
    <2> QED
      BY <1>1, <2>1, FS_RemoveElement
  <1>2. CASE x[1] # p
    <2>1. Del(P \ {x}, p) = Del(P, p)
      BY <1>2 DEF Del
    <2> QED
      BY <1>2, <2>1, FS_CardinalityType
  <1> QED
    BY <1>1, <1>2

\* So the frames of a process that is served are counted right, and a page
\* left without a frame cannot get a free one while swap lives.
LEMMA EntraImposible ==
  ASSUME IInvTipos, IInvCuenta, NEW p \in Existen \ Presentes, NEW m \in Marcos,
         Entra(p, m), ~Fija \/ respuesta # S!Perdido
  PROVE  FALSE
  <1>1. /\ EnCurso /\ tabla_paginas \in Procesos /\ p[1] = tabla_paginas
        /\ Necesita /\ GetMarco = m
    BY DEF Entra
  <1>2. m # -1
    BY ConfigBien DEF Marcos, IInvTipos, Tipos
  <1>3. CASE ~Fija
    <2>1. libres = {}
      BY <1>3 DEF IInvCuenta, SinHuecos
    <2> QED
      BY <1>1, <1>2, <1>3, <2>1, GetMarcoBien DEF IInvCuenta
  <1>4. CASE Fija /\ respuesta # S!Perdido
    <2>1. Tomados(tabla_paginas) > config.MARCOS_POR_CARPINCHO
      BY <1>1, <1>4 DEF IInvCuenta, SinHuecos
    <2>2. ~ConMarco /\ paginas_en_memoria[tabla_paginas] \in Int
      BY <1>1, NecesitaBien DEF ConMarco, ConSuMarco, Trayendo, IInvTipos, Tipos
    <2>3. paginas_en_memoria[tabla_paginas] > config.MARCOS_POR_CARPINCHO
      BY <2>1, <2>2 DEF Tomados
    <2> QED
      BY <1>1, <1>2, <1>4, <2>3, GetMarcoBien DEF IInvCuenta
  <1> QED
    BY <1>3, <1>4

LEMMA VictimaDeSuLista ==
  ASSUME IInvTipos, IInvCuenta, tabla_paginas \in Procesos,
         NEW v, NEW lugar, VictimaDe(v, lugar)
  PROVE  /\ ~Clock /\ cruces = 0 => v \in Presentes
         /\ Fija => v[1] = tabla_paginas
  <1>1. PICK s \in Seq(Usadas) : s = lista_reemplazo[Lista]
    BY DEF IInvTipos, Tipos, Lista
  <1>2. v \in Range(s)
    <2>1. CASE Clock
      BY <1>1, <2>1 DEF VictimaDe, Range
    <2>2. CASE ~Clock
      BY <1>1, <2>2, RangoSinElPrimero DEF VictimaDe
    <2> QED
      BY <2>1, <2>2
  <1>3. Fija => v[1] = tabla_paginas
    BY <1>1, <1>2 DEF IInvCuenta, ListasPropias, Lista
  <1>4. ~Clock /\ cruces = 0 => v \in Presentes
    <2>1. Lista \in EnUso
      BY DEF Lista, EnUso
    <2> QED
      BY <1>1, <1>2, <2>1 DEF IInvCuenta, ListaLRU
  <1> QED
    BY <1>3, <1>4

LEMMA VictimaBien ==
  ASSUME IInvTipos, IInvCuenta, Guardando
  PROVE  /\ cruces = 0 => operacion.victima \in Presentes
         /\ Fija => operacion.victima[1] = tabla_paginas
         /\ operacion.victima \in Existen
  <1>1. /\ operacion.victima \in Existen /\ tabla_paginas \in Procesos
        /\ VictimaDe(operacion.victima, operacion.lugar)
    BY TocaBien DEF IInvTipos, ReemplazoBien, Guardando
  <1>2. Clock => operacion.victima \in Presentes
    BY DEF IInvCuenta, VictimaPresente
  <1> QED
    BY <1>1, <1>2, VictimaDeSuLista

LEMMA VictimaPaso ==
  ASSUME IInvTipos, VictimaPresente, Paso
  PROVE  VictimaPresente'
  <1>1. CASE Espera
    <2>1. Guardando' = Guardando /\ Presentes' = Presentes
      BY <1>1 DEF Espera, Guardando, EnCurso, Presentes, Pagina, tablas
    <2> QED
      BY <1>1, <2>1, ConfigFija DEF VictimaPresente, Espera
  <1>2. ASSUME NEW v \in Existen, NEW lugar \in Nat, Manda(v, lugar)
        PROVE  VictimaPresente'
    <2>1. operacion'.victima = v
      BY <1>2, TocaBien DEF Manda, Envia, Operaciones
    <2> QED
      BY <1>2, <2>1, ConfigFija DEF VictimaPresente, Manda, MismasPaginas
  <1>3. CASE ~Guardando'
    BY <1>3 DEF VictimaPresente
  <1>4. Paso => \/ Espera \/ ~Guardando'
                \/ \E v \in Existen, lugar \in Nat : Manda(v, lugar)
    <2>1. Accede => ~Guardando'
      BY AvanzaSigue, AccedeVista DEF Accede, Reemplazando
    <2>2. \A p \in Existen \ Presentes, m \in Marcos :
            Entra(p, m) => ~Guardando'
      BY NecesitaBien DEF Entra, Guardando, EnCurso
    <2> QED
      BY <2>1, <2>2 DEF Paso, Sigue, Sale, Crea, PidePagina, Vuelve,
         Reemplazando, Guardando, ConSuMarco, Trayendo
  <1> QED
    BY <1>1, <1>2, <1>3, <1>4

LEMMA CrucesQuedan ==
  ASSUME IInvTipos, Paso, cruces' = 0
  PROVE  cruces = 0
  <1>1. cruces \in Nat
    BY DEF IInvTipos, Tipos
  <1>2. CASE Accede
    BY <1>1, <1>2 DEF Accede
  <1>3. CASE cruces' = cruces
    BY <1>3
  <1> QED
    BY <1>2, <1>3 DEF Paso, Espera, Sigue, Manda, Sale, Crea, Entra,
       PidePagina, Vuelve, Deja, reemplazo

\* What becomes of the pages in memory and of the count of each process.
CuentaSigue ==
  \/ UNCHANGED paginas_en_memoria /\ Presentes' = Presentes
  \/ \E x \in Usadas \ Presentes :
       /\ Presentes' = Presentes \cup {x} /\ x[1] = tabla_paginas
       /\ paginas_en_memoria' = [paginas_en_memoria EXCEPT ![x[1]] = @ + 1]
  \/ \E x \in Usadas :
       /\ Guardando /\ x = operacion.victima /\ Presentes' = Presentes \ {x}
       /\ paginas_en_memoria' = [paginas_en_memoria EXCEPT ![x[1]] = @ - 1]

LEMMA PasoCuenta ==
  ASSUME IInvTipos, IInvCuenta, Paso, ~Fija \/ respuesta # S!Perdido
  PROVE  CuentaSigue
  <1>1. Presentes \subseteq Existen /\ Existen \subseteq Usadas
    BY PresentesExisten DEF Existen
  <1>2. CASE Espera \/ Sigue
    BY <1>2 DEF Espera, Sigue, tablas, Presentes, Pagina, CuentaSigue
  <1>3. CASE Accede
    BY <1>3, AccedeVista DEF Accede, MismasPaginas, CuentaSigue
  <1>4. ASSUME NEW v \in Existen, NEW lugar \in Nat,
               Manda(v, lugar) \/ Sale(v, lugar)
        PROVE  CuentaSigue
    BY <1>1, <1>4 DEF Manda, Sale, Deja, MismasPaginas, CuentaSigue
  <1>5. ASSUME NEW p \in Usadas \ Existen, NEW m \in Marcos,
               NEW libre \in BOOLEAN, Crea(p, m, libre)
        PROVE  CuentaSigue
    BY <1>1, <1>5 DEF Crea, CuentaSigue
  <1>6. ASSUME NEW p \in Existen \ Presentes, NEW m \in Marcos,
               Entra(p, m) \/ PidePagina(p, m) \/ Vuelve(p)
        PROVE  CuentaSigue
    <2>1. ~Entra(p, m)
      BY EntraImposible
    <2> QED
      BY <1>1, <1>6, <2>1 DEF PidePagina, Vuelve, CuentaSigue
  <1>7. 0 \in Marcos
    BY ConfigBien DEF Marcos, IInvTipos, Tipos
  <1> QED
    BY <1>2, <1>3, <1>4, <1>5, <1>6, <1>7 DEF Paso

LEMMA CuentaPaso ==
  ASSUME IInvTipos, IInvCuenta, Paso
  PROVE  Cuenta'
  <1> SUFFICES ASSUME cruces' = 0, respuesta' # S!Perdido, NEW p \in Procesos
               PROVE  paginas_en_memoria'[p] = Cardinality(Del(Presentes', p))
    BY DEF Cuenta, S!Perdido, Del
  <1>1. cruces = 0 /\ respuesta # S!Perdido
    BY CrucesQuedan, PerdidoQueda DEF IInvCuenta
  <1>2. /\ paginas_en_memoria[p] = Cardinality(Del(Presentes, p))
        /\ IsFiniteSet(Del(Presentes, p))
        /\ paginas_en_memoria \in [Procesos -> Int]
    BY <1>1, FinitasDel DEF IInvCuenta, Cuenta, IInvTipos, Tipos
  <1>3. CASE UNCHANGED paginas_en_memoria /\ Presentes' = Presentes
    BY <1>2, <1>3
  <1>4. ASSUME NEW x \in Usadas \ Presentes, Presentes' = Presentes \cup {x},
               paginas_en_memoria' = [paginas_en_memoria EXCEPT ![x[1]] = @ + 1]
        PROVE  paginas_en_memoria'[p] = Cardinality(Del(Presentes', p))
    <2>1. Cardinality(Del(Presentes \cup {x}, p)) =
            Cardinality(Del(Presentes, p)) + (IF x[1] = p THEN 1 ELSE 0)
      BY <1>2, <1>4, DelConUna
    <2> QED
      BY <1>2, <1>4, <2>1
  <1>5. ASSUME NEW x \in Usadas, Guardando, x = operacion.victima,
               Presentes' = Presentes \ {x},
               paginas_en_memoria' = [paginas_en_memoria EXCEPT ![x[1]] = @ - 1]
        PROVE  paginas_en_memoria'[p] = Cardinality(Del(Presentes', p))
    <2>1. x \in Presentes
      BY <1>1, <1>5, VictimaBien
    <2>2. Cardinality(Del(Presentes \ {x}, p)) =
            Cardinality(Del(Presentes, p)) - (IF x[1] = p THEN 1 ELSE 0)
      BY <1>2, <2>1, DelSinUna
    <2> QED
      BY <1>2, <1>5, <2>2
  <1> QED
    BY <1>1, <1>3, <1>4, <1>5, PasoCuenta DEF CuentaSigue

\* What a step does to the frames each process has taken, with fixed
\* assignment and while swap lives.
TomadosSiguen ==
  \/ /\ UNCHANGED paginas_en_memoria /\ ~ConMarco /\ ~ConMarco'
     /\ Existen' = Existen /\ Presentes' = Presentes
     /\ \/ ~Reemplazando'
        \/ Reemplazando /\ tabla_paginas' = tabla_paginas
        \/ GetMarco = -1 /\ EnCurso /\ tabla_paginas' = tabla_paginas
  \/ /\ UNCHANGED paginas_en_memoria /\ Reemplazando /\ ConMarco' = ConMarco
     /\ tabla_paginas' = tabla_paginas
     /\ Existen' = Existen /\ Presentes' = Presentes
  \/ \E x \in Usadas \ Presentes :
       /\ x[1] = tabla_paginas /\ tabla_paginas' = tabla_paginas
       /\ tabla_paginas \in Procesos /\ EnCurso /\ ~Reemplazando'
       /\ Presentes' = Presentes \cup {x} /\ Existen' = Existen \cup {x}
       /\ paginas_en_memoria' = [paginas_en_memoria EXCEPT ![x[1]] = @ + 1]
       /\ GetMarco # -1 \/ ConMarco
  \/ \E x \in Existen :
       /\ Guardando /\ x[1] = tabla_paginas /\ tabla_paginas' = tabla_paginas
       /\ tabla_paginas \in Procesos /\ ConMarco'
       /\ Presentes' = Presentes \ {x} /\ Existen' = Existen
       /\ paginas_en_memoria' = [paginas_en_memoria EXCEPT ![x[1]] = @ - 1]

LEMMA PasoTomados ==
  ASSUME IInvTipos, IInvCuenta, Paso, Fija, respuesta # S!Perdido
  PROVE  TomadosSiguen
  <1>1. Presentes \subseteq Existen /\ Existen \subseteq Usadas
    BY PresentesExisten DEF Existen
  <1>2. CASE Espera
    <2>1. /\ Existen' = Existen /\ Presentes' = Presentes
          /\ ConMarco' = ConMarco /\ Reemplazando' = Reemplazando
          /\ UNCHANGED <<paginas_en_memoria, tabla_paginas>>
      BY <1>2 DEF Espera, tablas, Existen, Presentes, Pagina, ConMarco,
                  Reemplazando, ConSuMarco, Trayendo, Guardando, EnCurso
    <2>2. ConMarco => Reemplazando
      BY DEF ConMarco, Reemplazando
    <2> QED
      BY <2>1, <2>2 DEF TomadosSiguen
  <1>3. CASE Sigue
    <2>1. /\ Existen' = Existen /\ Presentes' = Presentes
          /\ ~ConMarco' /\ ~ConMarco /\ ~Reemplazando'
          /\ UNCHANGED paginas_en_memoria
      BY <1>3 DEF Sigue, Existen, Presentes, Pagina, ConMarco, Reemplazando
    <2> QED
      BY <2>1 DEF TomadosSiguen
  <1>4. CASE Accede
    <2>1. EnCurso /\ operacion.pc = "sigue" /\ ~Reemplazando'
      BY <1>4, AvanzaSigue, AccedeVista DEF Accede, Falta, EnPaso
    <2>2. /\ Existen' = Existen /\ Presentes' = Presentes
          /\ ~ConMarco' /\ ~ConMarco /\ UNCHANGED paginas_en_memoria
      BY <1>4, <2>1, AccedeVista DEF Accede, MismasPaginas, ConMarco,
         Reemplazando, ConSuMarco, Trayendo
    <2> QED
      BY <2>1, <2>2 DEF TomadosSiguen
  <1>5. ASSUME NEW v \in Existen, NEW lugar \in Nat, Manda(v, lugar)
        PROVE  TomadosSiguen
    <2>1. EnCurso /\ operacion.pc = "sigue" /\ operacion \in Operaciones
      BY <1>5, NecesitaBien, TocaBien DEF Manda
    <2>2. operacion'.pc = "guarda"
      BY <1>5, <2>1 DEF Manda, Envia, Operaciones
    <2>3. /\ Existen' = Existen /\ Presentes' = Presentes
          /\ UNCHANGED <<paginas_en_memoria, tabla_paginas>> /\ GetMarco = -1
      BY <1>5 DEF Manda, MismasPaginas
    <2> QED
      BY <2>1, <2>2, <2>3 DEF TomadosSiguen, ConMarco, ConSuMarco, Trayendo
  <1>6. ASSUME NEW v \in Existen, NEW lugar \in Nat, Sale(v, lugar)
        PROVE  TomadosSiguen
    <2>1. v[1] = tabla_paginas
      BY <1>6, VictimaBien DEF Sale
    <2>2. /\ tabla_paginas' = tabla_paginas /\ ConMarco' /\ Guardando
          /\ tabla_paginas \in Procesos
          /\ Presentes' = Presentes \ {v} /\ Existen' = Existen
          /\ paginas_en_memoria' = [paginas_en_memoria EXCEPT ![v[1]] = @ - 1]
      BY <1>6 DEF Sale, Deja, ConMarco
    <2> QED
      BY <2>1, <2>2 DEF TomadosSiguen
  <1>7. ASSUME NEW p \in Usadas \ Existen, NEW m \in Marcos,
               NEW libre \in BOOLEAN, Crea(p, m, libre)
        PROVE  TomadosSiguen
    <2>1. m # -1
      BY ConfigBien DEF Marcos, IInvTipos, Tipos
    <2>2. libre => ~ConMarco /\ GetMarco # -1
      BY <1>7, <2>1, NecesitaBien DEF Crea, ConMarco, ConSuMarco, Trayendo
    <2>3. ~libre => ConMarco
      BY <1>7 DEF Crea, ConMarco
    <2>4. /\ p \in Usadas \ Presentes /\ p[1] = tabla_paginas
          /\ tabla_paginas' = tabla_paginas
          /\ tabla_paginas \in Procesos /\ EnCurso /\ ~Reemplazando'
          /\ Presentes' = Presentes \cup {p} /\ Existen' = Existen \cup {p}
          /\ paginas_en_memoria' = [paginas_en_memoria EXCEPT ![p[1]] = @ + 1]
      BY <1>1, <1>7 DEF Crea
    <2> QED
      BY <2>2, <2>3, <2>4 DEF TomadosSiguen
  <1>8. ASSUME NEW p \in Existen \ Presentes, Vuelve(p)
        PROVE  TomadosSiguen
    <2>1. /\ p \in Usadas \ Presentes /\ p[1] = tabla_paginas
          /\ tabla_paginas' = tabla_paginas
          /\ tabla_paginas \in Procesos /\ EnCurso /\ ~Reemplazando'
          /\ Presentes' = Presentes \cup {p} /\ Existen' = Existen \cup {p}
          /\ paginas_en_memoria' = [paginas_en_memoria EXCEPT ![p[1]] = @ + 1]
          /\ ConMarco
      BY <1>1, <1>8 DEF Vuelve, ConMarco
    <2> QED
      BY <2>1 DEF TomadosSiguen
  <1>9. ASSUME NEW p \in Existen \ Presentes, NEW m \in Marcos,
               PidePagina(p, m)
        PROVE  TomadosSiguen
    <2>1. /\ Existen' = Existen /\ Presentes' = Presentes
          /\ ConMarco' = ConMarco /\ Reemplazando
          /\ UNCHANGED <<paginas_en_memoria, tabla_paginas>>
      BY <1>9 DEF PidePagina, ConMarco, Reemplazando
    <2> QED
      BY <2>1 DEF TomadosSiguen
  <1>10. \A p \in Existen \ Presentes, m \in Marcos : ~Entra(p, m)
    BY EntraImposible
  <1> QED
    BY <1>2, <1>3, <1>4, <1>5, <1>6, <1>7, <1>8, <1>9, <1>10 DEF Paso

LEMMA SinHuecosPaso ==
  ASSUME IInvTipos, IInvCuenta, Paso
  PROVE  SinHuecos'
  <1>1. ASSUME ~Fija, Existen' # Presentes' \/ Reemplazando'
        PROVE  libres' = {}
    <2>1. SUFFICES ASSUME libres # {} PROVE FALSE
      BY <1>1 DEF Paso, Espera, Sigue, Accede, Manda, Sale, Crea, Entra,
         PidePagina, Vuelve, Deja, tablas
    <2>2. Existen = Presentes /\ ~Reemplazando
      BY <1>1, <2>1 DEF IInvCuenta, SinHuecos
    <2>3. Espera => /\ Existen' = Existen /\ Presentes' = Presentes
                    /\ ~Reemplazando'
      BY <2>2 DEF Espera, tablas, Existen, Presentes, Pagina,
         Reemplazando, ConSuMarco, Trayendo, Guardando, EnCurso
    <2>4. Sigue => /\ Existen' = Existen /\ Presentes' = Presentes
                   /\ ~Reemplazando'
      BY DEF Sigue, Existen, Presentes, Pagina
    <2>5. Accede => /\ Existen' = Existen /\ Presentes' = Presentes
                    /\ ~Reemplazando'
      BY AccedeVista, AvanzaSigue DEF Accede, MismasPaginas
    <2>6. \A v, lugar : ~Manda(v, lugar)
      BY <1>1, <2>1, GetMarcoBien DEF Manda, IInvCuenta
    <2>7. \A p, m, libre : Crea(p, m, libre) =>
            Existen' = Presentes' /\ ~Reemplazando'
      BY <2>2 DEF Crea
    <2> QED
      BY <1>1, <2>2, <2>3, <2>4, <2>5, <2>6, <2>7
         DEF Paso, Sale, PidePagina, Vuelve, Reemplazando
  <1>2. ASSUME Fija, respuesta' # S!Perdido, NEW p \in Procesos,
               (\E q \in Existen' \ Presentes' : q[1] = p)
                 \/ (Reemplazando' /\ p = tabla_paginas')
        PROVE  Tomados(p)' > config.MARCOS_POR_CARPINCHO
    <2>1. respuesta # S!Perdido /\ cruces = 0
      BY <1>2, PerdidoQueda DEF IInvCuenta, ListasPropias
    <2>2. \A q \in Procesos :
            (\E x \in Existen \ Presentes : x[1] = q)
              \/ (Reemplazando /\ q = tabla_paginas)
            => Tomados(q) > config.MARCOS_POR_CARPINCHO
      BY <1>2, <2>1 DEF IInvCuenta, SinHuecos
    <2>3. \A q \in Procesos : paginas_en_memoria[q] \in Nat
      BY <2>1, FinitasDel, FS_CardinalityType DEF IInvCuenta, Cuenta
    <2>4. paginas_en_memoria \in [Procesos -> Int]
      BY DEF IInvTipos, Tipos
    <2>k. PICK k \in Nat : k = config.MARCOS_POR_CARPINCHO
      BY ConfigBien DEF IInvTipos, Tipos
    <2>5. CASE /\ UNCHANGED paginas_en_memoria /\ ~ConMarco /\ ~ConMarco'
               /\ Existen' = Existen /\ Presentes' = Presentes
               /\ \/ ~Reemplazando'
                  \/ Reemplazando /\ tabla_paginas' = tabla_paginas
                  \/ /\ GetMarco = -1 /\ EnCurso
                     /\ tabla_paginas' = tabla_paginas
      <3>1. Tomados(p)' = paginas_en_memoria[p]
            /\ Tomados(p) = paginas_en_memoria[p]
        BY <2>4, <2>5 DEF Tomados
      <3>2. CASE \/ \E q \in Existen \ Presentes : q[1] = p
                 \/ Reemplazando /\ p = tabla_paginas
        BY <2>2, <3>1, <3>2
      <3>3. CASE /\ GetMarco = -1 /\ EnCurso /\ p = tabla_paginas
        <4>1. paginas_en_memoria[p] \notin 0..k
          BY <1>2, <2>k, <3>3, GetMarcoBien DEF IInvCuenta
        <4>2. paginas_en_memoria[p] \in Nat
          BY <2>3
        <4>3. paginas_en_memoria[p] > k
          BY <4>1, <4>2
        <4> QED
          BY <2>k, <3>1, <4>3
      <3> QED
        BY <1>2, <2>5, <3>2, <3>3
    <2>6. CASE /\ UNCHANGED paginas_en_memoria /\ Reemplazando
               /\ ConMarco' = ConMarco /\ tabla_paginas' = tabla_paginas
               /\ Existen' = Existen /\ Presentes' = Presentes
      <3>1. Tomados(p)' = Tomados(p)
        BY <2>6 DEF Tomados
      <3> QED
        BY <1>2, <2>2, <2>6, <3>1
    <2>7. ASSUME NEW x \in Usadas \ Presentes,
                 x[1] = tabla_paginas, tabla_paginas' = tabla_paginas,
                 tabla_paginas \in Procesos, EnCurso, ~Reemplazando',
                 Presentes' = Presentes \cup {x}, Existen' = Existen \cup {x},
                 paginas_en_memoria' =
                   [paginas_en_memoria EXCEPT ![x[1]] = @ + 1]
          PROVE  Tomados(p)' > config.MARCOS_POR_CARPINCHO
      <3>1. ~ConMarco'
        BY <2>7 DEF ConMarco, Reemplazando
      <3>2. Tomados(p)' = paginas_en_memoria'[p]
        BY <2>4, <2>7, <3>1 DEF Tomados
      <3>3. Tomados(p)' >= Tomados(p) /\ Tomados(p) \in Int
        BY <2>4, <2>7, <3>2 DEF Tomados
      <3>4. Tomados(p) > k
        BY <1>2, <2>2, <2>7, <2>k
      <3>5. Tomados(p)' \in Int
        BY <2>4, <2>7, <3>2
      <3> QED
        BY <2>k, <3>3, <3>4, <3>5
    <2>8. ASSUME NEW x \in Existen, Guardando, x[1] = tabla_paginas,
                 tabla_paginas' = tabla_paginas, tabla_paginas \in Procesos,
                 ConMarco', Presentes' = Presentes \ {x}, Existen' = Existen,
                 paginas_en_memoria' =
                   [paginas_en_memoria EXCEPT ![x[1]] = @ - 1]
          PROVE  Tomados(p)' > config.MARCOS_POR_CARPINCHO
      <3>1. ~ConMarco /\ Reemplazando
        BY <2>8 DEF ConMarco, Reemplazando, Guardando, ConSuMarco, Trayendo
      <3>2. Tomados(p)' = paginas_en_memoria[p] /\
            Tomados(p) = paginas_en_memoria[p]
        BY <2>4, <2>8, <3>1 DEF Tomados
      <3>3. Tomados(p) > config.MARCOS_POR_CARPINCHO
        BY <1>2, <2>2, <2>8, <3>1
      <3> QED
        BY <3>2, <3>3
    <2> QED
      BY <1>2, <2>1, <2>5, <2>6, <2>7, <2>8, PasoTomados DEF TomadosSiguen
  <1> QED
    BY <1>1, <1>2, ConfigFija DEF SinHuecos, S!Perdido

LEMMA CuentaInductiva == Spec => [](IInvTipos /\ IInvCuenta)
  <1>1. Init => Tablas /\ Conversacion /\ VictimaPresente /\ Cuenta /\ SinHuecos
    <2> SUFFICES ASSUME Init
                 PROVE  /\ Tablas /\ Conversacion /\ VictimaPresente
                        /\ Cuenta /\ SinHuecos
      OBVIOUS
    <2>1. \A p \in Usadas : ~(p[2] <= Len(paginas[p[1]]))
      BY UsadasBien DEF Init
    <2>2. Existen = {} /\ Presentes = {}
      BY <2>1 DEF Existen, Presentes
    <2>3. /\ ~EnCurso /\ ~Reemplazando /\ ~Guardando /\ ~ConSuMarco /\ ~Trayendo
          /\ tabla_paginas = Nadie /\ S!Init
          /\ paginas_en_memoria = [p \in Procesos |-> 0]
      BY DEF Init, EnCurso, Reemplazando, Guardando, ConSuMarco, Trayendo
    <2>4. Tablas /\ VictimaPresente
      BY <2>2, <2>3 DEF Tablas, VictimaPresente
    <2>5. Conversacion
      BY <2>3 DEF Conversacion, S!Init
    <2>6. Cuenta
      <3>1. \A p \in Procesos : Del(Presentes, p) = {}
        BY <2>2 DEF Del
      <3>2. Cardinality({}) = 0
        BY FS_EmptySet
      <3> QED
        BY <2>3, <3>1, <3>2 DEF Cuenta
    <2>7. SinHuecos
      BY <2>2, <2>3 DEF SinHuecos
    <2> QED
      BY <2>4, <2>5, <2>6, <2>7
  <1>2. IInvTipos /\ IInvCuenta /\ [Next]_vars =>
          /\ Tablas' /\ Conversacion' /\ VictimaPresente'
          /\ Cuenta' /\ SinHuecos'
    BY PasoBien, TablasPaso, ConversacionPaso, VictimaPaso, CuentaPaso,
       SinHuecosPaso DEF IInvCuenta
  <1> QED
    BY <1>1, <1>2, ListasInductivas, PTL DEF Spec, IInvCuenta
-----------------------------------------------------------------------------
(* Memoria and swap agree on where each page is *)

EnViaje(p) == (Guardando /\ p = operacion.victima) \/ (Trayendo /\ p = Actual)

\* A page is in memory or in swap, and the one that travels is where the
\* answer of swap says.
UnSoloLugar ==
  cruces = 0 /\ ~perdidas =>
    /\ respuesta \notin {S!Silencio, S!Perdido}
    /\ guardadas \subseteq Existen
    /\ \A p \in Existen :
         ~EnViaje(p) => (p \in Presentes <=> p \notin guardadas)
    /\ Guardando =>
         (operacion.victima \in guardadas <=> respuesta.cod = "PAGINA_GUARDADA")
    /\ Trayendo =>
         (Actual \in guardadas <=> respuesta.cod # "RECEPCION_PAGINA")

LEMMA PerdidasQuedan ==
  ASSUME Paso, ~perdidas'
  PROVE  ~perdidas
  BY DEF Paso, Espera, Sigue, Accede, Manda, Sale, Crea, Entra, PidePagina,
     Vuelve, Deja, Envia, swapVars, S!Swap, S!Guarda, S!Devuelve,
     S!RecibeRespuesta, S!EnviaPagina, S!PidePagina

LEMMA UnSoloLugarEspera ==
  ASSUME IInvTipos, IInvCuenta, UnSoloLugar, Espera, cruces = 0, ~perdidas'
  PROVE  UnSoloLugar'
  <1>1. /\ Existen' = Existen /\ Presentes' = Presentes
        /\ Guardando' = Guardando /\ Trayendo' = Trayendo
        /\ Actual' = Actual /\ operacion' = operacion
        /\ \A p : EnViaje(p)' = EnViaje(p)
    BY DEF Espera, tablas, Existen, Presentes, Pagina, Guardando, Trayendo,
           EnCurso, Actual, Toca, EnViaje
  <1>2. ~perdidas
    BY PerdidasQuedan DEF Paso
  <1>3. /\ respuesta \notin {S!Silencio, S!Perdido}
        /\ guardadas \subseteq Existen
        /\ \A p \in Existen :
             ~EnViaje(p) => (p \in Presentes <=> p \notin guardadas)
        /\ Guardando => (operacion.victima \in guardadas
                           <=> respuesta.cod = "PAGINA_GUARDADA")
        /\ Trayendo =>
             (Actual \in guardadas <=> respuesta.cod # "RECEPCION_PAGINA")
    BY <1>2 DEF UnSoloLugar
  <1>4. SUFFICES
          /\ respuesta' \notin {S!Silencio, S!Perdido}
          /\ guardadas' \subseteq Existen
          /\ \A p \in Existen :
               ~EnViaje(p) => (p \in Presentes <=> p \notin guardadas')
          /\ Guardando => (operacion.victima \in guardadas'
                             <=> respuesta'.cod = "PAGINA_GUARDADA")
          /\ Trayendo =>
               (Actual \in guardadas' <=> respuesta'.cod # "RECEPCION_PAGINA")
    BY <1>1 DEF UnSoloLugar, S!Silencio, S!Perdido
  <1>5. ~(Guardando /\ Trayendo) /\ (Guardando => operacion.victima \in Existen)
    BY VictimaBien DEF Guardando, Trayendo
  <1>6. CASE UNCHANGED swapVars
    BY <1>3, <1>6 DEF swapVars
  <1>7. CASE S!Guarda
    <2>1. Guardando /\ pedido.pagina = operacion.victima
      BY <1>7 DEF S!Guarda, Conversacion, IInvCuenta, Reemplazando, S!SinPedido
    <2>2. \/ /\ guardadas' = guardadas \cup {operacion.victima}
             /\ respuesta'.cod = "PAGINA_GUARDADA"
          \/ /\ guardadas' = guardadas
             /\ respuesta'.cod \in {"PAGINA_NO_GUARDADA", "caido"}
      BY <1>7, <2>1 DEF S!Guarda, S!Caido
    <2>3. /\ respuesta.cod # "PAGINA_GUARDADA"
          /\ respuesta' \notin {S!Silencio, S!Perdido}
      BY <1>7, <2>1, <2>2 DEF S!Guarda, Conversacion, IInvCuenta, S!SinPedido,
                         S!SinRespuesta, S!Silencio, S!Perdido
    <2> QED
      BY <1>3, <1>5, <2>1, <2>2, <2>3 DEF EnViaje
  <1>8. CASE S!Devuelve
    <2>1. /\ Trayendo /\ pedido.pagina = Actual
          /\ respuesta = S!SinRespuesta
      BY <1>8 DEF S!Devuelve, Conversacion, IInvCuenta, Reemplazando,
                  S!SinPedido
    <2>2. Actual \in guardadas
      BY <1>3, <2>1 DEF S!SinRespuesta
    <2>3. /\ guardadas' = guardadas \ {Actual}
          /\ respuesta' = [cod |-> "RECEPCION_PAGINA", pagina |-> Actual]
      BY <1>8, <2>1, <2>2 DEF S!Devuelve
    <2>4. respuesta' \notin {S!Silencio, S!Perdido}
      BY <2>3 DEF S!Silencio, S!Perdido
    <2> QED
      BY <1>3, <1>5, <2>1, <2>3, <2>4 DEF EnViaje
  <1>9. CASE /\ Guardando /\ S!RecibeRespuesta
             /\ respuesta.cod = "PAGINA_NO_GUARDADA"
    <2>1. guardadas' = guardadas /\ respuesta' = S!SinRespuesta
      BY <1>9 DEF S!RecibeRespuesta
    <2> QED
      BY <1>3, <1>5, <1>9, <2>1 DEF S!SinRespuesta, S!Silencio, S!Perdido
  <1> QED
    BY <1>6, <1>7, <1>8, <1>9 DEF Espera, S!Swap

LEMMA UnSoloLugarPaso ==
  ASSUME IInvTipos, IInvCuenta, UnSoloLugar, Paso
  PROVE  UnSoloLugar'
  <1> SUFFICES ASSUME cruces' = 0, ~perdidas' PROVE UnSoloLugar'
    BY DEF UnSoloLugar
  <1>1. cruces = 0 /\ ~perdidas
    BY CrucesQuedan, PerdidasQuedan
  <1>2. /\ respuesta \notin {S!Silencio, S!Perdido}
        /\ guardadas \subseteq Existen
        /\ \A p \in Existen :
             ~EnViaje(p) => (p \in Presentes <=> p \notin guardadas)
        /\ Guardando => (operacion.victima \in guardadas
                           <=> respuesta.cod = "PAGINA_GUARDADA")
        /\ Trayendo =>
             (Actual \in guardadas <=> respuesta.cod # "RECEPCION_PAGINA")
    BY <1>1 DEF UnSoloLugar
  <1>3. CASE Espera
    BY <1>1, <1>3, UnSoloLugarEspera
  <1>4. CASE Sigue
    <2>1. /\ Existen' = Existen /\ Presentes' = Presentes /\ ~Trayendo
          /\ ~Guardando' /\ ~Trayendo'
          /\ \A p : EnViaje(p)' = FALSE
      BY <1>2, <1>4 DEF Sigue, Existen, Presentes, Pagina, Reemplazando, EnViaje
    <2>2. CASE UNCHANGED swapVars /\ (Guardando => respuesta \in S!Terminado)
      <3>1. Guardando => operacion.victima \in Presentes
        BY <1>1, VictimaBien
      <3>2. Guardando => respuesta.cod # "PAGINA_GUARDADA"
        BY <2>2 DEF S!Terminado, S!Perdido, S!Caido
      <3> QED
        BY <1>2, <2>1, <2>2, <3>1, <3>2 DEF swapVars, UnSoloLugar, EnViaje,
           S!Silencio, S!Perdido
    <2>3. CASE /\ Guardando /\ S!RecibeRespuesta
               /\ respuesta.cod = "PAGINA_NO_GUARDADA"
      <3>1. guardadas' = guardadas /\ respuesta' = S!SinRespuesta
        BY <2>3 DEF S!RecibeRespuesta
      <3>2. operacion.victima \in Presentes
        BY <1>1, <2>3, VictimaBien
      <3> QED
        BY <1>2, <2>1, <2>3, <3>1, <3>2
           DEF UnSoloLugar, EnViaje, S!SinRespuesta, S!Silencio, S!Perdido
    <2> QED
      BY <1>4, <2>2, <2>3 DEF Sigue
  <1>5. CASE Accede
    <2>1. EnCurso /\ operacion.pc = "sigue" /\ ~Reemplazando'
      BY <1>5, AvanzaSigue, AccedeVista DEF Accede, Falta, EnPaso
    <2>2. /\ Existen' = Existen /\ Presentes' = Presentes
          /\ UNCHANGED swapVars
          /\ ~Guardando /\ ~Trayendo /\ ~Guardando' /\ ~Trayendo'
      BY <1>5, <2>1, AccedeVista DEF Accede, MismasPaginas, Reemplazando,
         Guardando, Trayendo
    <2> QED
      BY <1>2, <2>2 DEF swapVars, UnSoloLugar, EnViaje, S!Silencio, S!Perdido
  <1>6. ASSUME NEW v \in Existen, NEW lugar \in Nat, Manda(v, lugar)
        PROVE  UnSoloLugar'
    <2>1. /\ EnCurso /\ operacion.pc = "sigue" /\ operacion \in Operaciones
          /\ tabla_paginas \in Procesos
      BY <1>6, NecesitaBien, TocaBien DEF Manda
    <2>2. operacion'.pc = "guarda" /\ operacion'.victima = v
      BY <1>6, <2>1 DEF Manda, Envia, Operaciones
    <2>3. v \in Presentes
      BY <1>1, <1>6, <2>1, VictimaDeSuLista DEF Manda
    <2>4. /\ ~Guardando /\ ~Trayendo /\ ~Reemplazando /\ ~Trayendo'
          /\ \A p : EnViaje(p)' => p = v
          /\ \A p : ~EnViaje(p)
      BY <2>1, <2>2 DEF Guardando, Trayendo, ConSuMarco, Reemplazando, EnViaje
    <2>5. respuesta.cod # "PAGINA_GUARDADA"
      BY <2>4 DEF IInvCuenta, Conversacion, S!SinRespuesta, S!Terminado,
                  S!Perdido, S!Caido
    <2>6. /\ Existen' = Existen /\ Presentes' = Presentes
          /\ guardadas' = guardadas /\ respuesta' = respuesta
      BY <1>6 DEF Manda, MismasPaginas, Envia, S!EnviaPagina, swapVars
    <2> QED
      BY <1>2, <2>2, <2>3, <2>4, <2>5, <2>6
         DEF UnSoloLugar, S!Silencio, S!Perdido
  <1>7. ASSUME NEW v \in Existen, NEW lugar \in Nat, Sale(v, lugar)
        PROVE  UnSoloLugar'
    <2>1. /\ Guardando /\ v = operacion.victima /\ ConSuMarco'
          /\ respuesta.cod = "PAGINA_GUARDADA"
          /\ Existen' = Existen /\ Presentes' = Presentes \ {v}
          /\ guardadas' = guardadas /\ respuesta' = S!SinRespuesta
      BY <1>7 DEF Sale, Deja, S!RecibeRespuesta
    <2>2. ~Trayendo /\ ~Guardando' /\ ~Trayendo'
      BY <2>1 DEF Guardando, Trayendo, ConSuMarco
    <2> QED
      BY <1>2, <2>1, <2>2
         DEF UnSoloLugar, EnViaje, S!SinRespuesta, S!Silencio, S!Perdido
  <1>8. ASSUME NEW p \in Usadas \ Existen, NEW m \in Marcos,
               NEW libre \in BOOLEAN, Crea(p, m, libre)
        PROVE  UnSoloLugar'
    <2>1. ~Guardando /\ ~Trayendo /\ ~Guardando' /\ ~Trayendo'
      BY <1>8, NecesitaBien DEF Crea, Reemplazando, Guardando, ConSuMarco,
                                Trayendo
    <2>2. /\ Existen' = Existen \cup {p} /\ Presentes' = Presentes \cup {p}
          /\ UNCHANGED swapVars
      BY <1>8 DEF Crea
    <2> QED
      BY <1>2, <2>1, <2>2 DEF UnSoloLugar, EnViaje, swapVars, S!Silencio,
                              S!Perdido
  <1>9. ASSUME NEW p \in Existen \ Presentes, NEW m \in Marcos, Entra(p, m)
        PROVE  UnSoloLugar'
    BY <1>2, <1>9, EntraImposible
  <1>10. ASSUME NEW p \in Existen \ Presentes, NEW m \in Marcos,
               PidePagina(p, m)
        PROVE  UnSoloLugar'
    <2>1. /\ ~Guardando /\ ~Trayendo /\ Trayendo' /\ ~Guardando'
          /\ respuesta = S!SinRespuesta
      BY <1>10 DEF PidePagina, Guardando, ConSuMarco, Trayendo, IInvCuenta,
                   Conversacion
    <2>2. /\ Existen' = Existen /\ Presentes' = Presentes
          /\ guardadas' = guardadas /\ respuesta' = respuesta
          /\ p = Actual /\ Actual' = Actual
      BY <1>10 DEF PidePagina, S!PidePagina
    <2> QED
      BY <1>2, <2>1, <2>2 DEF UnSoloLugar, EnViaje, S!SinRespuesta,
                              S!Silencio, S!Perdido
  <1>11. ASSUME NEW p \in Existen \ Presentes, Vuelve(p)
        PROVE  UnSoloLugar'
    <2>1. ~Guardando /\ ~Guardando' /\ ~Trayendo'
      BY <1>11 DEF Vuelve, Guardando, Trayendo, Reemplazando
    <2>2. /\ Existen' = Existen /\ Presentes' = Presentes \cup {p}
          /\ guardadas' = guardadas /\ respuesta' = S!SinRespuesta
          /\ p = Actual /\ Trayendo /\ respuesta.cod = "RECEPCION_PAGINA"
      BY <1>11 DEF Vuelve, S!RecibeRespuesta
    <2> QED
      BY <1>2, <2>1, <2>2 DEF UnSoloLugar, EnViaje, S!SinRespuesta,
                              S!Silencio, S!Perdido
  <1> QED
    BY <1>3, <1>4, <1>5, <1>6, <1>7, <1>8, <1>9, <1>10, <1>11 DEF Paso

LEMMA LugarInductivo == Spec => [](IInvTipos /\ IInvCuenta /\ UnSoloLugar)
  <1>1. Init => UnSoloLugar
    <2> SUFFICES ASSUME Init PROVE UnSoloLugar
      OBVIOUS
    <2>1. Existen = {}
      BY UsadasBien DEF Init, Existen
    <2>2. ~Guardando /\ ~Trayendo
      BY DEF Init, Guardando, Trayendo, EnCurso
    <2> QED
      BY <2>1, <2>2 DEF Init, S!Init, UnSoloLugar, S!SinRespuesta, S!Silencio,
                        S!Perdido
  <1>2. IInvTipos /\ IInvCuenta /\ UnSoloLugar /\ [Next]_vars => UnSoloLugar'
    BY PasoBien, UnSoloLugarPaso
  <1> QED
    BY <1>1, <1>2, CuentaInductiva, PTL DEF Spec

\* As long as cruces = 0 and swap has lost no page, between requests a page of
\* memoria is in memory or in swap and not in both, through refusals,
\* replacements and ends of swap, for any processes, pages and configurations.
THEOREM UnSoloLugarSiempre == Spec => []EnUnSoloLugar
  <1>1. UnSoloLugar => EnUnSoloLugar
    BY DEF UnSoloLugar, EnUnSoloLugar, Existen, Presentes, EnViaje, Guardando,
           Trayendo, EnCurso
  <1> QED
    BY <1>1, LugarInductivo, PTL

\* As long as cruces = 0 and swap has lost no page, paginas_en_memoria is the
\* number of pages of the process in memory, though several functions change
\* both.
THEOREM CuentaSiempre == Spec => []CuentaExacta
  <1>1. IInvCuenta /\ UnSoloLugar => CuentaExacta
    BY DEF IInvCuenta, Cuenta, UnSoloLugar, CuentaExacta, Del
  <1> QED
    BY <1>1, LugarInductivo, PTL
-----------------------------------------------------------------------------
(* Each frame holds one page *)

\* The frame that the victim left, for the page that needs it.
EnTransito == IF ConSuMarco THEN operacion.marco ELSE Pagina(Actual).marco

\* The frames of its own that a process has taken: the first ones, one more
\* than it should at most.
Propios(p) == Base(p)..(Base(p) + Tomados(p) - 1)

\* With fixed assignment a frame may be given to two processes.
Compiten(p, q) == p # q /\ (Fija => p[1] = q[1])

SinCruces == cruces = 0 /\ (Fija => respuesta # S!Perdido)

MarcosDistintos ==
  SinCruces =>
    /\ \A p, q \in Presentes :
         Compiten(p, q) => Pagina(p).marco # Pagina(q).marco
    /\ ConMarco => \A p \in Presentes :
         (Fija => p[1] = tabla_paginas) => Pagina(p).marco # EnTransito
    /\ ~Fija => \A p \in Presentes : Pagina(p).marco \notin libres

MarcosPropios ==
  Fija /\ respuesta # S!Perdido =>
    /\ \A p \in Presentes : Pagina(p).marco \in Propios(p[1])
    /\ ConMarco => EnTransito \in Propios(tabla_paginas)
    /\ \A p \in Procesos : Tomados(p) <= config.MARCOS_POR_CARPINCHO + 1

MismosMarcos ==
  \A x \in Presentes \cap Presentes' : Pagina(x)'.marco = Pagina(x).marco

\* What a step does to the frames: nothing,
MarcosQuietos ==
  /\ UNCHANGED <<libres, paginas_en_memoria>>
  /\ Presentes' = Presentes /\ MismosMarcos
  /\ ConMarco' => /\ ConMarco /\ EnTransito' = EnTransito
                  /\ tabla_paginas' = tabla_paginas
  /\ ConMarco /\ respuesta # S!Perdido => ConMarco'

\* page v leaves its own for another,
DejaMarco(v) ==
  /\ ~ConMarco /\ ConMarco' /\ EnTransito' = Pagina(v).marco
  /\ Presentes' = Presentes \ {v} /\ MismosMarcos
  /\ UNCHANGED <<libres, tabla_paginas>>
  /\ paginas_en_memoria' = [paginas_en_memoria EXCEPT ![v[1]] = @ - 1]
  /\ Fija => v[1] = tabla_paginas

\* or page x takes frame m, the one in transit or another.
TomaMarco(x, m) ==
  /\ x[1] = tabla_paginas /\ tabla_paginas \in Procesos /\ EnCurso
  /\ Presentes' = Presentes \cup {x} /\ MismosMarcos
  /\ Pagina(x)'.marco = m
  /\ ~ConMarco' /\ tabla_paginas' = tabla_paginas
  /\ paginas_en_memoria' = [paginas_en_memoria EXCEPT ![x[1]] = @ + 1]
  /\ libres' \subseteq libres /\ (~Fija => m \notin libres')
  /\ ConMarco => m = EnTransito
  /\ ~ConMarco /\ ~Fija => m \in libres
  /\ ~ConMarco /\ Fija =>
       /\ m = Base(x[1]) + paginas_en_memoria[x[1]]
       /\ paginas_en_memoria[x[1]] <= config.MARCOS_POR_CARPINCHO

LEMMA PasoMarcos ==
  ASSUME IInvTipos, IInvCuenta, Paso, SinCruces
  PROVE  \/ MarcosQuietos
         \/ \E v \in Presentes : DejaMarco(v)
         \/ \E x \in Usadas \ Presentes, m \in Marcos : TomaMarco(x, m)
  <1>1. /\ Presentes \subseteq Existen /\ Existen \subseteq Usadas
        /\ ~(ConSuMarco /\ Trayendo)
        /\ ConMarco => Reemplazando
    BY PresentesExisten DEF Existen, ConSuMarco, Trayendo, ConMarco,
       Reemplazando
  <1>2. CASE Espera
    <2>1. /\ ConMarco' = ConMarco /\ EnTransito' = EnTransito
          /\ Presentes' = Presentes /\ \A x : Pagina(x)' = Pagina(x)
          /\ UNCHANGED <<libres, paginas_en_memoria, tabla_paginas>>
      BY <1>2 DEF Espera, tablas, Presentes, Pagina, ConMarco, ConSuMarco,
                  Trayendo, EnCurso, EnTransito, Actual, Toca
    <2> QED
      BY <2>1 DEF MarcosQuietos, MismosMarcos
  <1>3. CASE Sigue
    <2>1. /\ ~ConMarco' /\ (ConMarco => respuesta = S!Perdido)
          /\ Presentes' = Presentes /\ \A x : Pagina(x)' = Pagina(x)
          /\ UNCHANGED <<libres, paginas_en_memoria>>
      BY <1>3 DEF Sigue, Presentes, Pagina, ConMarco, Reemplazando
    <2> QED
      BY <2>1 DEF MarcosQuietos, MismosMarcos
  <1>4. CASE Accede
    <2>1. /\ Presentes' = Presentes
          /\ \A x \in Existen : Pagina(x)'.marco = Pagina(x).marco
          /\ UNCHANGED <<libres, paginas_en_memoria>>
      BY <1>4, AccedeVista DEF Accede, MismasPaginas
    <2>2. operacion.pc = "sigue" /\ ~Reemplazando'
      BY <1>4, AvanzaSigue, AccedeVista DEF Accede, Falta, EnPaso
    <2> QED
      BY <1>1, <2>1, <2>2 DEF MarcosQuietos, MismosMarcos, ConMarco,
                              Reemplazando, ConSuMarco, Trayendo
  <1>5. ASSUME NEW v \in Existen, NEW lugar \in Nat, Manda(v, lugar)
        PROVE  MarcosQuietos
    <2>1. EnCurso /\ operacion.pc = "sigue" /\ operacion \in Operaciones
      BY <1>5, NecesitaBien, TocaBien DEF Manda
    <2>2. operacion'.pc = "guarda"
      BY <1>5, <2>1 DEF Manda, Envia, Operaciones
    <2>3. /\ Presentes' = Presentes
          /\ \A x \in Existen : Pagina(x)'.marco = Pagina(x).marco
          /\ UNCHANGED <<libres, paginas_en_memoria>>
      BY <1>5 DEF Manda, MismasPaginas
    <2> QED
      BY <1>1, <2>1, <2>2, <2>3 DEF MarcosQuietos, MismosMarcos, ConMarco,
                                    ConSuMarco, Trayendo
  <1>6. ASSUME NEW v \in Existen, NEW lugar \in Nat, Sale(v, lugar)
        PROVE  v \in Presentes /\ DejaMarco(v)
    <2>1. v \in Presentes /\ (Fija => v[1] = tabla_paginas)
      BY <1>6, VictimaBien DEF Sale, SinCruces
    <2>2. /\ ~ConMarco /\ ConMarco' /\ EnTransito' = Pagina(v).marco
      BY <1>6 DEF Sale, ConMarco, EnTransito, Guardando, ConSuMarco, Trayendo
    <2>3. /\ Presentes' = Presentes \ {v}
          /\ \A x \in Existen : Pagina(x)'.marco = Pagina(x).marco
          /\ UNCHANGED <<libres, tabla_paginas>>
          /\ paginas_en_memoria' = [paginas_en_memoria EXCEPT ![v[1]] = @ - 1]
      BY <1>6 DEF Sale, Deja
    <2> QED
      BY <1>1, <2>1, <2>2, <2>3 DEF DejaMarco, MismosMarcos
  <1>7. ASSUME NEW p \in Usadas \ Existen, NEW m \in Marcos,
               NEW libre \in BOOLEAN, Crea(p, m, libre)
        PROVE  p \in Usadas \ Presentes /\ TomaMarco(p, m)
    <2>1. m # -1
      BY ConfigBien DEF Marcos, IInvTipos, Tipos
    <2>2. /\ EnCurso /\ paginas_en_memoria \in [Procesos -> Int]
          /\ tabla_paginas \in Procesos
      BY <1>7 DEF Crea, IInvTipos, Tipos
    <2>3. CASE libre
      <3>1. GetMarco = m /\ ~ConMarco
        BY <1>7, <2>3, NecesitaBien DEF Crea, ConMarco, ConSuMarco, Trayendo
      <3>2. ~Fija => m \in libres
        BY <2>1, <2>2, <3>1, GetMarcoBien DEF IInvCuenta
      <3>3. ASSUME Fija
            PROVE  /\ m = Base(p[1]) + paginas_en_memoria[p[1]]
                   /\ paginas_en_memoria[p[1]] <= config.MARCOS_POR_CARPINCHO
        <4>1. p[1] = tabla_paginas
          BY <1>7 DEF Crea
        <4>2. /\ paginas_en_memoria[tabla_paginas] \in Nat
              /\ config.MARCOS_POR_CARPINCHO \in Nat
          BY <3>3, <2>2, FinitasDel, FS_CardinalityType, ConfigBien
             DEF SinCruces, IInvCuenta, Cuenta, IInvTipos, Tipos
        <4>3. ~(paginas_en_memoria[tabla_paginas]
                  > config.MARCOS_POR_CARPINCHO)
          BY <2>1, <2>2, <3>1, <3>3, GetMarcoBien DEF IInvCuenta
        <4>4. /\ paginas_en_memoria[tabla_paginas]
                   \in 0..config.MARCOS_POR_CARPINCHO
              /\ paginas_en_memoria[tabla_paginas]
                   <= config.MARCOS_POR_CARPINCHO
          BY <4>2, <4>3
        <4> QED
          BY <2>1, <2>2, <3>1, <3>3, <4>1, <4>4, GetMarcoBien DEF IInvCuenta
      <3> QED
        BY <1>1, <1>7, <3>1, <3>2, <3>3
           DEF Crea, TomaMarco, MismosMarcos, ConMarco, Reemplazando
    <2>4. CASE ~libre
      BY <1>1, <1>7, <2>4
         DEF Crea, TomaMarco, MismosMarcos, ConMarco, Reemplazando, EnTransito
    <2> QED
      BY <1>1, <2>3, <2>4
  <1>8. ASSUME NEW p \in Existen \ Presentes, Vuelve(p)
        PROVE  \E x \in Usadas \ Presentes, m \in Marcos : TomaMarco(x, m)
    <2>1. PICK m \in Marcos : m = Pagina(p).marco
      BY ExistenBien DEF IInvTipos, DePagina
    <2>2. /\ ConMarco /\ ~ConMarco' /\ EnTransito = m
      BY <1>1, <1>8, <2>1
         DEF Vuelve, ConMarco, Reemplazando, EnTransito
    <2>3. ~Fija => m \notin libres
      BY <1>1, <2>2 DEF IInvCuenta, SinHuecos
    <2>4. TomaMarco(p, m)
      BY <1>1, <1>8, <2>1, <2>2, <2>3 DEF Vuelve, TomaMarco, MismosMarcos
    <2> QED
      BY <1>1, <2>4
  <1>9. ASSUME NEW p \in Existen \ Presentes, NEW m \in Marcos,
               PidePagina(p, m)
        PROVE  MarcosQuietos
    <2>1. /\ ConMarco /\ ConMarco' /\ ~ConSuMarco'
      BY <1>9 DEF PidePagina, ConMarco, ConSuMarco, Trayendo
    <2>2. EnTransito = m /\ EnTransito' = Pagina(p)'.marco
      BY <1>9, <2>1 DEF PidePagina, EnTransito, Pagina
    <2>3. /\ UNCHANGED <<libres, paginas_en_memoria, tabla_paginas>>
          /\ Presentes' = Presentes
          /\ \A x \in Existen :
               Pagina(x)'.marco = IF x = p THEN m ELSE Pagina(x).marco
      BY <1>9 DEF PidePagina
    <2> QED
      BY <1>1, <2>1, <2>2, <2>3 DEF MarcosQuietos, MismosMarcos
  <1>10. \A p \in Existen \ Presentes, m \in Marcos : ~Entra(p, m)
    BY EntraImposible DEF SinCruces
  <1> QED
    BY <1>2, <1>3, <1>4, <1>5, <1>6, <1>7, <1>8, <1>9, <1>10 DEF Paso

LEMMA MarcosDistintosPaso ==
  ASSUME IInvTipos, IInvCuenta, MarcosDistintos, MarcosPropios, Paso
  PROVE  MarcosDistintos'
  <1> SUFFICES ASSUME SinCruces'
               PROVE  /\ \A p, q \in Presentes' :
                           Compiten(p, q) => Pagina(p)'.marco # Pagina(q)'.marco
                      /\ ConMarco' => \A p \in Presentes' :
                           (Fija => p[1] = tabla_paginas')
                             => Pagina(p)'.marco # EnTransito'
                      /\ ~Fija => \A p \in Presentes' :
                           Pagina(p)'.marco \notin libres'
    BY ConfigFija DEF MarcosDistintos, Compiten
  <1>1. SinCruces
    BY CrucesQuedan, PerdidoQueda, ConfigFija
       DEF SinCruces, IInvCuenta, ListasPropias
  <1>2. /\ \A p, q \in Presentes :
             Compiten(p, q) => Pagina(p).marco # Pagina(q).marco
        /\ ConMarco => \A p \in Presentes :
             (Fija => p[1] = tabla_paginas) => Pagina(p).marco # EnTransito
        /\ ~Fija => \A p \in Presentes : Pagina(p).marco \notin libres
    BY <1>1 DEF MarcosDistintos
  <1>3. CASE MarcosQuietos
    BY <1>2, <1>3 DEF MarcosQuietos, MismosMarcos
  <1>4. ASSUME NEW v \in Presentes, DejaMarco(v)
        PROVE  /\ \A p, q \in Presentes' :
                    Compiten(p, q) => Pagina(p)'.marco # Pagina(q)'.marco
               /\ ConMarco' => \A p \in Presentes' :
                    (Fija => p[1] = tabla_paginas')
                      => Pagina(p)'.marco # EnTransito'
               /\ ~Fija => \A p \in Presentes' : Pagina(p)'.marco \notin libres'
    <2>1. \A p \in Presentes' : (Fija => p[1] = tabla_paginas') =>
            Compiten(p, v) /\ p \in Presentes
      BY <1>4 DEF DejaMarco, Compiten
    <2> QED
      BY <1>2, <1>4, <2>1 DEF DejaMarco, MismosMarcos
  <1>5. ASSUME NEW x \in Usadas \ Presentes, NEW m \in Marcos, TomaMarco(x, m)
        PROVE  /\ \A p, q \in Presentes' :
                    Compiten(p, q) => Pagina(p)'.marco # Pagina(q)'.marco
               /\ ConMarco' => \A p \in Presentes' :
                    (Fija => p[1] = tabla_paginas')
                      => Pagina(p)'.marco # EnTransito'
               /\ ~Fija => \A p \in Presentes' : Pagina(p)'.marco \notin libres'
    <2>1. ASSUME NEW p \in Presentes, Fija => p[1] = tabla_paginas
          PROVE  Pagina(p).marco # m
      <3>1. CASE ConMarco
        BY <1>2, <1>5, <2>1, <3>1 DEF TomaMarco
      <3>2. CASE ~ConMarco /\ ~Fija
        BY <1>2, <1>5, <3>2 DEF TomaMarco
      <3>3. CASE ~ConMarco /\ Fija
        <4>1. /\ p[1] = x[1] /\ x[1] \in Procesos
              /\ m = Base(x[1]) + paginas_en_memoria[x[1]]
          BY <1>5, <2>1, <3>3 DEF TomaMarco
        <4>2. Pagina(p).marco \in Propios(x[1])
          BY <1>1, <3>3, <4>1 DEF MarcosPropios, SinCruces
        <4>3. Tomados(x[1]) = paginas_en_memoria[x[1]]
          BY <3>3, <4>1 DEF Tomados, IInvTipos, Tipos
        <4>4. Base(x[1]) \in Nat /\ paginas_en_memoria[x[1]] \in Int
          <5>1. x[1] \in Range(tabla_procesos)
            BY <4>1, PresentesExisten DEF IInvCuenta, Tablas
          <5> QED
            BY <4>1, <5>1, BaseNatural DEF IInvTipos, Tipos
        <4> HIDE DEF Base
        <4> QED
          BY <4>1, <4>2, <4>3, <4>4 DEF Propios
      <3> QED
        BY <3>1, <3>2, <3>3
    <2>2. /\ Presentes' = Presentes \cup {x} /\ Pagina(x)'.marco = m
          /\ \A p \in Presentes : Pagina(p)'.marco = Pagina(p).marco
          /\ x[1] = tabla_paginas /\ ~ConMarco'
          /\ libres' \subseteq libres /\ (~Fija => m \notin libres')
      BY <1>5 DEF TomaMarco, MismosMarcos
    <2>3. \A p, q \in Presentes' :
            Compiten(p, q) => Pagina(p)'.marco # Pagina(q)'.marco
      BY <1>2, <2>1, <2>2 DEF Compiten
    <2> QED
      BY <1>2, <2>2, <2>3
  <1> QED
    BY <1>1, <1>3, <1>4, <1>5, PasoMarcos

\* A process never has fewer frames taken, while its pages come and go.
LEMMA TomadosCrecen ==
  ASSUME IInvTipos, IInvCuenta, Fija, respuesta # S!Perdido,
         respuesta' # S!Perdido,
         \/ MarcosQuietos
         \/ \E v \in Presentes : DejaMarco(v)
         \/ \E x \in Usadas \ Presentes, m \in Marcos : TomaMarco(x, m),
         NEW p \in Procesos
  PROVE  /\ Tomados(p) \in Int /\ Tomados(p)' \in Int
         /\ Tomados(p)' >= Tomados(p)
         /\ \A x, m : TomaMarco(x, m) /\ ~ConMarco /\ x[1] = p =>
              /\ Tomados(p) = paginas_en_memoria[p]
              /\ Tomados(p)' = paginas_en_memoria[p] + 1
         /\ ~(\E x, m : TomaMarco(x, m) /\ ~ConMarco /\ x[1] = p) =>
              Tomados(p)' = Tomados(p)
  <1>1. paginas_en_memoria \in [Procesos -> Int]
    BY DEF IInvTipos, Tipos
  <1>2. CASE MarcosQuietos
    <2>1. Tomados(p)' = Tomados(p) /\ Tomados(p) \in Int
      BY <1>1, <1>2 DEF MarcosQuietos, Tomados
    <2>2. \A x, m : TomaMarco(x, m) => x[1] # p
      BY <1>1, <1>2 DEF MarcosQuietos, TomaMarco
    <2> QED
      BY <2>1, <2>2
  <1>3. ASSUME NEW v \in Presentes, DejaMarco(v)
        PROVE  /\ Tomados(p)' = Tomados(p) /\ Tomados(p) \in Int
               /\ \A x, m : ~TomaMarco(x, m)
    BY <1>1, <1>3 DEF DejaMarco, Tomados, TomaMarco
  <1>4. ASSUME NEW x, NEW m, TomaMarco(x, m)
        PROVE  /\ Tomados(p) \in Int /\ Tomados(p)' \in Int
               /\ ConMarco \/ x[1] # p => Tomados(p)' = Tomados(p)
               /\ ~ConMarco /\ x[1] = p =>
                    /\ Tomados(p) = paginas_en_memoria[p]
                    /\ Tomados(p)' = paginas_en_memoria[p] + 1
    BY <1>1, <1>4 DEF TomaMarco, Tomados
  <1>5. ASSUME NEW x, NEW m, TomaMarco(x, m)
        PROVE  Tomados(p)' >= Tomados(p)
    BY <1>4, <1>5
  <1> QED
    BY <1>2, <1>3, <1>4, <1>5

LEMMA MarcosPropiosPaso ==
  ASSUME IInvTipos, IInvCuenta, MarcosPropios, Paso
  PROVE  MarcosPropios'
  <1> SUFFICES ASSUME Fija, respuesta' # S!Perdido
               PROVE  /\ \A p \in Presentes' :
                           Pagina(p)'.marco \in Propios(p[1])'
                      /\ ConMarco' => EnTransito' \in Propios(tabla_paginas)'
                      /\ \A p \in Procesos : Tomados(p)' <=
                           config.MARCOS_POR_CARPINCHO + 1
    BY ConfigFija DEF MarcosPropios, S!Perdido
  <1>1. respuesta # S!Perdido /\ SinCruces
    BY PerdidoQueda DEF SinCruces, IInvCuenta, ListasPropias
  <1>2. /\ \A p \in Presentes : Pagina(p).marco \in Propios(p[1])
        /\ ConMarco => EnTransito \in Propios(tabla_paginas)
        /\ \A p \in Procesos : Tomados(p) <= config.MARCOS_POR_CARPINCHO + 1
    BY <1>1 DEF MarcosPropios
  <1>3. \/ MarcosQuietos
        \/ \E v \in Presentes : DejaMarco(v)
        \/ \E x \in Usadas \ Presentes, m \in Marcos : TomaMarco(x, m)
    BY <1>1, PasoMarcos
  <1>4. \A p \in Procesos :
          /\ Tomados(p) \in Int /\ Tomados(p)' \in Int
          /\ Tomados(p)' >= Tomados(p)
    BY <1>1, <1>3, TomadosCrecen
  <1>5. \A p \in Range(tabla_procesos) :
          p \in Procesos /\ Base(p) \in Nat /\ Base(p)' = Base(p)
    <2>1. Range(tabla_procesos) \subseteq Procesos
      BY ElementOfSeq DEF Range, IInvTipos, Tipos
    <2>2. \A p \in Range(tabla_procesos) : Base(p)' = Base(p)
      BY TablasPaso DEF IInvCuenta
    <2> QED
      BY <2>1, <2>2, BaseNatural
  <1>6. ASSUME NEW p \in Range(tabla_procesos)
        PROVE  Propios(p) \subseteq Propios(p)'
    <2>1. PICK b \in Nat, t \in Int, u \in Int :
            /\ b = Base(p) /\ b = Base(p)' /\ t = Tomados(p)
            /\ u = Tomados(p)' /\ u >= t
      BY <1>4, <1>5
    <2>2. b..(b + t - 1) \subseteq b..(b + u - 1)
      BY <2>1
    <2> QED
      BY <2>1, <2>2 DEF Propios
  <1>7. \A p \in Presentes : p[1] \in Range(tabla_procesos)
    BY PresentesExisten DEF IInvCuenta, Tablas
  <1>8. \A p \in Presentes' : p \in Presentes =>
          Pagina(p)'.marco \in Propios(p[1])'
    BY <1>2, <1>3, <1>6, <1>7
       DEF MismosMarcos, MarcosQuietos, DejaMarco, TomaMarco
  <1>9. \A p \in Presentes' : p \notin Presentes =>
          Pagina(p)'.marco \in Propios(p[1])'
    <2> SUFFICES ASSUME NEW p \in Presentes' \ Presentes
                 PROVE  Pagina(p)'.marco \in Propios(p[1])'
      OBVIOUS
    <2>1. PICK m \in Marcos : TomaMarco(p, m)
      BY <1>3 DEF MarcosQuietos, DejaMarco, TomaMarco
    <2>2. PICK q \in Procesos : q = p[1] /\ q = tabla_paginas
      BY <2>1 DEF TomaMarco
    <2>3. q \in Range(tabla_procesos)
      BY <2>1, <2>2 DEF TomaMarco, IInvCuenta, Tablas
    <2>4. CASE ConMarco
      BY <1>2, <1>6, <2>1, <2>2, <2>3, <2>4 DEF TomaMarco
    <2>5. CASE ~ConMarco
      <3>1. PICK b \in Nat, n \in Int :
              /\ b = Base(q) /\ b = Base(q)' /\ n = paginas_en_memoria[q]
        BY <1>5, <2>2, <2>3 DEF IInvTipos, Tipos
      <3>2. Tomados(q)' = n + 1 /\ n \in Nat
        <4>1. Tomados(q)' = n + 1
          BY <1>1, <1>3, <2>1, <2>2, <2>5, <3>1, TomadosCrecen
        <4>2. n \in Nat
          BY <1>1, <2>2, <3>1, FinitasDel, FS_CardinalityType
             DEF IInvCuenta, Cuenta, SinCruces
        <4> QED
          BY <4>1, <4>2
      <3>3. b + n \in b..(b + (n + 1) - 1)
        BY <3>2
      <3>4. Pagina(p)'.marco = b + n
        BY <2>1, <2>2, <2>5, <3>1 DEF TomaMarco
      <3> QED
        BY <2>2, <3>1, <3>2, <3>3, <3>4 DEF Propios
    <2> QED
      BY <2>4, <2>5
  <1>10. ConMarco' => EnTransito' \in Propios(tabla_paginas)'
    <2> SUFFICES ASSUME ConMarco' PROVE EnTransito' \in Propios(tabla_paginas)'
      OBVIOUS
    <2>1. PICK q : q = tabla_paginas'
      OBVIOUS
    <2>2. CASE MarcosQuietos
      <3>1. ConMarco /\ EnTransito' = EnTransito /\ q = tabla_paginas
        BY <2>1, <2>2 DEF MarcosQuietos
      <3>2. q \in Range(tabla_procesos)
        BY <3>1 DEF IInvCuenta, Tablas, ConMarco, ConSuMarco, Trayendo
      <3> QED
        BY <1>2, <1>6, <2>1, <3>1, <3>2
    <2>3. ASSUME NEW v \in Presentes, DejaMarco(v)
          PROVE  EnTransito' \in Propios(tabla_paginas)'
      <3>1. EnTransito' = Pagina(v).marco /\ q = v[1]
        BY <2>1, <2>3 DEF DejaMarco
      <3> QED
        BY <1>2, <1>6, <1>7, <2>1, <3>1
    <2> QED
      BY <1>3, <2>2, <2>3 DEF TomaMarco
  <1>11. \A p \in Procesos :
           Tomados(p)' <= config.MARCOS_POR_CARPINCHO + 1
    <2> TAKE p \in Procesos
    <2>1. PICK k \in Nat : k = config.MARCOS_POR_CARPINCHO
      BY ConfigBien DEF IInvTipos, Tipos
    <2>2. CASE \E x, m : TomaMarco(x, m) /\ ~ConMarco /\ x[1] = p
      <3>1. PICK n \in Int : n = paginas_en_memoria[p]
        BY DEF IInvTipos, Tipos
      <3>2. Tomados(p)' = n + 1
        BY <1>1, <1>3, <2>2, <3>1, TomadosCrecen
      <3>3. n <= k
        BY <2>1, <2>2, <3>1 DEF TomaMarco
      <3> QED
        BY <2>1, <3>2, <3>3
    <2>3. CASE ~(\E x, m : TomaMarco(x, m) /\ ~ConMarco /\ x[1] = p)
      BY <1>1, <1>2, <1>3, <2>3, TomadosCrecen
    <2> QED
      BY <2>2, <2>3
  <1> QED
    BY <1>8, <1>9, <1>10, <1>11

LEMMA MarcosInductivos ==
  Spec => [](IInvTipos /\ IInvCuenta /\ MarcosDistintos /\ MarcosPropios)
  <1>1. Init => MarcosDistintos /\ MarcosPropios
    <2> SUFFICES ASSUME Init PROVE MarcosDistintos /\ MarcosPropios
      OBVIOUS
    <2>1. Existen = {} /\ Presentes = {}
      BY UsadasBien DEF Init, Existen, Presentes
    <2>2. ~ConMarco /\ \A p \in Procesos : Tomados(p) = 0
      BY DEF Init, ConMarco, ConSuMarco, Trayendo, EnCurso, Tomados
    <2>3. config.MARCOS_POR_CARPINCHO \in Nat
      BY ConfigBien, InitTipa DEF IInvTipos, Tipos
    <2> QED
      BY <2>1, <2>2, <2>3 DEF MarcosDistintos, MarcosPropios
  <1>2. IInvTipos /\ IInvCuenta /\ MarcosDistintos /\ MarcosPropios
          /\ [Next]_vars => MarcosDistintos' /\ MarcosPropios'
    BY PasoBien, MarcosDistintosPaso, MarcosPropiosPaso
  <1> QED
    BY <1>1, <1>2, CuentaInductiva, PTL DEF Spec

\* Two pages in memory never share a frame, for any processes, pages and
\* configurations: with dynamic assignment as long as actualizarLRU took out
\* no page of another; with fixed assignment those of a process, in its frames
\* and the first of the next one, while swap loses nothing.
THEOREM MarcoDeUnoSiempre == Spec => []MarcoDeUno
  <1>1. IInvTipos /\ IInvCuenta /\ MarcosDistintos /\ MarcosPropios
          /\ UnSoloLugar => MarcoDeUno
    <2> SUFFICES ASSUME IInvTipos, IInvCuenta, MarcosDistintos, MarcosPropios,
                        UnSoloLugar
                 PROVE  MarcoDeUno
      OBVIOUS
    <2>1. ~Fija /\ cruces = 0 =>
            \A p, q \in Presentes : p # q => Pagina(p).marco # Pagina(q).marco
      BY DEF MarcosDistintos, SinCruces, Compiten
    <2>2. Fija /\ ~perdidas => SinCruces
      BY DEF IInvCuenta, ListasPropias, UnSoloLugar, SinCruces
    <2>3. Fija /\ ~perdidas =>
            \A p, q \in Presentes :
              p # q /\ p[1] = q[1] => Pagina(p).marco # Pagina(q).marco
      BY <2>2 DEF MarcosDistintos, Compiten
    <2>4. ASSUME Fija, ~perdidas, NEW p \in Presentes, NEW i, i = Lugar(p[1]) - 1
          PROVE  Pagina(p).marco \in
                   (i * config.MARCOS_POR_CARPINCHO)
                     ..((i + 1) * config.MARCOS_POR_CARPINCHO)
      <3>1. p[1] \in Range(tabla_procesos) /\ p[1] \in Procesos
        BY PresentesExisten, UsadasBien DEF IInvCuenta, Tablas, Presentes
      <3>2. PICK t \in Seq(Procesos) : t = tabla_procesos /\ p[1] \in Range(t)
        BY <3>1 DEF IInvTipos, Tipos
      <3>3. Lugar(p[1]) \in 1..Len(t)
        BY <3>2, LugarEnTabla, LenProperties DEF Lugar
      <3>4. PICK k \in Nat, u \in Int :
              /\ k = config.MARCOS_POR_CARPINCHO /\ u = Tomados(p[1])
              /\ u <= k + 1 /\ i \in Nat
        <4>1. config.MARCOS_POR_CARPINCHO \in Nat /\ i \in Nat
          <5>1. Len(t) \in Nat
            BY <3>2, LenProperties
          <5>2. i \in Nat
            BY <2>4, <3>3, <5>1
          <5> QED
            BY <5>2, ConfigBien DEF IInvTipos, Tipos
        <4>2. Tomados(p[1]) \in Int
          BY <3>1 DEF Tomados, IInvTipos, Tipos
        <4>3. Tomados(p[1]) <= config.MARCOS_POR_CARPINCHO + 1
          BY <2>2, <2>4, <3>1 DEF MarcosPropios, SinCruces
        <4> QED
          BY <4>1, <4>2, <4>3
      <3>5. Pagina(p).marco \in Propios(p[1])
        BY <2>2, <2>4 DEF MarcosPropios, SinCruces
      <3>6. Pagina(p).marco \in (i * k)..(i * k + u - 1)
        BY <2>4, <3>4, <3>5 DEF Propios, Base
      <3>7. i * k \in Nat /\ (i + 1) * k = i * k + k
        BY <3>4
      <3>8. PICK b \in Nat : b = i * k
        BY <3>7
      <3>9. b..(b + u - 1) \subseteq b..(b + k)
        BY <3>4
      <3> QED
        BY <3>4, <3>6, <3>7, <3>8, <3>9
    <2> QED
      BY <2>1, <2>3, <2>4 DEF MarcoDeUno
  <1> QED
    BY <1>1, MarcosInductivos, LugarInductivo, PTL
-----------------------------------------------------------------------------
(* The clock *)

\* While swap lives the clock of a process holds a page once: without an
\* answer of swap no page that was left comes in again.
RelojUnico ==
  Clock /\ Fija /\ respuesta # S!Perdido =>
    \A p \in Procesos : Unica(lista_reemplazo[p])

\* When the last page of the clock leaves, the hand goes beyond it.
UltimoPresente ==
  Clock /\ Fija =>
    \A p \in Procesos :
      ultimo_Clock[p] < Len(lista_reemplazo[p]) =>
        lista_reemplazo[p][Len(lista_reemplazo[p])] \in Presentes

\* What a step does to a clock: nothing,
RelojQuieto ==
  UNCHANGED <<lista_reemplazo, ultimo_Clock>> /\ Presentes \subseteq Presentes'

\* or page p comes in
EntraAlReloj(p) ==
  /\ lista_reemplazo' = AgregaAsignacion(p, TRUE) /\ tabla_paginas \in Procesos
  /\ UNCHANGED ultimo_Clock /\ Presentes' = Presentes \cup {p}
  /\ respuesta' # S!Perdido => p \notin Existen

\* or page v leaves.
SaleDelReloj(v, lugar) ==
  /\ tabla_paginas \in Procesos /\ v[1] = tabla_paginas
  /\ ultimo_Clock[tabla_paginas] < Len(lista_reemplazo[tabla_paginas])
  /\ lugar \in DOMAIN lista_reemplazo[tabla_paginas]
  /\ v = lista_reemplazo[tabla_paginas][lugar]
  /\ ultimo_Clock' = [ultimo_Clock EXCEPT ![tabla_paginas] = lugar]
  /\ UNCHANGED lista_reemplazo /\ Presentes' = Presentes \ {v}
  /\ respuesta # S!Perdido

LEMMA PasoReloj ==
  ASSUME IInvTipos, IInvCuenta, Paso, Clock, Fija
  PROVE  \/ RelojQuieto
         \/ \E p \in Usadas : EntraAlReloj(p)
         \/ \E v \in Existen, lugar \in Nat : SaleDelReloj(v, lugar)
  <1>1. CASE Espera \/ Sigue
    BY <1>1 DEF Espera, Sigue, tablas, reemplazo, Presentes, Pagina,
                RelojQuieto
  <1>2. CASE Accede
    BY <1>2, AccedeVista DEF Accede, MismasPaginas, RelojQuieto
  <1>3. ASSUME NEW v, NEW lugar, Manda(v, lugar)
        PROVE  RelojQuieto
    BY <1>3 DEF Manda, MismasPaginas, reemplazo, RelojQuieto
  <1>4. ASSUME NEW v \in Existen, NEW lugar \in Nat, Sale(v, lugar)
        PROVE  SaleDelReloj(v, lugar)
    <2>1. Lista = tabla_paginas
      BY DEF Lista
    <2>2. v[1] = tabla_paginas
      BY <1>4, VictimaBien DEF Sale
    <2>3. respuesta # S!Perdido
      BY <1>4 DEF Sale, S!Perdido
    <2> QED
      BY <1>4, <2>1, <2>2, <2>3 DEF Sale, Deja, VictimaDe, SaleDelReloj
  <1>5. ASSUME NEW p \in Usadas \ Existen, NEW m, NEW libre \in BOOLEAN,
               Crea(p, m, libre)
        PROVE  RelojQuieto \/ EntraAlReloj(p)
    <2>1. CASE libre
      <3>1. AgregaAsignacion(p, libre) = AgregaAsignacion(p, TRUE)
        BY <2>1
      <3> QED
        BY <1>5, <3>1 DEF Crea, EntraAlReloj
    <2>2. CASE ~libre
      BY <1>5, <2>2 DEF Crea, AgregaAsignacion, RelojQuieto
    <2> QED
      BY <2>1, <2>2
  <1>6. ASSUME NEW p \in Existen \ Presentes, NEW m \in Marcos, Entra(p, m)
        PROVE  EntraAlReloj(p)
    <2>1. respuesta = S!Perdido /\ respuesta' = respuesta
      BY <1>6, EntraImposible DEF Entra, swapVars
    <2> QED
      BY <1>6, <2>1 DEF Entra, EntraAlReloj, S!Perdido
  <1>7. ASSUME NEW p, NEW m, PidePagina(p, m) \/ Vuelve(p)
        PROVE  RelojQuieto
    BY <1>7 DEF PidePagina, Vuelve, AgregaAsignacion, reemplazo, RelojQuieto
  <1>8. Existen \subseteq Usadas
    BY DEF Existen
  <1> QED
    BY <1>1, <1>2, <1>3, <1>4, <1>5, <1>6, <1>7, <1>8 DEF Paso

LEMMA RelojPaso ==
  ASSUME IInvTipos, IInvCuenta, RelojUnico, UltimoPresente, Paso
  PROVE  RelojUnico' /\ UltimoPresente'
  <1> SUFFICES ASSUME Clock, Fija, NEW p \in Procesos
               PROVE  /\ respuesta' # S!Perdido => Unica(lista_reemplazo'[p])
                      /\ ultimo_Clock'[p] < Len(lista_reemplazo'[p]) =>
                           lista_reemplazo'[p][Len(lista_reemplazo'[p])]
                             \in Presentes'
    BY ConfigFija DEF RelojUnico, UltimoPresente, S!Perdido, Unica, IsInjective
  <1>1. respuesta' # S!Perdido => respuesta # S!Perdido
    BY PerdidoQueda DEF IInvCuenta
  <1>2. PICK s \in Seq(Usadas), n \in Nat :
          /\ s = lista_reemplazo[p] /\ n = Len(s) /\ DOMAIN s = 1..n
          /\ respuesta # S!Perdido => Unica(s)
          /\ ultimo_Clock[p] < n => s[n] \in Presentes
    <2>1. lista_reemplazo[p] \in Seq(Usadas)
      BY DEF IInvTipos, Tipos
    <2> QED
      BY <2>1, LenProperties DEF RelojUnico, UltimoPresente
  <1>3. ultimo_Clock \in [Procesos -> Nat]
    BY DEF IInvTipos, Tipos
  <1>4. CASE RelojQuieto
    BY <1>1, <1>2, <1>4 DEF RelojQuieto
  <1>5. ASSUME NEW x \in Usadas, EntraAlReloj(x)
        PROVE  /\ respuesta' # S!Perdido => Unica(lista_reemplazo'[p])
               /\ ultimo_Clock'[p] < Len(lista_reemplazo'[p]) =>
                    lista_reemplazo'[p][Len(lista_reemplazo'[p])] \in Presentes'
    <2>1. CASE p = Lista
      <3>1. /\ lista_reemplazo'[p] = Append(s, x)
            /\ Unica(s) /\ x \notin Range(s) => Unica(lista_reemplazo'[p])
        BY <1>2, <1>5, <2>1, ListaAgrega DEF EntraAlReloj
      <3>2. lista_reemplazo'[p][Len(lista_reemplazo'[p])] = x
        BY <1>2, <3>1, AppendProperties
      <3>3. Range(s) \subseteq Existen
        BY <1>2 DEF IInvTipos, Tipos
      <3> QED
        BY <1>1, <1>2, <1>5, <3>1, <3>2, <3>3 DEF EntraAlReloj
    <2>2. CASE p # Lista
      <3>1. lista_reemplazo'[p] = s
        BY ZenonT(40), <1>2, <1>5, <2>2, ListaAgrega DEF EntraAlReloj
      <3> QED
        BY <1>1, <1>2, <1>5, <3>1 DEF EntraAlReloj
    <2> QED
      BY <2>1, <2>2
  <1>6. ASSUME NEW v \in Existen, NEW lugar \in Nat, SaleDelReloj(v, lugar)
        PROVE  /\ respuesta' # S!Perdido => Unica(lista_reemplazo'[p])
               /\ ultimo_Clock'[p] < Len(lista_reemplazo'[p]) =>
                    lista_reemplazo'[p][Len(lista_reemplazo'[p])] \in Presentes'
    <2>1. lista_reemplazo'[p] = s /\ Unica(s) /\ Presentes' = Presentes \ {v}
      BY <1>2, <1>6 DEF SaleDelReloj
    <2>2. CASE p = tabla_paginas
      <3>1. /\ ultimo_Clock'[p] = lugar /\ lugar \in 1..n /\ v = s[lugar]
        BY <1>2, <1>3, <1>6, <2>2 DEF SaleDelReloj
      <3>2. lugar < n => s[n] # v
        BY <1>2, <2>1, <3>1 DEF Unica
      <3>3. s[n] \in Presentes
        BY <1>2, <1>6, <2>2 DEF SaleDelReloj
      <3> QED
        BY <1>2, <2>1, <3>1, <3>2, <3>3
    <2>3. CASE p # tabla_paginas
      <3>1. ultimo_Clock'[p] = ultimo_Clock[p] /\ v[1] # p
        BY <1>3, <1>6, <2>3 DEF SaleDelReloj
      <3>2. \A q \in Range(s) : q[1] = p
        BY <1>2 DEF IInvCuenta, ListasPropias
      <3>3. n > 0 => s[n] # v
        BY <1>2, <3>1, <3>2 DEF Range
      <3> QED
        BY <1>2, <1>3, <2>1, <3>1, <3>3
    <2> QED
      BY <2>1, <2>2, <2>3
  <1> QED
    BY <1>4, <1>5, <1>6, PasoReloj

\* The clock never goes round for ever, for any processes, pages and
\* configurations: the last page of a clock is in memory, or the hand is
\* beyond it and memoria falls.
THEOREM RelojSiempre == Spec => []RelojConVictima
  <1>1. Init => RelojUnico /\ UltimoPresente
    <2> SUFFICES ASSUME Init PROVE RelojUnico /\ UltimoPresente
      OBVIOUS
    <2>1. \A p \in Procesos :
            /\ lista_reemplazo[p] = <<>> /\ ultimo_Clock[p] \in Nat
      BY InitTipa DEF Init, IInvTipos, Tipos
    <2> QED
      BY <2>1 DEF RelojUnico, UltimoPresente, Unica
  <1>2. IInvTipos /\ IInvCuenta /\ RelojUnico /\ UltimoPresente /\ [Next]_vars
          => RelojUnico' /\ UltimoPresente'
    BY PasoBien, RelojPaso
  <1>3. IInvTipos /\ UltimoPresente => RelojConVictima
    <2> SUFFICES ASSUME IInvTipos, UltimoPresente, Necesita, Clock, Fija,
                        ultimo_Clock[tabla_paginas]
                          < Len(lista_reemplazo[Lista]),
                        Gira.lugar = 0
                 PROVE  FALSE
      BY DEF RelojConVictima
    <2>1. EnCurso /\ tabla_paginas \in Procesos /\ Lista = tabla_paginas
      BY NecesitaBien, TocaBien DEF Lista
    <2>2. PICK l \in Seq(Usadas) :
            l = lista_reemplazo[Lista] /\ Range(l) \subseteq Existen
      BY <2>1 DEF IInvTipos, Tipos
    <2>3. /\ l[Len(l)] \in Presentes
          /\ ultimo_Clock[tabla_paginas] \in Nat
          /\ ultimo_Clock[tabla_paginas] < Len(l)
      BY <2>1, <2>2 DEF UltimoPresente, IInvTipos, Tipos
    <2>4. \A i \in DOMAIN Vuelta : l[Vuelta[i]] \notin Presentes
      BY <2>1, <2>2, GiraBien DEF IInvTipos
    <2>5. \E i \in DOMAIN Vuelta : Vuelta[i] = Len(l)
      BY <2>2, <2>3, VueltaBien
    <2> QED
      BY <2>3, <2>4, <2>5
  <1> QED
    BY <1>1, <1>2, <1>3, CuentaInductiva, PTL DEF Spec
=============================================================================
