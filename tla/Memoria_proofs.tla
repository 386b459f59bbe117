--------------------------- MODULE Memoria_proofs ---------------------------
(***************************************************************************)
(* Proofs about Memoria, for any processes, configurations and pages, with *)
(* both assignments, LRU and the clock.                                    *)
(***************************************************************************)
EXTENDS Memoria, Listas_proofs

\* The pages that were created, and those of them that are not in memory
Existen == {p \in Usadas : p[2] <= Len(paginas[p[1]])}

DePagina == [marco : Marcos, presencia : BOOLEAN,
             uso : BOOLEAN, modificado : BOOLEAN]
DeTlb == [pagina : Usadas, marco : Marcos]

\* TypeOK with the types of the lists and of the tables
Tipos ==
  /\ config \in Configuraciones /\ libres \subseteq Marcos
  /\ tabla_procesos \in Seq(Procesos) /\ Unica(tabla_procesos)
  /\ tabla_paginas \in Procesos \cup {Nadie}
  /\ paginas \in [Procesos -> Seq(DePagina)]
  /\ \A p \in Procesos : Len(paginas[p]) <= MaxPaginas[config][p]
  /\ paginas_en_memoria \in [Procesos -> Int]
  /\ lista_reemplazo \in [Procesos \cup {Todos} -> Seq(Usadas)]
  /\ \A l \in Procesos \cup {Todos} : Range(lista_reemplazo[l]) \subseteq Existen
  /\ ultimo_Clock \in [Procesos -> Nat]
  /\ tlb \in Seq(DeTlb) /\ Len(tlb) <= config.CANTIDAD_ENTRADAS_TLB
  /\ referencias \in Seq(Usadas)
  /\ caida \in BOOLEAN /\ cruces \in Nat

Pedidos == {"MEMREAD", "MEMWRITE", "PRIMER_MEMALLOC", "MEMALLOC", "MEMFREE",
            "MEMFREE_PARCIAL"}
Operaciones ==
  [tipo : Pedidos, faltan : Seq(Nat),
   pc : {"sigue", "guarda", "con_marco", "trae"}, victima : Usadas \cup {NULA},
   marco : Nat, lugar : Nat]

\* What is missing of a request: an access creates no page, and there is room
\* for those that the allocator will create.
FaltanBien(faltan, acceso, cantidad, maximo) ==
  \A i \in DOMAIN faltan :
    /\ acceso => faltan[i] # Nueva
    /\ faltan[i] = Nueva => cantidad + Len(faltan) - i + 1 <= maximo

EnCurso == operacion # Libre

OperacionBien ==
  EnCurso =>
    /\ operacion \in Operaciones /\ tabla_paginas \in Procesos
    /\ operacion.faltan # <<>>
    /\ FaltanBien(operacion.faltan, Acceso, Cantidad,
                  MaxPaginas[config][tabla_paginas])

Guardando  == EnCurso /\ operacion.pc = "guarda"
ConSuMarco == EnCurso /\ operacion.pc = "con_marco"
Trayendo   == EnCurso /\ operacion.pc = "trae"

Reemplazando == Guardando \/ ConSuMarco \/ Trayendo

\* v, at that place of the turn, is who has to leave.
VictimaDe(v, lugar) ==
  IF Clock THEN /\ Fija
                /\ ultimo_Clock[tabla_paginas] < Len(lista_reemplazo[Lista])
                /\ lugar \in DOMAIN lista_reemplazo[Lista]
                /\ v = lista_reemplazo[Lista][lugar]
  ELSE lista_reemplazo[Lista] # <<>> /\ v = Head(lista_reemplazo[Lista])

\* While a page is replaced by another, this one is new or out of memory.
ReemplazoBien ==
  /\ Reemplazando => Toca = Nueva \/ (Actual \in Existen \ Presentes)
  /\ Guardando => /\ operacion.victima \in Existen
                  /\ VictimaDe(operacion.victima, operacion.lugar)
  /\ ConSuMarco => operacion.marco \in Marcos
  /\ Trayendo => Toca # Nueva

\* The inductive invariant of TypeOK
IInvTipos == Tipos /\ OperacionBien /\ ReemplazoBien
-----------------------------------------------------------------------------
(* Facts about the constants and the tables *)

LEMMA UsadasBien ==
  /\ \A p \in Usadas : /\ p[1] \in Procesos /\ p[2] \in Nat /\ p[2] >= 1
                       /\ p = <<p[1], p[2]>>
  /\ \A c \in Configuraciones : \A q \in Procesos :
       /\ MaxPaginas[c][q] \in Nat
       /\ \A n \in 1..MaxPaginas[c][q] : <<q, n>> \in Usadas
  <1>1. ASSUME NEW c \in Configuraciones, NEW q \in Procesos
        PROVE  MaxPaginas[c][q] \in Nat
    BY MemoriaOK
  <1>2. ASSUME NEW p \in Usadas
        PROVE  /\ p[1] \in Procesos /\ p[2] \in Nat /\ p[2] >= 1
               /\ p = <<p[1], p[2]>>
    <2>1. PICK c \in Configuraciones, q \in Procesos :
            p \in {q} \X (1..MaxPaginas[c][q])
      BY DEF Usadas
    <2> QED
      BY <1>1, <2>1
  <1>3. ASSUME NEW c \in Configuraciones, NEW q \in Procesos,
               NEW n \in 1..MaxPaginas[c][q]
        PROVE  <<q, n>> \in Usadas
    BY DEF Usadas
  <1> QED
    BY <1>1, <1>2, <1>3

LEMMA ConfigBien ==
  ASSUME config \in Configuraciones
  PROVE  /\ config.MARCOS \in Nat /\ config.MARCOS > 0
         /\ config.TIPO_ASIGNACION \in {"FIJA", "DINAMICA"}
         /\ config.MARCOS_POR_CARPINCHO \in Nat
         /\ config.ALGORITMO_REEMPLAZO_MMU \in {"LRU", "CLOCK-M"}
         /\ config.CANTIDAD_ENTRADAS_TLB \in Nat
         /\ config.ALGORITMO_REEMPLAZO_TLB \in {"LRU", "FIFO"}
  BY MemoriaOK

\* A page that exists is a number of the table of its process.
LEMMA ExistenBien ==
  ASSUME Tipos
  PROVE  /\ \A p \in Existen : /\ p \in Usadas /\ p[1] \in Procesos
                               /\ p[2] \in DOMAIN paginas[p[1]]
                               /\ p = <<p[1], p[2]>>
                               /\ Pagina(p) \in DePagina
         /\ \A q \in Procesos : \A n \in DOMAIN paginas[q] :
              <<q, n>> \in Existen /\ Pagina(<<q, n>>) = paginas[q][n]
         /\ Presentes = {p \in Existen : Pagina(p).presencia}
  <1>1. /\ paginas \in [Procesos -> Seq(DePagina)]
        /\ \A p \in Procesos : Len(paginas[p]) <= MaxPaginas[config][p]
        /\ config \in Configuraciones
    BY DEF Tipos
  <1>2. \A q \in Procesos : /\ paginas[q] \in Seq(DePagina)
                            /\ DOMAIN paginas[q] = 1..Len(paginas[q])
                            /\ Len(paginas[q]) \in Nat
    BY <1>1, LenProperties
  <1>3. ASSUME NEW p \in Existen
        PROVE  /\ p \in Usadas /\ p[1] \in Procesos
               /\ p[2] \in DOMAIN paginas[p[1]]
               /\ p = <<p[1], p[2]>>
               /\ Pagina(p) \in DePagina
    <2>1. p \in Usadas /\ p[1] \in Procesos /\ p[2] \in Nat /\ p[2] >= 1
          /\ p = <<p[1], p[2]>> /\ p[2] <= Len(paginas[p[1]])
      BY UsadasBien DEF Existen
    <2>2. p[2] \in DOMAIN paginas[p[1]]
      BY <1>2, <2>1
    <2>3. paginas[p[1]][p[2]] \in DePagina
      BY <1>2, <2>1, <2>2, ElementOfSeq
    <2> QED
      BY <2>1, <2>2, <2>3 DEF Pagina
  <1>4. ASSUME NEW q \in Procesos, NEW n \in DOMAIN paginas[q]
        PROVE  <<q, n>> \in Existen /\ Pagina(<<q, n>>) = paginas[q][n]
    <2>1. n \in 1..Len(paginas[q]) /\ n \in 1..MaxPaginas[config][q]
      BY <1>1, <1>2, UsadasBien
    <2>2. <<q, n>> \in Usadas
      BY <1>1, <2>1, UsadasBien
    <2> QED
      BY <2>1, <2>2 DEF Existen, Pagina
  <1> QED
    BY <1>3, <1>4 DEF Presentes, Existen

LEMMA TiposDaTypeOK == Tipos => TypeOK
  <1> SUFFICES ASSUME Tipos PROVE TypeOK
    OBVIOUS
  <1>1. IsInjective(tabla_procesos)
    BY DEF Tipos, Unica, IsInjective
  <1>2. \A p \in Procesos : paginas[p] \in Seq(DePagina)
    BY DEF Tipos
  <1>3. \A l \in Procesos \cup {Todos} : \A q \in Range(lista_reemplazo[l]) :
          q \in Usadas /\ q[2] <= Len(paginas[q[1]])
    BY DEF Tipos, Existen
  <1>4. \A i \in DOMAIN tlb : tlb[i] \in DeTlb
    <2>1. tlb \in Seq(DeTlb) /\ DOMAIN tlb = 1..Len(tlb)
      BY LenProperties DEF Tipos
    <2> QED
      BY <2>1, ElementOfSeq
  <1> QED
    BY <1>1, <1>2, <1>3, <1>4 DEF Tipos, TypeOK, DePagina, DeTlb

\* A page of a table changes: the others stay.
LEMMA CambiaPagina ==
  ASSUME Tipos, config' = config, NEW q \in Procesos,
         NEW n \in DOMAIN paginas[q], NEW r \in DePagina,
         paginas' = [paginas EXCEPT ![q] = [paginas[q] EXCEPT ![n] = r]]
  PROVE  /\ paginas' \in [Procesos -> Seq(DePagina)]
         /\ \A p \in Procesos : Len(paginas'[p]) = Len(paginas[p])
         /\ Existen' = Existen
         /\ \A p \in Existen :
              Pagina(p)' = IF p = <<q, n>> THEN r ELSE Pagina(p)
  <1>1. /\ paginas \in [Procesos -> Seq(DePagina)]
        /\ paginas[q] \in Seq(DePagina)
        /\ DOMAIN paginas[q] = 1..Len(paginas[q])
    BY LenProperties DEF Tipos
  <1>2. PICK t : t = [paginas[q] EXCEPT ![n] = r]
    OBVIOUS
  <1>3. /\ t \in Seq(DePagina) /\ Len(t) = Len(paginas[q])
        /\ \A k \in DOMAIN paginas[q] :
             t[k] = IF k = n THEN r ELSE paginas[q][k]
    BY <1>1, <1>2, ExceptSeq
  <1>4. paginas' = [paginas EXCEPT ![q] = t]
    BY <1>2
  <1>5. /\ paginas' \in [Procesos -> Seq(DePagina)] /\ paginas'[q] = t
        /\ \A p \in Procesos \ {q} : paginas'[p] = paginas[p]
    BY <1>1, <1>3, <1>4
  <1>6. \A p \in Procesos : Len(paginas'[p]) = Len(paginas[p])
    BY <1>3, <1>5
  <1>7. Existen' = Existen
    BY <1>6, UsadasBien DEF Existen
  <1>8. ASSUME NEW p \in Existen
        PROVE  Pagina(p)' = IF p = <<q, n>> THEN r ELSE Pagina(p)
    <2>1. /\ p[1] \in Procesos /\ p[2] \in DOMAIN paginas[p[1]]
          /\ p = <<p[1], p[2]>> /\ Pagina(p)' = paginas'[p[1]][p[2]]
          /\ Pagina(p) = paginas[p[1]][p[2]]
      BY ExistenBien DEF Pagina
    <2>2. CASE p[1] = q
      BY <1>3, <1>5, <2>1, <2>2
    <2>3. CASE p[1] # q
      BY <1>5, <2>1, <2>3
    <2> QED
      BY <2>2, <2>3
  <1> QED
    BY <1>5, <1>6, <1>7, <1>8

\* A page is added to a table.
LEMMA CreaPagina ==
  ASSUME Tipos, config' = config, NEW q \in Procesos, NEW r \in DePagina,
         NEW n \in Nat, n = Len(paginas[q]), n + 1 <= MaxPaginas[config][q],
         paginas' = [paginas EXCEPT ![q] = Append(paginas[q], r)]
  PROVE  /\ paginas' \in [Procesos -> Seq(DePagina)]
         /\ \A p \in Procesos :
              Len(paginas'[p]) = Len(paginas[p]) + (IF p = q THEN 1 ELSE 0)
         /\ <<q, n + 1>> \in Usadas \ Existen
         /\ Existen' = Existen \cup {<<q, n + 1>>}
         /\ Pagina(<<q, n + 1>>)' = r
         /\ \A p \in Existen : Pagina(p)' = Pagina(p)
  <1>1. /\ paginas \in [Procesos -> Seq(DePagina)]
        /\ paginas[q] \in Seq(DePagina)
        /\ \A p \in Procesos : Len(paginas[p]) \in Nat
        /\ config \in Configuraciones
    BY LenProperties DEF Tipos
  <1>2. PICK t : t = Append(paginas[q], r)
    OBVIOUS
  <1>3. /\ t \in Seq(DePagina) /\ Len(t) = n + 1 /\ t[n + 1] = r
        /\ DOMAIN paginas[q] = 1..n
        /\ \A k \in 1..n : t[k] = paginas[q][k]
    BY <1>1, <1>2, AppendProperties
  <1>4. /\ paginas' \in [Procesos -> Seq(DePagina)] /\ paginas'[q] = t
        /\ \A p \in Procesos \ {q} : paginas'[p] = paginas[p]
    BY <1>1, <1>2, <1>3
  <1>5. \A p \in Procesos :
          Len(paginas'[p]) = Len(paginas[p]) + (IF p = q THEN 1 ELSE 0)
    BY <1>1, <1>2, <1>3, <1>4
  <1>6. <<q, n + 1>> \in Usadas \ Existen
    <2>1. n + 1 \in 1..MaxPaginas[config][q]
      BY <1>1, <1>2, UsadasBien
    <2> QED
      BY <1>1, <1>2, <2>1, UsadasBien DEF Existen
  <1>7. Existen' = Existen \cup {<<q, n + 1>>}
    <2>1. ASSUME NEW p \in Usadas
          PROVE  p \in Existen' <=> p \in Existen \/ p = <<q, n + 1>>
      <3>1. p[1] \in Procesos /\ p[2] \in Nat /\ p = <<p[1], p[2]>>
        BY UsadasBien
      <3>2. p \in Existen' <=> p[2] <= Len(paginas'[p[1]])
        BY DEF Existen
      <3>3. p \in Existen <=> p[2] <= Len(paginas[p[1]])
        BY DEF Existen
      <3>4. CASE p[1] = q
        <4>1. /\ p \in Existen' <=> p[2] <= n + 1
              /\ p \in Existen <=> p[2] <= n
              /\ p = <<q, n + 1>> <=> p[2] = n + 1
          BY <1>2, <1>3, <1>4, <3>1, <3>2, <3>3, <3>4
        <4> QED
          BY <3>1, <4>1
      <3>5. CASE p[1] # q
        BY <1>4, <3>1, <3>2, <3>3, <3>5
      <3> QED
        BY <3>4, <3>5
    <2>2. Existen \subseteq Usadas /\ Existen' \subseteq Usadas
      BY DEF Existen
    <2> QED
      BY <1>6, <2>1, <2>2
  <1>8. Pagina(<<q, n + 1>>)' = r
    BY <1>3, <1>4 DEF Pagina
  <1>9. ASSUME NEW p \in Existen
        PROVE  Pagina(p)' = Pagina(p)
    <2>1. /\ p[1] \in Procesos /\ p[2] \in DOMAIN paginas[p[1]]
          /\ p = <<p[1], p[2]>> /\ Pagina(p)' = paginas'[p[1]][p[2]]
          /\ Pagina(p) = paginas[p[1]][p[2]]
      BY ExistenBien DEF Pagina
    <2>2. CASE p[1] = q
      BY <1>3, <1>4, <2>1, <2>2
    <2>3. CASE p[1] # q
      BY <1>4, <2>1, <2>3
    <2> QED
      BY <2>2, <2>3
  <1> QED
    BY <1>2, <1>4, <1>5, <1>6, <1>7, <1>8, <1>9
-----------------------------------------------------------------------------
(* Facts about the TLB and the lists of replacement *)

LEMMA EnTlbBien ==
  ASSUME tlb \in Seq(DeTlb), NEW p
  PROVE  /\ EnTlb(p) \in 0..Len(tlb)
         /\ EnTlb(p) = 0 <=> \A e \in Range(tlb) : e.pagina # p
         /\ EnTlb(p) # 0 => /\ EnTlb(p) \in DOMAIN tlb
                            /\ tlb[EnTlb(p)].pagina = p
                            /\ tlb[EnTlb(p)] \in DeTlb
  <1>1. DOMAIN tlb = 1..Len(tlb) /\ Len(tlb) \in Nat
    BY LenProperties
  <1>2. PICK lugares \in SUBSET DOMAIN tlb :
          lugares = {i \in DOMAIN tlb : tlb[i].pagina = p}
    OBVIOUS
  <1>3. /\ EnTlb(p) = Primero(lugares) /\ EnTlb(p) \in 0..Len(tlb)
        /\ EnTlb(p) = 0 <=> lugares = {}
        /\ EnTlb(p) # 0 => EnTlb(p) \in lugares
    BY <1>1, <1>2, PrimeroEsMinimo DEF EnTlb
  <1>4. lugares = {} <=> \A e \in Range(tlb) : e.pagina # p
    BY <1>2 DEF Range
  <1>5. EnTlb(p) # 0 => EnTlb(p) \in DOMAIN tlb /\ tlb[EnTlb(p)].pagina = p
    BY <1>2, <1>3
  <1>6. EnTlb(p) # 0 => tlb[EnTlb(p)] \in DeTlb
    BY <1>1, <1>5, ElementOfSeq
  <1> QED
    BY <1>3, <1>4, <1>5, <1>6

\* The TLB without a page: with at most one entry, no other was of it.
LEMMA EliminaDeTlbBien ==
  ASSUME tlb \in Seq(DeTlb), NEW p
  PROVE  /\ EliminaDeTlb(p) \in Seq(DeTlb)
         /\ Len(EliminaDeTlb(p)) = Len(tlb) - (IF EnTlb(p) = 0 THEN 0 ELSE 1)
         /\ Range(EliminaDeTlb(p)) \subseteq Range(tlb)
         /\ Len(tlb) <= 1 => \A e \in Range(EliminaDeTlb(p)) : e.pagina # p
  <1>1. DOMAIN tlb = 1..Len(tlb) /\ Len(tlb) \in Nat
    BY LenProperties
  <1>2. PICK lugares \in SUBSET DOMAIN tlb :
          lugares = {i \in DOMAIN tlb : tlb[i].pagina = p}
    OBVIOUS
  <1>3. EnTlb(p) = 0 <=> lugares = {}
    BY <1>1, <1>2, PrimeroEsMinimo DEF EnTlb
  <1>4. PICK t : t = EliminaDeTlb(p)
    OBVIOUS
  <1>5. t = SinPrimero(tlb, lugares)
    BY <1>2, <1>4 DEF EliminaDeTlb
  <1>6. /\ t \in Seq(DeTlb) /\ Range(t) \subseteq Range(tlb)
        /\ Len(t) = Len(tlb) - (IF EnTlb(p) = 0 THEN 0 ELSE 1)
        /\ lugares = {} => t = tlb
    BY <1>3, <1>5, SinPrimeroBien
  <1>7. ASSUME Len(tlb) <= 1, NEW e \in Range(t), e.pagina = p
        PROVE  FALSE
    <2>1. lugares # {}
      BY <1>2, <1>6, <1>7 DEF Range
    <2>2. Len(t) = 0 /\ DOMAIN t = 1..Len(t)
      <3>1. Len(t) \in Nat /\ DOMAIN t = 1..Len(t)
        BY <1>6, LenProperties
      <3>2. Len(t) = Len(tlb) - 1
        BY <1>3, <1>6, <2>1
      <3> QED
        BY <1>1, <1>7, <3>1, <3>2
    <2> QED
      BY <1>7, <2>2 DEF Range
  <1> QED
    BY <1>4, <1>6, <1>7

\* A hit moves an entry to the end, or leaves all where they are.
LEMMA TrasAciertoBien ==
  ASSUME tlb \in Seq(DeTlb), NEW p, EnTlb(p) # 0
  PROVE  /\ TrasAcierto(p) \in Seq(DeTlb) /\ Len(TrasAcierto(p)) = Len(tlb)
         /\ Range(TrasAcierto(p)) \subseteq Range(tlb)
  <1>1. /\ EliminaDeTlb(p) \in Seq(DeTlb)
        /\ Len(EliminaDeTlb(p)) = Len(tlb) - 1 /\ Len(tlb) \in Nat
        /\ Range(EliminaDeTlb(p)) \subseteq Range(tlb)
    BY EliminaDeTlbBien, LenProperties
  <1>2. tlb[EnTlb(p)] \in DeTlb /\ tlb[EnTlb(p)] \in Range(tlb)
    BY EnTlbBien DEF Range
  <1>3. PICK t, e : t = EliminaDeTlb(p) /\ e = tlb[EnTlb(p)]
    OBVIOUS
  <1>4. /\ Append(t, e) \in Seq(DeTlb) /\ Len(Append(t, e)) = Len(tlb)
        /\ Range(Append(t, e)) \subseteq Range(tlb)
    BY <1>1, <1>2, <1>3, RangoAlFinal
  <1> QED
    BY <1>3, <1>4 DEF TrasAcierto

\* A new entry takes the place of the oldest when the TLB is full: with at
\* most one entry it is alone.
LEMMA AgregaTlbBien ==
  ASSUME config \in Configuraciones, NEW t \in Seq(DeTlb),
         NEW p \in Usadas, NEW m \in Marcos,
         Len(t) <= config.CANTIDAD_ENTRADAS_TLB
  PROVE  /\ AgregaTlb(t, p, m) \in Seq(DeTlb)
         /\ Len(AgregaTlb(t, p, m)) <= config.CANTIDAD_ENTRADAS_TLB
         /\ Range(AgregaTlb(t, p, m)) \subseteq Range(t) \cup {Entrada(p, m)}
         /\ config.CANTIDAD_ENTRADAS_TLB <= 1 =>
              Range(AgregaTlb(t, p, m)) \subseteq {Entrada(p, m)}
  <1>1. PICK n \in Nat : n = config.CANTIDAD_ENTRADAS_TLB
    BY ConfigBien
  <1>2. PICK e \in DeTlb : e = Entrada(p, m)
    BY DEF Entrada, DeTlb
  <1>3. PICK r : r = AgregaTlb(t, p, m)
    OBVIOUS
  <1>4. Len(t) \in Nat /\ DOMAIN t = 1..Len(t)
    BY LenProperties
  <1>5. CASE n = 0
    <2>1. r = t /\ DOMAIN t = {}
      BY <1>1, <1>3, <1>4, <1>5 DEF AgregaTlb
    <2>2. Range(t) = {}
      BY <2>1 DEF Range
    <2> QED
      BY <1>1, <1>2, <1>3, <1>5, <2>1, <2>2
  <1>6. CASE n # 0 /\ Len(t) < n
    <2>1. r = Append(t, e)
      BY <1>1, <1>2, <1>3, <1>6 DEF AgregaTlb
    <2>2. /\ r \in Seq(DeTlb) /\ Len(r) = Len(t) + 1
          /\ Range(r) = Range(t) \cup {e}
      BY <2>1, RangoAlFinal
    <2>3. n <= 1 => Range(t) = {}
      <3>1. n <= 1 => Len(t) = 0
        BY <1>4, <1>6
      <3> QED
        BY <1>4, <3>1 DEF Range
    <2> QED
      BY <1>1, <1>2, <1>3, <1>4, <1>6, <2>2, <2>3
  <1>7. CASE n # 0 /\ ~(Len(t) < n)
    <2>1. Len(t) = n /\ t # <<>>
      BY <1>1, <1>4, <1>7, EmptySeq
    <2>2. PICK u \in Seq(DeTlb) : u = Tail(t)
      BY <2>1, RangoSinElPrimero
    <2>3. /\ Len(u) = n - 1 /\ Range(u) \subseteq Range(t)
          /\ DOMAIN u = 1..Len(u)
      BY <2>1, <2>2, RangoSinElPrimero, LenProperties
    <2>4. r = Append(u, e)
      BY <1>1, <1>2, <1>3, <1>7, <2>2 DEF AgregaTlb
    <2>5. /\ r \in Seq(DeTlb) /\ Len(r) = Len(u) + 1
          /\ Range(r) = Range(u) \cup {e}
      BY <2>4, RangoAlFinal
    <2>6. n <= 1 => Range(u) = {}
      <3>1. n <= 1 => Len(u) = 0
        BY <1>7, <2>3
      <3> QED
        BY <2>3, <3>1 DEF Range
    <2> QED
      BY <1>1, <1>2, <1>3, <2>3, <2>5, <2>6
  <1> QED
    BY <1>5, <1>6, <1>7

\* The list of LRU after a reference: the page goes to the end or, if no page
\* of the list has its number, nothing happens.
LEMMA ActualizaLRUBien ==
  ASSUME NEW l \in Seq(Usadas), NEW p \in Usadas
  PROVE  /\ ActualizaLRU(l, p) \in Seq(Usadas)
         /\ Range(ActualizaLRU(l, p)) \subseteq Range(l) \cup {p}
         /\ ~Cruza(l, p) =>
              \/ ActualizaLRU(l, p) = l /\ \A q \in Range(l) : q[2] # p[2]
              \/ \E i \in DOMAIN l :
                   l[i] = p /\ ActualizaLRU(l, p) = Append(RemoveAt(l, i), p)
  <1>1. PICK lugares \in SUBSET DOMAIN l : lugares = DeSuNumero(l, p)
    BY DEF DeSuNumero
  <1>2. \A i \in DOMAIN l : i \in lugares <=> l[i][2] = p[2]
    BY <1>1 DEF DeSuNumero
  <1>3. CASE lugares = {}
    BY <1>1, <1>2, <1>3 DEF ActualizaLRU, Range
  <1>4. CASE lugares # {}
    <2>1. PICK i \in DOMAIN l : i = Primero(lugares)
      BY <1>4, SinPrimeroBien
    <2>2. ActualizaLRU(l, p) = Append(RemoveAt(l, i), p)
      BY <1>1, <1>4, <2>1 DEF ActualizaLRU, SinPrimero
    <2>3. PICK r : r = RemoveAt(l, i)
      OBVIOUS
    <2>4. r \in Seq(Usadas) /\ Range(r) \subseteq Range(l)
      BY <2>3, RangoSinUno
    <2>5. Append(r, p) \in Seq(Usadas) /\ Range(Append(r, p)) = Range(r) \cup {p}
      BY <2>4, RangoAlFinal
    <2>6. ~Cruza(l, p) => l[i] = p
      BY <1>1, <1>4, <2>1 DEF Cruza
    <2> QED
      BY <2>2, <2>3, <2>4, <2>5, <2>6
  <1> QED
    BY <1>3, <1>4

\* The history after a reference: the page is its last one.
LEMMA UltimaBien ==
  ASSUME referencias \in Seq(Usadas), NEW p \in Usadas
  PROVE  /\ SinReferencia(p) \in Seq(Usadas) /\ Ultima(p) \in Seq(Usadas)
         /\ Range(SinReferencia(p)) \subseteq Range(referencias)
         /\ Unica(referencias) => /\ Unica(SinReferencia(p))
                                  /\ Range(SinReferencia(p))
                                       = Range(referencias) \ {p}
                                  /\ Unica(Ultima(p))
                                  /\ Range(Ultima(p))
                                       = Range(referencias) \cup {p}
  <1>1. PICK lugares \in SUBSET DOMAIN referencias :
          lugares = {i \in DOMAIN referencias : referencias[i] = p}
    OBVIOUS
  <1>2. PICK r : r = SinReferencia(p)
    OBVIOUS
  <1>3. r = SinPrimero(referencias, lugares)
    BY <1>1, <1>2 DEF SinReferencia
  <1>4. r \in Seq(Usadas) /\ Range(r) \subseteq Range(referencias)
    BY <1>3, SinPrimeroBien
  <1>5. ASSUME Unica(referencias)
        PROVE  Unica(r) /\ Range(r) = Range(referencias) \ {p}
    <2>1. CASE lugares = {}
      <3>1. r = referencias /\ p \notin Range(referencias)
        BY <1>1, <1>3, <2>1, SinPrimeroBien DEF Range
      <3> QED
        BY <1>5, <3>1
    <2>2. CASE lugares # {}
      <3>1. PICK i \in DOMAIN referencias :
              referencias[i] = p /\ r = RemoveAt(referencias, i)
        BY <1>1, <1>3, <2>2, SinPrimeroBien
      <3> QED
        BY <1>5, <3>1, RangoSinUno
    <2> QED
      BY <2>1, <2>2
  <1>6. /\ Append(r, p) \in Seq(Usadas)
        /\ Range(Append(r, p)) = Range(r) \cup {p}
        /\ Unica(r) /\ p \notin Range(r) => Unica(Append(r, p))
    BY <1>4, RangoAlFinal
  <1> QED
    BY <1>2, <1>4, <1>5, <1>6 DEF Ultima
-----------------------------------------------------------------------------
(* The types of the steps *)

\* What goes on with one page less has what it needs, whether the first was a
\* page that now exists or not.
LEMMA FaltanBienTail ==
  ASSUME NEW faltan \in Seq(Nat), faltan # <<>>, NEW acceso \in BOOLEAN,
         NEW cantidad \in Nat, NEW maximo \in Nat, NEW nueva \in Nat,
         FaltanBien(faltan, acceso, cantidad, maximo),
         nueva = cantidad + (IF Head(faltan) = Nueva THEN 1 ELSE 0)
  PROVE  /\ Tail(faltan) \in Seq(Nat)
         /\ FaltanBien(Tail(faltan), acceso, nueva, maximo)
  <1>1. PICK n \in Nat : n = Len(faltan)
    BY LenProperties
  <1>2. PICK t : t = Tail(faltan)
    OBVIOUS
  <1>3. /\ t \in Seq(Nat) /\ Len(t) = n - 1 /\ DOMAIN t = 1..(n - 1)
        /\ DOMAIN faltan = 1..n /\ 1 \in 1..n /\ Head(faltan) = faltan[1]
        /\ \A j \in 1..(n - 1) : t[j] = faltan[j + 1]
    BY <1>1, <1>2, LenProperties, HeadTailProperties, EmptySeq
  <1>4. \A i \in 1..n :
          /\ acceso => faltan[i] # Nueva
          /\ faltan[i] = Nueva => cantidad + n - i + 1 <= maximo
    BY <1>1, <1>3 DEF FaltanBien
  <1>5. ASSUME NEW i \in 1..(n - 1)
        PROVE  /\ acceso => t[i] # Nueva
               /\ t[i] = Nueva => nueva + (n - 1) - i + 1 <= maximo
    <2>1. i + 1 \in 1..n /\ t[i] = faltan[i + 1] /\ faltan[i + 1] \in Nat
      <3>1. i + 1 \in 1..n
        OBVIOUS
      <3> QED
        BY <1>3, <3>1, ElementOfSeq
    <2>2. acceso => t[i] # Nueva
      BY <1>4, <2>1
    <2>4. ASSUME t[i] = Nueva
          PROVE  nueva + (n - 1) - i + 1 <= maximo
      <3>1. CASE Head(faltan) = Nueva
        <4>1. cantidad + n - 1 + 1 <= maximo
          BY <1>3, <1>4, <3>1
        <4> QED
          BY <3>1, <4>1
      <3>2. CASE Head(faltan) # Nueva
        <4>1. cantidad + n - (i + 1) + 1 <= maximo
          BY <1>4, <2>1, <2>4
        <4> QED
          BY <3>2, <4>1
      <3> QED
        BY <3>1, <3>2
    <2> QED
      BY <2>2, <2>4
  <1> QED
    BY <1>2, <1>3, <1>5 DEF FaltanBien

\* Going on with the next page, the one before being there if it was new.
LEMMA AvanzaBien ==
  ASSUME Tipos, OperacionBien, EnCurso, Avanza, config' = config,
         tabla_paginas' = tabla_paginas,
         Len(paginas'[tabla_paginas])
           = Cantidad + (IF Toca = Nueva THEN 1 ELSE 0)
  PROVE  OperacionBien' /\ ReemplazoBien'
  <1>1. PICK q \in Procesos : q = tabla_paginas
    BY DEF OperacionBien
  <1>2. /\ operacion \in Operaciones /\ operacion.faltan # <<>>
        /\ FaltanBien(operacion.faltan, Acceso, Cantidad,
                      MaxPaginas[config][tabla_paginas])
    BY DEF OperacionBien
  <1>3. PICK faltan \in Seq(Nat) : faltan = operacion.faltan
    BY <1>2 DEF Operaciones
  <1>4. PICK n \in Nat : n = Cantidad
    <2>1. paginas[q] \in Seq(DePagina)
      BY DEF Tipos
    <2> QED
      BY <1>1, <2>1, LenProperties DEF Cantidad
  <1>5. PICK m \in Nat : m = Cantidad'
    <2>1. Cantidad' = n + (IF Toca = Nueva THEN 1 ELSE 0)
      BY <1>4 DEF Cantidad
    <2> QED
      BY <2>1
  <1>6. PICK maximo \in Nat : maximo = MaxPaginas[config][q]
    BY UsadasBien DEF Tipos
  <1>7. PICK acceso \in BOOLEAN : acceso <=> Acceso
    OBVIOUS
  <1>8. PICK t : t = Tail(faltan)
    OBVIOUS
  <1>9. t \in Seq(Nat) /\ FaltanBien(t, acceso, m, maximo)
    <2>1. FaltanBien(faltan, acceso, n, maximo)
      BY <1>1, <1>2, <1>3, <1>4, <1>6, <1>7
    <2>2. m = n + (IF Head(faltan) = Nueva THEN 1 ELSE 0)
      BY <1>3, <1>4, <1>5 DEF Toca, Cantidad
    <2> QED
      BY <1>2, <1>3, <1>8, <2>1, <2>2, FaltanBienTail
  <1>10. CASE operacion' = Libre
    BY <1>10 DEF OperacionBien, ReemplazoBien, EnCurso, Reemplazando,
                 Guardando, ConSuMarco, Trayendo
  <1>11. CASE operacion' # Libre
    <2>1. /\ t # <<>>
          /\ operacion' = [operacion EXCEPT !.faltan = t, !.pc = "sigue",
                             !.victima = NULA, !.lugar = 0, !.marco = 0]
      BY <1>3, <1>8, <1>11 DEF Avanza
    <2>2. /\ operacion' \in Operaciones /\ operacion'.faltan = t
          /\ operacion'.tipo = operacion.tipo /\ operacion'.pc = "sigue"
      BY <1>2, <1>9, <2>1 DEF Operaciones
    <2>3. Acceso' = acceso
      BY <1>7, <2>2 DEF Acceso
    <2>4. FaltanBien(operacion.faltan, Acceso, Cantidad,
                     MaxPaginas[config][tabla_paginas])'
      BY <1>1, <1>5, <1>6, <1>9, <2>2, <2>3 DEF FaltanBien
    <2> QED
      BY <1>1, <2>1, <2>2, <2>4
         DEF OperacionBien, ReemplazoBien, EnCurso, Reemplazando,
             Guardando, ConSuMarco, Trayendo
  <1> QED
    BY <1>10, <1>11

\* No request in progress.
LEMMA SueltaBien ==
  ASSUME operacion' = Libre
  PROVE  OperacionBien' /\ ReemplazoBien'
  BY DEF OperacionBien, ReemplazoBien, EnCurso, Reemplazando, Guardando,
         ConSuMarco, Trayendo

\* The tables, the lists and the TLB stay, with the request or without it.
LEMMA QuietoBien ==
  ASSUME Tipos, UNCHANGED <<config, tablas, reemplazo>>
  PROVE  /\ Tipos' <=> /\ tlb' \in Seq(DeTlb)
                       /\ Len(tlb') <= config.CANTIDAD_ENTRADAS_TLB
                       /\ caida' \in BOOLEAN
         /\ operacion' = operacion /\ OperacionBien => OperacionBien'
         /\ operacion' = operacion /\ ReemplazoBien => ReemplazoBien'
  <1>1. /\ Existen' = Existen /\ Presentes' = Presentes
        /\ DePagina' = DePagina /\ DeTlb' = DeTlb /\ Marcos' = Marcos
    BY DEF Existen, Presentes, Pagina, DePagina, DeTlb, Marcos, tablas
  <1>2. Tipos' <=> /\ tlb' \in Seq(DeTlb)
                   /\ Len(tlb') <= config.CANTIDAD_ENTRADAS_TLB
                   /\ caida' \in BOOLEAN
    BY <1>1 DEF Tipos, tablas, reemplazo
  <1>3. operacion' = operacion /\ OperacionBien => OperacionBien'
    BY DEF OperacionBien, EnCurso, Acceso, Cantidad, tablas
  <1>4. operacion' = operacion /\ ReemplazoBien => ReemplazoBien'
    BY <1>1 DEF ReemplazoBien, Reemplazando, Guardando, ConSuMarco, Trayendo,
                EnCurso, Toca, Actual, tablas, reemplazo, VictimaDe, Lista,
                Fija, Clock
  <1> QED
    BY <1>2, <1>3, <1>4

\* The table of whoever asks, a new one at the end of the list.
LEMMA BuscaTablaBien ==
  ASSUME tabla_procesos \in Seq(Procesos), Unica(tabla_procesos),
         NEW pid \in Procesos, BuscaTabla(pid)
  PROVE  /\ tabla_procesos' \in Seq(Procesos) /\ Unica(tabla_procesos')
         /\ Range(tabla_procesos') = Range(tabla_procesos) \cup {pid}
  <1>1. CASE pid \in Range(tabla_procesos)
    <2>1. tabla_procesos' = tabla_procesos
      BY <1>1 DEF BuscaTabla
    <2> QED
      BY <1>1, <2>1
  <1>2. CASE pid \notin Range(tabla_procesos)
    <2>1. tabla_procesos' = Append(tabla_procesos, pid)
      BY <1>2 DEF BuscaTabla
    <2> QED
      BY <1>2, <2>1, RangoAlFinal
  <1> QED
    BY <1>1, <1>2

\* A request starts.
LEMMA EmpiezaBien ==
  ASSUME Tipos, NEW tipo \in Pedidos,
         NEW faltan \in Seq(Nat), faltan # <<>>, Empieza(tipo, faltan),
         NEW pid \in Procesos, tabla_paginas' = pid,
         tabla_procesos' \in Seq(Procesos), Unica(tabla_procesos'),
         FaltanBien(faltan, tipo \in {"MEMREAD", "MEMWRITE"},
                    Len(paginas[pid]), MaxPaginas[config][pid])
  PROVE  Tipos' /\ OperacionBien' /\ ReemplazoBien'
  <1>1. /\ operacion' = [tipo |-> tipo, faltan |-> faltan, pc |-> "sigue",
                         victima |-> NULA, marco |-> 0, lugar |-> 0]
        /\ UNCHANGED <<config, libres, paginas, paginas_en_memoria, reemplazo,
                       tlb, caida, swapVars>>
    BY DEF Empieza
  <1>2. /\ Existen' = Existen /\ Presentes' = Presentes
        /\ DePagina' = DePagina /\ DeTlb' = DeTlb /\ Marcos' = Marcos
    BY <1>1 DEF Existen, Presentes, Pagina, DePagina, DeTlb, Marcos, tablas
  <1>3. Tipos'
    BY <1>1, <1>2 DEF Tipos, reemplazo
  <1>4. operacion' \in Operaciones
    BY <1>1 DEF Operaciones
  <1>5. /\ operacion'.faltan = faltan /\ operacion'.tipo = tipo
        /\ operacion'.pc = "sigue" /\ Cantidad' = Len(paginas[pid])
        /\ operacion'.tipo \in {"MEMREAD", "MEMWRITE"}
             <=> tipo \in {"MEMREAD", "MEMWRITE"}
    BY <1>1 DEF Cantidad
  <1>6. FaltanBien(operacion.faltan, Acceso, Cantidad,
                   MaxPaginas[config][tabla_paginas])'
    BY <1>1, <1>5 DEF FaltanBien, Acceso
  <1> QED
    BY <1>3, <1>4, <1>5, <1>6
       DEF OperacionBien, ReemplazoBien, EnCurso, Reemplazando, Guardando,
           ConSuMarco, Trayendo

\* Numbers of pages in order are those numbers.
LEMMA EnOrdenBien ==
  ASSUME NEW pid, Len(paginas[pid]) \in Nat,
         NEW numeros \in SUBSET (1..Len(paginas[pid]))
  PROVE  /\ EnOrden(pid, numeros) \in Seq(Nat)
         /\ Len(EnOrden(pid, numeros)) = Cardinality(numeros)
         /\ \A i \in DOMAIN EnOrden(pid, numeros) :
              EnOrden(pid, numeros)[i] \in numeros
  <1>1. PICK n \in Nat : n = Len(paginas[pid])
    OBVIOUS
  <1>2. PICK s : s = [k \in 1..n |-> k]
    OBVIOUS
  <1>3. s \in Seq(Nat) /\ DOMAIN s = 1..n /\ \A k \in 1..n : s[k] = k
    BY <1>2
  <1>4. PICK t : t = Quedan(s, numeros)
    OBVIOUS
  <1>5. t = EnOrden(pid, numeros)
    BY <1>1, <1>2, <1>4 DEF EnOrden
  <1>6. /\ t \in Seq(Nat) /\ Len(t) = Cardinality(numeros)
        /\ \A a \in DOMAIN t : \E i \in numeros : t[a] = s[i]
    <2>1. numeros \in SUBSET DOMAIN s
      BY <1>1, <1>3
    <2> QED
      BY <1>3, <1>4, <2>1, QuedanDeSusLugares
  <1>7. ASSUME NEW i \in DOMAIN t
        PROVE  t[i] \in numeros
    <2>1. PICK k \in numeros : t[i] = s[k]
      BY <1>6
    <2>2. s[k] = k
      BY <1>1, <1>3, <2>1
    <2> QED
      BY <2>1, <2>2
  <1> QED
    BY <1>5, <1>6, <1>7

\* A list of existing pages and then new ones, for which there is room.
LEMMA FaltanConNuevas ==
  ASSUME NEW s \in Seq(Nat), NEW t \in Seq(Nat), NEW cantidad \in Nat,
         NEW maximo \in Nat, cantidad + Len(t) <= maximo,
         \A i \in DOMAIN s : s[i] \in 1..cantidad,
         \A i \in DOMAIN t : t[i] = Nueva
  PROVE  s \o t \in Seq(Nat) /\ FaltanBien(s \o t, FALSE, cantidad, maximo)
  <1>1. PICK a \in Nat, b \in Nat : a = Len(s) /\ b = Len(t)
    BY LenProperties
  <1>2. PICK r : r = s \o t
    OBVIOUS
  <1>3. /\ r \in Seq(Nat) /\ Len(r) = a + b /\ DOMAIN r = 1..(a + b)
        /\ DOMAIN s = 1..a /\ DOMAIN t = 1..b
        /\ \A i \in 1..(a + b) : r[i] = IF i <= a THEN s[i] ELSE t[i - a]
    BY <1>1, <1>2, ConcatProperties, LenProperties
  <1>4. ASSUME NEW i \in 1..(a + b)
        PROVE  r[i] = Nueva => cantidad + (a + b) - i + 1 <= maximo
    <2>1. CASE i <= a
      <3>1. i \in DOMAIN s /\ r[i] = s[i]
        BY <1>3, <2>1
      <3>2. r[i] \in 1..cantidad
        BY <3>1
      <3> QED
        BY <3>2 DEF Nueva
    <2>2. CASE ~(i <= a)
      <3>1. i - a \in 1..b /\ r[i] = t[i - a]
        BY <1>3, <2>2
      <3>2. r[i] = Nueva
        BY <1>3, <3>1
      <3>3. cantidad + (a + b) - i + 1 <= maximo
        BY <1>1, <2>2
      <3> QED
        BY <3>2, <3>3 DEF Nueva
    <2> QED
      BY <2>1, <2>2
  <1> QED
    BY <1>2, <1>3, <1>4 DEF FaltanBien

LEMMA MemLeeEscribeTipa ==
  ASSUME IInvTipos, MemLeeEscribe
  PROVE  IInvTipos'
  <1>1. PICK pid \in Procesos, tipo \in {"MEMREAD", "MEMWRITE"} :
          /\ BuscaTabla(pid)
          /\ \E n \in 1..(Len(paginas[pid]) + 1) :
               \E m \in n..(Len(paginas[pid]) + 1) :
                 Empieza(tipo, [i \in 1..(m - n + 1) |-> n + i - 1])
    BY DEF MemLeeEscribe
  <1>2. PICK faltan \in Seq(Nat) :
          /\ faltan # <<>> /\ Empieza(tipo, faltan)
          /\ \A i \in DOMAIN faltan : faltan[i] # Nueva
    <2>1. PICK n \in 1..(Len(paginas[pid]) + 1) :
            \E m \in n..(Len(paginas[pid]) + 1) :
              Empieza(tipo, [i \in 1..(m - n + 1) |-> n + i - 1])
      BY <1>1
    <2>2. PICK m \in n..(Len(paginas[pid]) + 1) :
            Empieza(tipo, [i \in 1..(m - n + 1) |-> n + i - 1])
      BY <2>1
    <2>3. Len(paginas[pid]) \in Nat
      BY LenProperties DEF IInvTipos, Tipos
    <2>4. n \in Nat /\ n # 0 /\ m \in Nat /\ m - n + 1 \in Nat \ {0}
      BY <2>3
    <2>5. PICK k \in Nat \ {0} : k = m - n + 1
      BY <2>4
    <2>6. PICK s : s = [i \in 1..k |-> n + i - 1]
      OBVIOUS
    <2>7. \A i \in 1..k : n + i - 1 \in Nat /\ n + i - 1 # 0
      BY <2>4
    <2>8. s \in Seq(Nat) /\ Len(s) = k /\ DOMAIN s = 1..k
      BY <2>6, <2>7
    <2>9. /\ s # <<>> /\ Empieza(tipo, s)
          /\ \A i \in DOMAIN s : s[i] # Nueva
      BY <2>2, <2>5, <2>6, <2>7, <2>8 DEF Nueva
    <2> QED
      BY <2>8, <2>9
  <1>3. FaltanBien(faltan, tipo \in {"MEMREAD", "MEMWRITE"},
                   Len(paginas[pid]), MaxPaginas[config][pid])
    BY <1>2 DEF FaltanBien
  <1>4. tabla_paginas' = pid
    BY <1>1 DEF BuscaTabla
  <1>5. tabla_procesos' \in Seq(Procesos) /\ Unica(tabla_procesos')
    BY <1>1, BuscaTablaBien DEF IInvTipos, Tipos
  <1>6. tipo \in Pedidos
    BY DEF Pedidos
  <1> QED
    BY <1>2, <1>3, <1>4, <1>5, <1>6, EmpiezaBien DEF IInvTipos

\* A list of new pages.
LEMMA NuevasBien ==
  ASSUME NEW k \in Nat
  PROVE  /\ Nuevas(k) \in Seq(Nat) /\ Len(Nuevas(k)) = k
         /\ \A i \in DOMAIN Nuevas(k) : Nuevas(k)[i] = Nueva
  BY DEF Nuevas, Nueva

LEMMA MemAllocTipa ==
  ASSUME IInvTipos, MemAlloc
  PROVE  IInvTipos'
  <1>0. PICK pid \in Procesos, k \in 0..3 :
          /\ BuscaTabla(pid)
          /\ Len(paginas[pid]) + k <= MaxPaginas[config][pid]
          /\ \/ /\ paginas[pid] = <<>> /\ k > 0
                /\ Empieza("PRIMER_MEMALLOC", Nuevas(k))
             \/ /\ paginas[pid] # <<>> /\ k < 3
                /\ \E otras \in SUBSET (2..Len(paginas[pid])) :
                     Empieza("MEMALLOC",
                             <<1>> \o EnOrden(pid, otras) \o Nuevas(k))
    BY DEF MemAlloc
  <1>a. PICK nuevas : nuevas = Nuevas(k)
    OBVIOUS
  <1>b. k \in Nat
    OBVIOUS
  <1>c. /\ nuevas \in Seq(Nat) /\ Len(nuevas) = k
        /\ \A i \in DOMAIN nuevas : nuevas[i] = Nueva
    BY <1>a, <1>b, NuevasBien
  <1>1. /\ BuscaTabla(pid)
        /\ Len(paginas[pid]) + Len(nuevas) <= MaxPaginas[config][pid]
        /\ \/ /\ paginas[pid] = <<>> /\ nuevas # <<>>
              /\ Empieza("PRIMER_MEMALLOC", nuevas)
           \/ /\ paginas[pid] # <<>>
              /\ \E otras \in SUBSET (2..Len(paginas[pid])) :
                   Empieza("MEMALLOC",
                           <<1>> \o EnOrden(pid, otras) \o nuevas)
    <2>1. k > 0 => nuevas # <<>>
      BY <1>c
    <2> QED
      BY <1>0, <1>a, <1>c, <2>1
  <1>2. PICK c \in Nat : c = Len(paginas[pid])
    BY LenProperties DEF IInvTipos, Tipos
  <1>3. PICK maximo \in Nat : maximo = MaxPaginas[config][pid]
    BY UsadasBien DEF IInvTipos, Tipos
  <1>4. /\ nuevas \in Seq(Nat) /\ c + Len(nuevas) <= maximo
        /\ \A i \in DOMAIN nuevas : nuevas[i] = Nueva
    BY <1>1, <1>2, <1>3, <1>c
  <1>5. PICK s \in Seq(Nat), tipo \in {"PRIMER_MEMALLOC", "MEMALLOC"} :
          /\ s \o nuevas # <<>> /\ Empieza(tipo, s \o nuevas)
          /\ \A i \in DOMAIN s : s[i] \in 1..c
    <2>1. CASE /\ paginas[pid] = <<>> /\ nuevas # <<>>
               /\ Empieza("PRIMER_MEMALLOC", nuevas)
      <3>1. <<>> \o nuevas = nuevas
        BY <1>4, ConcatEmptySeq
      <3>2. <<>> \in Seq(Nat) /\ \A i \in DOMAIN <<>> : <<>>[i] \in 1..c
        OBVIOUS
      <3> QED
        BY <2>1, <3>1, <3>2
    <2>2. CASE /\ paginas[pid] # <<>>
               /\ \E otras \in SUBSET (2..Len(paginas[pid])) :
                    Empieza("MEMALLOC", <<1>> \o EnOrden(pid, otras) \o nuevas)
      <3>1. PICK otras \in SUBSET (2..c) :
              Empieza("MEMALLOC", <<1>> \o EnOrden(pid, otras) \o nuevas)
        BY <1>2, <2>2
      <3>2. PICK t : t = EnOrden(pid, otras)
        OBVIOUS
      <3>3. t \in Seq(Nat) /\ \A i \in DOMAIN t : t[i] \in otras
        <4>1. otras \in SUBSET (1..c)
          OBVIOUS
        <4> QED
          BY <1>2, <3>2, <4>1, EnOrdenBien
      <3>4. 1 <= c
        <4>1. paginas[pid] \in Seq(DePagina)
          BY DEF IInvTipos, Tipos
        <4> QED
          BY <1>2, <2>2, <4>1, EmptySeq
      <3>5. PICK s : s = <<1>> \o t
        OBVIOUS
      <3>6. PICK m \in Nat : m = Len(t)
        BY <3>3, LenProperties
      <3>7. /\ s \in Seq(Nat) /\ Len(s) = 1 + m /\ DOMAIN s = 1..(1 + m)
            /\ DOMAIN t = 1..m
            /\ \A i \in 1..(1 + m) : s[i] = IF i <= 1 THEN 1 ELSE t[i - 1]
        <4>1. <<1>> \in Seq(Nat) /\ Len(<<1>>) = 1 /\ <<1>>[1] = 1
          OBVIOUS
        <4>2. /\ s \in Seq(Nat) /\ Len(s) = Len(<<1>>) + m
              /\ \A i \in 1..(Len(<<1>>) + m) :
                   s[i] = IF i <= Len(<<1>>) THEN <<1>>[i]
                                             ELSE t[i - Len(<<1>>)]
          BY <3>3, <3>5, <3>6, <4>1, ConcatProperties
        <4>3. \A i \in 1..(1 + m) : i <= 1 => i = 1
          OBVIOUS
        <4> QED
          BY <3>3, <3>6, <4>1, <4>2, <4>3, LenProperties
      <3>8. ASSUME NEW i \in 1..(1 + m)
            PROVE  s[i] \in 1..c
        <4>1. CASE i <= 1
          BY <3>4, <3>7, <4>1
        <4>2. CASE ~(i <= 1)
          <5>1. i - 1 \in 1..m /\ s[i] = t[i - 1]
            BY <3>7, <4>2
          <5>2. t[i - 1] \in otras
            BY <3>3, <3>7, <5>1
          <5>3. \A q \in otras : q \in 1..c
            OBVIOUS
          <5> QED
            BY <5>1, <5>2, <5>3
        <4> QED
          BY <4>1, <4>2
      <3>9. s \o nuevas # <<>>
        <4>1. Len(nuevas) \in Nat
          BY <1>4, LenProperties
        <4>2. /\ Len(s \o nuevas) = Len(s) + Len(nuevas)
              /\ s \o nuevas \in Seq(Nat)
          BY <1>4, <3>7, ConcatProperties
        <4>3. Len(s \o nuevas) # 0
          BY <3>7, <4>1, <4>2
        <4> QED
          BY <4>3
      <3> QED
        BY <3>1, <3>2, <3>5, <3>7, <3>8, <3>9
    <2> QED
      BY <1>1, <2>1, <2>2
  <1>6. PICK faltan : faltan = s \o nuevas
    OBVIOUS
  <1>7. faltan \in Seq(Nat) /\ FaltanBien(faltan, FALSE, c, maximo)
    BY <1>4, <1>5, <1>6, FaltanConNuevas
  <1>8. FaltanBien(faltan, tipo \in {"MEMREAD", "MEMWRITE"},
                   Len(paginas[pid]), MaxPaginas[config][pid])
    BY <1>2, <1>3, <1>7 DEF FaltanBien
  <1>9. tabla_paginas' = pid
    BY <1>1 DEF BuscaTabla
  <1>10. tabla_procesos' \in Seq(Procesos) /\ Unica(tabla_procesos')
    BY <1>1, BuscaTablaBien DEF IInvTipos, Tipos
  <1>11. tipo \in Pedidos
    BY DEF Pedidos
  <1> QED
    BY <1>5, <1>6, <1>7, <1>8, <1>9, <1>10, <1>11, EmpiezaBien DEF IInvTipos

LEMMA MemFreeTipa ==
  ASSUME IInvTipos, MemFree
  PROVE  IInvTipos'
  <1>1. CASE Cae
    BY <1>1, QuietoBien DEF Cae, IInvTipos, Tipos
  <1>2. CASE ~Cae
    <2>1. /\ tabla_paginas # Nadie
          /\ UNCHANGED <<tabla_paginas, tabla_procesos>>
      BY <1>2 DEF MemFree
    <2>2. PICK antes \in 1..(Cantidad + 1), despues \in 1..(Cantidad + 1),
               k \in 1..4 :
            Empieza(IF k = 4 THEN "MEMFREE" ELSE "MEMFREE_PARCIAL",
                    [i \in 1..k |-> IF i % 2 = 1 THEN antes ELSE despues])
      BY <1>2 DEF MemFree
    <2>3. PICK pid \in Procesos : pid = tabla_paginas
      BY <2>1 DEF IInvTipos, Tipos
    <2>4. Cantidad \in Nat
      BY <2>3, LenProperties DEF IInvTipos, Tipos, Cantidad
    <2>5. antes \in Nat \ {0} /\ despues \in Nat \ {0} /\ k \in Nat \ {0}
      BY <2>4
    <2>6. PICK faltan :
            faltan = [i \in 1..k |-> IF i % 2 = 1 THEN antes ELSE despues]
      OBVIOUS
    <2>7. /\ faltan \in Seq(Nat) /\ Len(faltan) = k /\ DOMAIN faltan = 1..k
          /\ \A i \in DOMAIN faltan : faltan[i] # 0
      BY <2>5, <2>6
    <2>8. PICK tipo \in {"MEMFREE", "MEMFREE_PARCIAL"} : Empieza(tipo, faltan)
      BY <2>2, <2>6
    <2>9. faltan # <<>> /\ tipo \in Pedidos
      BY <2>5, <2>7 DEF Pedidos
    <2>10. FaltanBien(faltan, tipo \in {"MEMREAD", "MEMWRITE"},
                      Len(paginas[pid]), MaxPaginas[config][pid])
      BY <2>7 DEF FaltanBien, Nueva
    <2>11. /\ tabla_paginas' = pid /\ tabla_procesos' \in Seq(Procesos)
           /\ Unica(tabla_procesos')
      BY <2>1, <2>3 DEF IInvTipos, Tipos
    <2> QED
      BY <2>7, <2>8, <2>9, <2>10, <2>11, EmpiezaBien DEF IInvTipos
  <1> QED
    BY <1>1, <1>2

LEMMA LimpiaTlbTipa ==
  ASSUME IInvTipos, LimpiaTlb
  PROVE  IInvTipos'
  <1>1. tlb' \in Seq(DeTlb) /\ Len(tlb') = 0 /\ caida' \in BOOLEAN
    BY DEF LimpiaTlb, IInvTipos, Tipos
  <1>2. Len(tlb') <= config.CANTIDAD_ENTRADAS_TLB
    BY <1>1, ConfigBien DEF IInvTipos, Tipos
  <1> QED
    BY <1>1, <1>2, QuietoBien DEF LimpiaTlb, IInvTipos

LEMMA NadaTipa ==
  ASSUME IInvTipos, UNCHANGED memVars
  PROVE  IInvTipos'
  BY QuietoBien DEF memVars, IInvTipos, Tipos

LEMMA CaeTipa ==
  ASSUME IInvTipos, Cae
  PROVE  IInvTipos'
  BY QuietoBien DEF Cae, IInvTipos, Tipos
-----------------------------------------------------------------------------
(* What each step does to the pages *)

\* The page that a request goes through.
LEMMA TocaBien ==
  ASSUME IInvTipos, EnCurso
  PROVE  /\ operacion \in Operaciones /\ tabla_paginas \in Procesos
         /\ Cantidad \in Nat /\ Toca \in Nat
         /\ DOMAIN paginas[tabla_paginas] = 1..Cantidad
         /\ Acceso => Toca # Nueva
         /\ Toca = Nueva =>
              Cantidad + 1 <= MaxPaginas[config][tabla_paginas]
         /\ Toca \in 1..Cantidad => /\ Actual \in Existen
                                    /\ Pagina(Actual) \in DePagina
         /\ Actual[1] = tabla_paginas /\ Actual[2] = Toca
  <1>1. /\ operacion \in Operaciones /\ tabla_paginas \in Procesos
        /\ operacion.faltan # <<>>
        /\ FaltanBien(operacion.faltan, Acceso, Cantidad,
                      MaxPaginas[config][tabla_paginas])
    BY DEF OperacionBien, IInvTipos
  <1>2. paginas[tabla_paginas] \in Seq(DePagina)
    BY <1>1 DEF IInvTipos, Tipos
  <1>3. Cantidad \in Nat /\ DOMAIN paginas[tabla_paginas] = 1..Cantidad
    BY <1>2, LenProperties DEF Cantidad
  <1>4. PICK faltan \in Seq(Nat) : faltan = operacion.faltan
    BY <1>1 DEF Operaciones
  <1>5. PICK n \in Nat : n = Len(faltan)
    BY LenProperties
  <1>6. /\ DOMAIN faltan = 1..n /\ 1 \in 1..n
        /\ Toca = faltan[1] /\ Toca \in Nat
    <2>1. DOMAIN faltan = 1..n /\ n # 0
      BY <1>1, <1>4, <1>5, LenProperties, EmptySeq
    <2>2. 1 \in 1..n
      BY <2>1
    <2>3. Toca = faltan[1]
      BY <1>4 DEF Toca
    <2> QED
      BY <1>5, <2>1, <2>2, <2>3, ElementOfSeq
  <1>7. /\ Acceso => Toca # Nueva
        /\ Toca = Nueva =>
             Cantidad + n - 1 + 1 <= MaxPaginas[config][tabla_paginas]
    BY <1>1, <1>4, <1>5, <1>6 DEF FaltanBien
  <1>8. MaxPaginas[config][tabla_paginas] \in Nat
    BY <1>1, UsadasBien DEF IInvTipos, Tipos
  <1>9. Toca = Nueva => Cantidad + 1 <= MaxPaginas[config][tabla_paginas]
    BY <1>3, <1>5, <1>6, <1>7, <1>8
  <1>10. Toca \in 1..Cantidad => /\ Actual \in Existen
                                 /\ Pagina(Actual) \in DePagina
    BY <1>1, <1>3, ExistenBien DEF Actual, IInvTipos
  <1> QED
    BY <1>1, <1>3, <1>6, <1>7, <1>9, <1>10 DEF Actual

\* The pages, those in memory and their frames stay as they are.
MismasPaginas ==
  /\ Existen' = Existen /\ Presentes' = Presentes
  /\ \A p \in Existen : Pagina(p)'.marco = Pagina(p).marco

\* The table of a process changes, but not how many pages it has.
LEMMA CambiaTabla ==
  ASSUME Tipos, config' = config, NEW q \in Procesos, NEW t \in Seq(DePagina),
         Len(t) = Len(paginas[q]), paginas' = [paginas EXCEPT ![q] = t]
  PROVE  /\ paginas' \in [Procesos -> Seq(DePagina)]
         /\ \A p \in Procesos : Len(paginas'[p]) = Len(paginas[p])
         /\ Existen' = Existen
         /\ \A p \in Existen :
              Pagina(p)' = IF p[1] = q THEN t[p[2]] ELSE Pagina(p)
  <1>1. paginas \in [Procesos -> Seq(DePagina)]
    BY DEF Tipos
  <1>2. /\ paginas' \in [Procesos -> Seq(DePagina)] /\ paginas'[q] = t
        /\ \A p \in Procesos \ {q} : paginas'[p] = paginas[p]
    BY <1>1
  <1>3. \A p \in Procesos : Len(paginas'[p]) = Len(paginas[p])
    BY <1>2
  <1>4. Existen' = Existen
    BY <1>3, UsadasBien DEF Existen
  <1>5. ASSUME NEW p \in Existen
        PROVE  Pagina(p)' = IF p[1] = q THEN t[p[2]] ELSE Pagina(p)
    BY <1>2, ExistenBien DEF Pagina
  <1> QED
    BY <1>2, <1>3, <1>4, <1>5

\* The pages in memory, if none changes.
LEMMA PresentesIguales ==
  ASSUME Existen' = Existen,
         \A p \in Existen : Pagina(p)'.presencia = Pagina(p).presencia
  PROVE  Presentes' = Presentes
  <1>1. Presentes = {p \in Existen : Pagina(p).presencia}
    BY DEF Presentes, Existen
  <1>2. Presentes' = {p \in Existen' : Pagina(p)'.presencia}
    BY DEF Presentes, Existen
  <1> QED
    BY <1>1, <1>2

\* A page changes, but neither its frame nor whether it is in memory.
LEMMA MismaPagina ==
  ASSUME Tipos, config' = config, NEW p \in Existen, NEW r \in DePagina,
         r.marco = Pagina(p).marco, r.presencia = Pagina(p).presencia,
         paginas' = [paginas EXCEPT ![p[1]] = [paginas[p[1]] EXCEPT ![p[2]] = r]]
  PROVE  /\ paginas' \in [Procesos -> Seq(DePagina)]
         /\ \A q \in Procesos : Len(paginas'[q]) = Len(paginas[q])
         /\ MismasPaginas
  <1>1. PICK q \in Procesos, n \in Nat :
          /\ q = p[1] /\ n = p[2] /\ p = <<q, n>>
          /\ n \in DOMAIN paginas[q]
    BY ExistenBien, UsadasBien
  <1>2. /\ paginas' \in [Procesos -> Seq(DePagina)]
        /\ \A a \in Procesos : Len(paginas'[a]) = Len(paginas[a])
        /\ Existen' = Existen
        /\ \A x \in Existen :
             Pagina(x)' = IF x = <<q, n>> THEN r ELSE Pagina(x)
    <2>1. paginas' = [paginas EXCEPT ![q] = [paginas[q] EXCEPT ![n] = r]]
      BY <1>1
    <2>2. n \in DOMAIN paginas[q] /\ r \in DePagina
      BY <1>1
    <2> QED
      BY <2>1, <2>2, CambiaPagina, Zenon
  <1>3. \A x \in Existen : /\ Pagina(x)'.marco = Pagina(x).marco
                           /\ Pagina(x)'.presencia = Pagina(x).presencia
    BY <1>1, <1>2
  <1> QED
    BY <1>2, <1>3, PresentesIguales DEF MismasPaginas

LEMMA AccedeVista ==
  ASSUME IInvTipos, Accede
  PROVE  /\ paginas' \in [Procesos -> Seq(DePagina)]
         /\ \A q \in Procesos : Len(paginas'[q]) = Len(paginas[q])
         /\ MismasPaginas /\ Actual \in Existen
         /\ Toca # Nueva /\ EnCurso
  <1>1. /\ EnCurso /\ Acceso /\ Toca <= Cantidad /\ config' = config
    BY DEF Accede, Falta, EnPaso, EnCurso
  <1>2. /\ Actual \in Existen /\ Pagina(Actual) \in DePagina /\ Toca # Nueva
        /\ Actual[1] = tabla_paginas /\ Actual[2] = Toca
    <2>1. /\ Toca \in 1..Cantidad => Actual \in Existen
                                     /\ Pagina(Actual) \in DePagina
          /\ Toca \in Nat /\ Toca # Nueva /\ Cantidad \in Nat
          /\ Actual[1] = tabla_paginas /\ Actual[2] = Toca
      BY <1>1, TocaBien
    <2> QED
      BY <1>1, <2>1 DEF Nueva
  <1>3. CASE ~Clock
    <2>1. paginas' = paginas
      BY <1>3 DEF Accede
    <2> QED
      BY <1>1, <1>2, <2>1
         DEF MismasPaginas, Existen, Presentes, Pagina, IInvTipos, Tipos
  <1>4. CASE Clock
    <2>1. PICK p \in Existen : p = Actual
      BY <1>2
    <2>2. PICK r : r = IF operacion.tipo = "MEMWRITE"
                       THEN [Pagina(p) EXCEPT !.modificado = TRUE]
                       ELSE [Pagina(p) EXCEPT !.uso = TRUE]
      OBVIOUS
    <2>3. /\ r \in DePagina /\ r.marco = Pagina(p).marco
          /\ r.presencia = Pagina(p).presencia
      BY <1>2, <2>1, <2>2 DEF DePagina
    <2>4. paginas' = [paginas EXCEPT ![tabla_paginas][Toca] =
                       IF operacion.tipo = "MEMWRITE"
                       THEN [@ EXCEPT !.modificado = TRUE]
                       ELSE [@ EXCEPT !.uso = TRUE]]
      BY <1>4 DEF Accede
    <2>5. paginas' =
            [paginas EXCEPT ![p[1]] = [paginas[p[1]] EXCEPT ![p[2]] = r]]
      BY <1>2, <2>1, <2>2, <2>4 DEF Pagina
    <2> QED
      BY <1>1, <1>2, <2>3, <2>5, MismaPagina DEF IInvTipos
  <1> QED
    BY <1>3, <1>4

LEMMA AgregaPaginaVista ==
  ASSUME IInvTipos, EnCurso, Toca = Nueva, NEW m \in Marcos,
         NEW libre \in BOOLEAN, AgregaPagina(m, libre)
  PROVE  \E p \in Usadas \ Existen :
           /\ p = <<tabla_paginas, Cantidad + 1>>
           /\ paginas' \in [Procesos -> Seq(DePagina)]
           /\ \A q \in Procesos :
                Len(paginas'[q]) = Len(paginas[q])
                                     + (IF q = tabla_paginas THEN 1 ELSE 0)
           /\ Existen' = Existen \cup {p}
           /\ Presentes' = Presentes \cup {p}
           /\ Pagina(p)'.marco = m
           /\ \A x \in Existen : Pagina(x)' = Pagina(x)
  <1>1. PICK q \in Procesos, n \in Nat :
          /\ q = tabla_paginas /\ n = Cantidad
          /\ n + 1 <= MaxPaginas[config][q]
    BY TocaBien
  <1>2. PICK modificado \in (IF Clock THEN BOOLEAN ELSE {FALSE}) :
          paginas' = [paginas EXCEPT ![tabla_paginas] = Append(@,
            [marco |-> m, presencia |-> TRUE, uso |-> Clock,
             modificado |-> modificado])]
    BY DEF AgregaPagina
  <1>3. PICK r : r = [marco |-> m, presencia |-> TRUE, uso |-> Clock,
                      modificado |-> modificado]
    OBVIOUS
  <1>4. r \in DePagina /\ r.marco = m /\ r.presencia
    <2>1. modificado \in BOOLEAN /\ Clock \in BOOLEAN
      BY DEF Clock
    <2> QED
      BY <1>3, <2>1 DEF DePagina
  <1>5. /\ n = Len(paginas[q]) /\ config' = config
        /\ paginas' = [paginas EXCEPT ![q] = Append(paginas[q], r)]
    BY <1>1, <1>2, <1>3 DEF Cantidad, AgregaPagina
  <1>6. /\ paginas' \in [Procesos -> Seq(DePagina)]
        /\ \A p \in Procesos :
             Len(paginas'[p]) = Len(paginas[p]) + (IF p = q THEN 1 ELSE 0)
        /\ <<q, n + 1>> \in Usadas \ Existen
        /\ Existen' = Existen \cup {<<q, n + 1>>}
        /\ Pagina(<<q, n + 1>>)' = r
        /\ \A p \in Existen : Pagina(p)' = Pagina(p)
    BY <1>1, <1>4, <1>5, CreaPagina DEF IInvTipos
  <1>7. PICK p \in Usadas \ Existen : p = <<q, n + 1>>
    BY <1>6
  <1>8. Presentes' = Presentes \cup {p}
    <2>1. Presentes = {x \in Existen : Pagina(x).presencia}
      BY DEF Presentes, Existen
    <2>2. Presentes' = {x \in Existen' : Pagina(x)'.presencia}
      BY DEF Presentes, Existen
    <2>3. Pagina(p)'.presencia
      BY <1>4, <1>6, <1>7
    <2> QED
      BY <1>6, <1>7, <2>1, <2>2, <2>3
  <1>9. Pagina(p)'.marco = m
    BY <1>4, <1>6, <1>7
  <1> QED
    BY <1>1, <1>6, <1>7, <1>8, <1>9

\* A page changes: whether it is in memory is as it says now.
LEMMA UnaPagina ==
  ASSUME Tipos, config' = config, NEW p \in Existen, NEW r \in DePagina,
         paginas' = [paginas EXCEPT ![p[1]] = [paginas[p[1]] EXCEPT ![p[2]] = r]]
  PROVE  /\ paginas' \in [Procesos -> Seq(DePagina)]
         /\ \A q \in Procesos : Len(paginas'[q]) = Len(paginas[q])
         /\ Existen' = Existen
         /\ r.presencia => Presentes' = Presentes \cup {p}
         /\ ~r.presencia => Presentes' = Presentes \ {p}
         /\ \A x \in Existen : Pagina(x)' = IF x = p THEN r ELSE Pagina(x)
  <1>1. PICK q \in Procesos, n \in Nat :
          /\ q = p[1] /\ n = p[2] /\ p = <<q, n>>
          /\ n \in DOMAIN paginas[q]
    BY ExistenBien, UsadasBien
  <1>2. /\ paginas' \in [Procesos -> Seq(DePagina)]
        /\ \A a \in Procesos : Len(paginas'[a]) = Len(paginas[a])
        /\ Existen' = Existen
        /\ \A x \in Existen :
             Pagina(x)' = IF x = <<q, n>> THEN r ELSE Pagina(x)
    <2>1. paginas' = [paginas EXCEPT ![q] = [paginas[q] EXCEPT ![n] = r]]
      BY <1>1
    <2>2. n \in DOMAIN paginas[q] /\ r \in DePagina
      BY <1>1
    <2> QED
      BY <2>1, <2>2, CambiaPagina, Zenon
  <1>3. \A x \in Existen : Pagina(x)' = IF x = p THEN r ELSE Pagina(x)
    BY <1>1, <1>2
  <1>4. Presentes = {x \in Existen : Pagina(x).presencia}
    BY DEF Presentes, Existen
  <1>5. Presentes' = {x \in Existen' : Pagina(x)'.presencia}
    BY DEF Presentes, Existen
  <1>6. r.presencia => Presentes' = Presentes \cup {p}
    BY <1>2, <1>3, <1>4, <1>5
  <1>7. ~r.presencia => Presentes' = Presentes \ {p}
    BY <1>2, <1>3, <1>4, <1>5
  <1> QED
    BY <1>2, <1>3, <1>6, <1>7

\* The page that was needed, not in memory, comes into a frame.
LEMMA ConMarcoLibreVista ==
  ASSUME IInvTipos, ConMarcoLibre, GetMarco \in Marcos, ~SinReloj,
         Toca # Nueva
  PROVE  /\ paginas' \in [Procesos -> Seq(DePagina)]
         /\ \A q \in Procesos : Len(paginas'[q]) = Len(paginas[q])
         /\ EnCurso /\ Actual \in Existen \ Presentes
         /\ Existen' = Existen /\ Presentes' = Presentes \cup {Actual}
         /\ \A x \in Existen : Pagina(x)'.marco =
              IF x = Actual THEN GetMarco ELSE Pagina(x).marco
  <1>1. /\ EnCurso /\ Toca \in 1..Cantidad /\ ~AMano /\ config' = config
        /\ paginas' = [paginas EXCEPT ![tabla_paginas][Toca] =
                         [@ EXCEPT !.marco = GetMarco, !.presencia = TRUE]]
    BY DEF ConMarcoLibre, Necesita, Falta, EnPaso, EnCurso
  <1>2. PICK p \in Existen : p = Actual
    BY <1>1, TocaBien
  <1>3. p \notin Presentes /\ p[1] = tabla_paginas /\ p[2] = Toca
        /\ Pagina(p) \in DePagina
    BY <1>1, <1>2, TocaBien DEF AMano, Presentes
  <1>4. PICK m \in Marcos : m = GetMarco
    OBVIOUS
  <1>5. PICK r : r = [Pagina(p) EXCEPT !.marco = m, !.presencia = TRUE]
    OBVIOUS
  <1>6. r \in DePagina /\ r.presencia /\ r.marco = m
    BY <1>3, <1>5 DEF DePagina
  <1>7. paginas' =
          [paginas EXCEPT ![p[1]] = [paginas[p[1]] EXCEPT ![p[2]] = r]]
    BY <1>1, <1>3, <1>4, <1>5 DEF Pagina
  <1>8. /\ paginas' \in [Procesos -> Seq(DePagina)]
        /\ \A q \in Procesos : Len(paginas'[q]) = Len(paginas[q])
        /\ Existen' = Existen /\ Presentes' = Presentes \cup {p}
        /\ \A x \in Existen : Pagina(x)' = IF x = p THEN r ELSE Pagina(x)
    BY <1>1, <1>6, <1>7, UnaPagina DEF IInvTipos
  <1> QED
    BY <1>1, <1>2, <1>3, <1>4, <1>6, <1>8

\* The victim leaves memory, and its frame is for the page that needs it.
LEMMA DejaVista ==
  ASSUME IInvTipos, NEW v \in Existen, NEW lugar, Deja(v, lugar)
  PROVE  /\ paginas' \in [Procesos -> Seq(DePagina)]
         /\ \A q \in Procesos : Len(paginas'[q]) = Len(paginas[q])
         /\ Existen' = Existen /\ Presentes' = Presentes \ {v}
         /\ \A x \in Existen : Pagina(x)'.marco = Pagina(x).marco
  <1>1. /\ config' = config
        /\ paginas' = [paginas EXCEPT ![v[1]][v[2]].presencia = FALSE]
    BY DEF Deja
  <1>2. Pagina(v) \in DePagina
    BY ExistenBien DEF IInvTipos
  <1>3. PICK r : r = [Pagina(v) EXCEPT !.presencia = FALSE]
    OBVIOUS
  <1>4. r \in DePagina /\ ~r.presencia /\ r.marco = Pagina(v).marco
    BY <1>2, <1>3 DEF DePagina
  <1>5. paginas' =
          [paginas EXCEPT ![v[1]] = [paginas[v[1]] EXCEPT ![v[2]] = r]]
    BY <1>1, <1>3 DEF Pagina
  <1>6. /\ paginas' \in [Procesos -> Seq(DePagina)]
        /\ \A q \in Procesos : Len(paginas'[q]) = Len(paginas[q])
        /\ Existen' = Existen /\ Presentes' = Presentes \ {v}
        /\ \A x \in Existen : Pagina(x)' = IF x = v THEN r ELSE Pagina(x)
    BY <1>1, <1>4, <1>5, UnaPagina DEF IInvTipos
  <1> QED
    BY <1>4, <1>6

\* The page that is asked back gets the frame.
LEMMA PideVista ==
  ASSUME IInvTipos, Pide
  PROVE  /\ paginas' \in [Procesos -> Seq(DePagina)]
         /\ \A q \in Procesos : Len(paginas'[q]) = Len(paginas[q])
         /\ Existen' = Existen /\ Presentes' = Presentes
         /\ Actual \in Existen \ Presentes /\ ConSuMarco /\ Toca # Nueva
         /\ \A x \in Existen : Pagina(x)'.marco =
              IF x = Actual THEN operacion.marco ELSE Pagina(x).marco
  <1>1. /\ ConSuMarco /\ Toca # Nueva /\ config' = config /\ EnCurso
        /\ paginas' =
             [paginas EXCEPT ![tabla_paginas][Toca].marco = operacion.marco]
    BY DEF Pide, EnPaso, ConSuMarco, EnCurso
  <1>2. Actual \in Existen \ Presentes /\ operacion.marco \in Marcos
    BY <1>1 DEF IInvTipos, ReemplazoBien, Reemplazando
  <1>3. PICK p \in Existen, m \in Marcos : p = Actual /\ m = operacion.marco
    BY <1>2
  <1>4. p[1] = tabla_paginas /\ p[2] = Toca /\ Pagina(p) \in DePagina
    BY <1>1, <1>3, TocaBien, ExistenBien DEF IInvTipos
  <1>5. PICK r : r = [Pagina(p) EXCEPT !.marco = m]
    OBVIOUS
  <1>6. r \in DePagina /\ r.presencia = Pagina(p).presencia /\ r.marco = m
    BY <1>4, <1>5 DEF DePagina
  <1>7. paginas' =
          [paginas EXCEPT ![p[1]] = [paginas[p[1]] EXCEPT ![p[2]] = r]]
    BY <1>1, <1>3, <1>4, <1>5 DEF Pagina
  <1>8. ~Pagina(p).presencia
    BY <1>2, <1>3 DEF Presentes, Existen
  <1>9. /\ paginas' \in [Procesos -> Seq(DePagina)]
        /\ \A q \in Procesos : Len(paginas'[q]) = Len(paginas[q])
        /\ Existen' = Existen /\ Presentes' = Presentes \ {p}
        /\ \A x \in Existen : Pagina(x)' = IF x = p THEN r ELSE Pagina(x)
    BY <1>1, <1>6, <1>7, <1>8, UnaPagina DEF IInvTipos
  <1>10. Presentes' = Presentes
    BY <1>2, <1>3, <1>9
  <1> QED
    BY <1>1, <1>2, <1>3, <1>6, <1>9, <1>10

\* The page that was asked back is in memory.
LEMMA TrajoVista ==
  ASSUME IInvTipos, Trajo
  PROVE  /\ paginas' \in [Procesos -> Seq(DePagina)]
         /\ \A q \in Procesos : Len(paginas'[q]) = Len(paginas[q])
         /\ Existen' = Existen /\ Presentes' = Presentes \cup {Actual}
         /\ Actual \in Existen \ Presentes /\ Trayendo /\ Toca # Nueva
         /\ \A x \in Existen : Pagina(x)'.marco = Pagina(x).marco
  <1>1. /\ Trayendo /\ config' = config /\ EnCurso
        /\ paginas' = [paginas EXCEPT ![tabla_paginas][Toca].presencia = TRUE]
    BY DEF Trajo, EnPaso, Trayendo, EnCurso
  <1>2. Actual \in Existen \ Presentes /\ Toca # Nueva
    BY <1>1 DEF IInvTipos, ReemplazoBien, Reemplazando
  <1>3. PICK p \in Existen : p = Actual
    BY <1>2
  <1>4. p[1] = tabla_paginas /\ p[2] = Toca /\ Pagina(p) \in DePagina
    BY <1>1, <1>3, TocaBien, ExistenBien DEF IInvTipos
  <1>5. PICK r : r = [Pagina(p) EXCEPT !.presencia = TRUE]
    OBVIOUS
  <1>6. r \in DePagina /\ r.presencia /\ r.marco = Pagina(p).marco
    BY <1>4, <1>5 DEF DePagina
  <1>7. paginas' =
          [paginas EXCEPT ![p[1]] = [paginas[p[1]] EXCEPT ![p[2]] = r]]
    BY <1>1, <1>3, <1>4, <1>5 DEF Pagina
  <1>8. /\ paginas' \in [Procesos -> Seq(DePagina)]
        /\ \A q \in Procesos : Len(paginas'[q]) = Len(paginas[q])
        /\ Existen' = Existen /\ Presentes' = Presentes \cup {p}
        /\ \A x \in Existen : Pagina(x)' = IF x = p THEN r ELSE Pagina(x)
    BY <1>1, <1>6, <1>7, UnaPagina DEF IInvTipos
  <1> QED
    BY <1>1, <1>2, <1>3, <1>6, <1>8
-----------------------------------------------------------------------------
(* The clock *)

LEMMA RestoBien ==
  ASSUME NEW a \in Nat, NEW n \in Nat, n > 0
  PROVE  /\ a % n \in 0..(n - 1)
         /\ a < n => a % n = a
  OBVIOUS

\* A turn goes to places of the list; to the last of them if the hand is
\* within the list.
LEMMA VueltaBien ==
  ASSUME NEW l \in Seq(Usadas), l = lista_reemplazo[Lista],
         ultimo_Clock[tabla_paginas] \in Nat
  PROVE  /\ DOMAIN Vuelta = DOMAIN l /\ Len(Vuelta) = Len(l)
         /\ \A i \in DOMAIN Vuelta : Vuelta[i] \in DOMAIN l
         /\ ultimo_Clock[tabla_paginas] < Len(l) =>
              \E i \in DOMAIN Vuelta : Vuelta[i] = Len(l)
  <1>1. PICK n \in Nat : n = Len(l)
    BY LenProperties
  <1>2. PICK u \in Nat : u = ultimo_Clock[tabla_paginas]
    OBVIOUS
  <1>3. DOMAIN l = 1..n
    BY <1>1, LenProperties
  <1>4. Vuelta = [i \in 1..n |-> ((i - 1 + u) % n) + 1]
    BY <1>1, <1>2 DEF Vuelta
  <1>5. ASSUME NEW i \in 1..n
        PROVE  Vuelta[i] \in 1..n
    <2>1. i - 1 + u \in Nat /\ n > 0
      OBVIOUS
    <2>2. (i - 1 + u) % n \in 0..(n - 1)
      BY <2>1, RestoBien
    <2>3. Vuelta[i] = ((i - 1 + u) % n) + 1
      BY <1>4
    <2> QED
      BY <2>2, <2>3
  <1>6. ASSUME u < n
        PROVE  \E i \in 1..n : Vuelta[i] = n
    <2>1. n - u \in 1..n /\ (n - u) - 1 + u = n - 1 /\ n - 1 \in Nat /\ n > 0
      BY <1>6
    <2>2. (n - 1) % n = n - 1
      BY <2>1, RestoBien
    <2>3. Vuelta[n - u] = ((n - 1) % n) + 1
      BY <1>4, <2>1
    <2>4. Vuelta[n - u] = n
      BY <2>1, <2>2, <2>3
    <2> QED
      BY <2>1, <2>4
  <1>7. Len(Vuelta) = n /\ DOMAIN Vuelta = 1..n
    BY <1>4
  <1> QED
    BY <1>1, <1>2, <1>3, <1>5, <1>6, <1>7

\* The victim of the clock is a page in memory; if there is none, no page that
\* the turn goes through is in memory.
LEMMA GiraBien ==
  ASSUME Tipos, tabla_paginas \in Procesos,
         NEW l \in Seq(Usadas), l = lista_reemplazo[Lista],
         Range(l) \subseteq Existen
  PROVE  /\ Gira.lugar # 0 =>
              /\ Gira.lugar \in DOMAIN Vuelta
              /\ Vuelta[Gira.lugar] \in DOMAIN l
              /\ l[Vuelta[Gira.lugar]] \in Presentes
         /\ Gira.lugar = 0 =>
              \A i \in DOMAIN Vuelta : l[Vuelta[i]] \notin Presentes
  <1> DEFINE Clase(u, m) ==
               {i \in DOMAIN Vuelta :
                  /\ Pagina(lista_reemplazo[Lista][Vuelta[i]]).presencia
                  /\ u \/ ~Pagina(lista_reemplazo[Lista][Vuelta[i]]).uso
                  /\ Pagina(lista_reemplazo[Lista][Vuelta[i]]).modificado = m}
  <1>1. PICK n \in Nat : n = Len(l) /\ DOMAIN l = 1..n
    BY LenProperties
  <1>2. ultimo_Clock[tabla_paginas] \in Nat
    BY DEF Tipos
  <1>3. DOMAIN Vuelta = 1..n /\ \A i \in 1..n : Vuelta[i] \in 1..n
    BY <1>1, <1>2, VueltaBien
  <1>4. ASSUME NEW i \in 1..n
        PROVE  /\ l[Vuelta[i]] \in Existen
               /\ Pagina(l[Vuelta[i]]) \in DePagina
               /\ l[Vuelta[i]] \in Presentes
                    <=> Pagina(l[Vuelta[i]]).presencia
    <2>1. l[Vuelta[i]] \in Range(l)
      BY <1>1, <1>3 DEF Range
    <2>2. PICK p \in Existen : p = l[Vuelta[i]]
      BY <2>1
    <2>3. Pagina(p) \in DePagina /\ (p \in Presentes <=> Pagina(p).presencia)
      BY ExistenBien DEF Presentes, Existen
    <2> QED
      BY <2>2, <2>3
  <1>5. ASSUME NEW u \in BOOLEAN, NEW m \in BOOLEAN
        PROVE  /\ Primero(Clase(u, m)) = 0 <=> Clase(u, m) = {}
               /\ Primero(Clase(u, m)) # 0 =>
                    /\ Primero(Clase(u, m)) \in 1..n
                    /\ l[Vuelta[Primero(Clase(u, m))]] \in Presentes
    <2>1. PICK C \in SUBSET (1..n) : C = Clase(u, m)
      BY <1>3
    <2>2. /\ Primero(C) = 0 <=> C = {}
          /\ C # {} => Primero(C) \in C
      BY PrimeroEsMinimo
    <2>3. ASSUME NEW i \in C
          PROVE  i \in 1..n /\ l[Vuelta[i]] \in Presentes
      BY <1>4, <2>1
    <2> QED
      BY <2>1, <2>2, <2>3
  <1>6. Clase(TRUE, FALSE) = {} /\ Clase(TRUE, TRUE) = {} =>
          \A i \in 1..n : l[Vuelta[i]] \notin Presentes
    <2> SUFFICES ASSUME NEW i \in 1..n, l[Vuelta[i]] \in Presentes
                 PROVE  i \in Clase(TRUE, FALSE) \/ i \in Clase(TRUE, TRUE)
      OBVIOUS
    <2>1. Pagina(l[Vuelta[i]]).modificado \in BOOLEAN
      BY <1>4 DEF DePagina
    <2>2. Pagina(l[Vuelta[i]]).presencia
      BY <1>4
    <2> QED
      BY <1>3, <2>1, <2>2
  <1>7. \/ /\ Primero(Clase(FALSE, FALSE)) # 0
           /\ Gira.lugar = Primero(Clase(FALSE, FALSE))
        \/ /\ Primero(Clase(FALSE, TRUE)) # 0
           /\ Gira.lugar = Primero(Clase(FALSE, TRUE))
        \/ /\ Primero(Clase(TRUE, FALSE)) # 0
           /\ Gira.lugar = Primero(Clase(TRUE, FALSE))
        \/ /\ Primero(Clase(TRUE, FALSE)) = 0
           /\ Gira.lugar = Primero(Clase(TRUE, TRUE))
    BY DEF Gira
  <1> HIDE DEF Clase
  <1>8. Gira.lugar # 0 => /\ Gira.lugar \in 1..n
                          /\ l[Vuelta[Gira.lugar]] \in Presentes
    BY <1>5, <1>7
  <1>9. Gira.lugar = 0 => /\ Primero(Clase(TRUE, FALSE)) = 0
                          /\ Primero(Clase(TRUE, TRUE)) = 0
    BY <1>7
  <1> QED
    BY <1>1, <1>3, <1>5, <1>6, <1>8, <1>9

\* The pages that lose their use stay where they are.
LEMMA ReemplazaClockVista ==
  ASSUME IInvTipos, ReemplazaClock, ~Cae
  PROVE  /\ paginas' \in [Procesos -> Seq(DePagina)]
         /\ \A q \in Procesos : Len(paginas'[q]) = Len(paginas[q])
         /\ MismasPaginas /\ Fija /\ Gira.lugar # 0
         /\ lista_reemplazo[Lista] # <<>> =>
              ultimo_Clock[tabla_paginas] < Len(lista_reemplazo[Lista])
         /\ Envia(lista_reemplazo[Lista][Vuelta[Gira.lugar]],
                  Vuelta[Gira.lugar])
         /\ UNCHANGED <<config, libres, tabla_procesos, paginas_en_memoria,
                        tabla_paginas, reemplazo, caida>>
  <1>1. /\ Necesita /\ Clock /\ ~SinReloj
        /\ lista_reemplazo[Lista] # <<>> =>
             ultimo_Clock[tabla_paginas] < Len(lista_reemplazo[Lista])
        /\ Gira.lugar # 0
        /\ Envia(lista_reemplazo[Lista][Vuelta[Gira.lugar]],
                 Vuelta[Gira.lugar])
        /\ UNCHANGED <<config, libres, tabla_procesos, paginas_en_memoria,
                       tabla_paginas, reemplazo, caida>>
    BY DEF ReemplazaClock
  <1>2. PICK pierden :
          paginas' = [paginas EXCEPT ![tabla_paginas] =
            [n \in 1..Cantidad |->
               [Pagina(<<tabla_paginas, n>>) EXCEPT
                  !.uso = @ /\ <<tabla_paginas, n>> \notin pierden]]]
    BY DEF ReemplazaClock
  <1>3. EnCurso
    BY <1>1 DEF Necesita, Falta, EnPaso, EnCurso
  <1>4. PICK q \in Procesos, c \in Nat :
          q = tabla_paginas /\ c = Cantidad /\ DOMAIN paginas[q] = 1..c
    BY <1>3, TocaBien
  <1>5. PICK t : t = [n \in 1..c |->
                        [paginas[q][n] EXCEPT
                           !.uso = @ /\ <<q, n>> \notin pierden]]
    OBVIOUS
  <1>9. paginas' = [paginas EXCEPT ![q] = t]
    BY <1>2, <1>4, <1>5 DEF Pagina
  <1>6. \A n \in 1..c : paginas[q][n] \in DePagina
    <2>1. paginas[q] \in Seq(DePagina)
      BY DEF IInvTipos, Tipos
    <2> QED
      BY <1>4, <2>1, ElementOfSeq, LenProperties
  <1>7. ASSUME NEW n \in 1..c
        PROVE  /\ t[n] \in DePagina /\ t[n].marco = paginas[q][n].marco
               /\ t[n].presencia = paginas[q][n].presencia
    <2>1. t[n] = [paginas[q][n] EXCEPT
                    !.uso = paginas[q][n].uso /\ <<q, n>> \notin pierden]
      BY <1>5
    <2>2. PICK b \in BOOLEAN :
            b = (paginas[q][n].uso /\ <<q, n>> \notin pierden)
      OBVIOUS
    <2>3. t[n] = [paginas[q][n] EXCEPT !.uso = b]
      BY <2>1, <2>2
    <2> QED
      BY <1>6, <2>3 DEF DePagina
  <1>8. t \in Seq(DePagina) /\ Len(t) = Len(paginas[q])
    <2>1. t \in [1..c -> DePagina]
      BY <1>5, <1>7
    <2>2. c = Len(paginas[q])
      BY <1>4 DEF Cantidad
    <2> QED
      BY <2>1, <2>2, LenProperties
  <1>10. /\ paginas' \in [Procesos -> Seq(DePagina)]
         /\ \A p \in Procesos : Len(paginas'[p]) = Len(paginas[p])
         /\ Existen' = Existen
         /\ \A p \in Existen :
              Pagina(p)' = IF p[1] = q THEN t[p[2]] ELSE Pagina(p)
    BY <1>1, <1>8, <1>9, CambiaTabla DEF IInvTipos
  <1>11. ASSUME NEW p \in Existen
         PROVE  /\ Pagina(p)'.marco = Pagina(p).marco
                /\ Pagina(p)'.presencia = Pagina(p).presencia
    BY <1>4, <1>7, <1>10, ExistenBien DEF Pagina, IInvTipos
  <1>12. MismasPaginas
    BY <1>10, <1>11, PresentesIguales DEF MismasPaginas
  <1>13. Fija
    BY <1>1 DEF SinReloj
  <1> QED
    BY <1>1, <1>10, <1>12, <1>13
-----------------------------------------------------------------------------
(* The types of the steps of a request *)

\* The types, given those of what changed.
LEMMA TiposSigue ==
  ASSUME Tipos, UNCHANGED <<config, tabla_procesos, tabla_paginas>>,
         libres' \subseteq Marcos, paginas' \in [Procesos -> Seq(DePagina)],
         \A p \in Procesos : Len(paginas'[p]) <= MaxPaginas[config][p],
         paginas_en_memoria' \in [Procesos -> Int],
         lista_reemplazo' \in [Procesos \cup {Todos} -> Seq(Usadas)],
         \A l \in Procesos \cup {Todos} : Range(lista_reemplazo'[l]) \subseteq Existen',
         ultimo_Clock' \in [Procesos -> Nat],
         tlb' \in Seq(DeTlb), Len(tlb') <= config.CANTIDAD_ENTRADAS_TLB,
         referencias' \in Seq(Usadas), caida' \in BOOLEAN, cruces' \in Nat
  PROVE  Tipos'
  BY DEF Tipos, Marcos, DePagina, DeTlb

\* The same pages are missing of the request.
LEMMA SigueOperacion ==
  ASSUME OperacionBien, EnCurso, operacion' \in Operaciones,
         operacion'.faltan = operacion.faltan,
         operacion'.tipo = operacion.tipo, Cantidad' = Cantidad,
         UNCHANGED <<config, tabla_paginas>>
  PROVE  OperacionBien' /\ Toca' = Toca /\ Actual' = Actual
  BY DEF OperacionBien, Toca, Actual, Acceso, EnCurso, FaltanBien

\* A page is added to the list of replacement.
LEMMA AgregaAsignacionTipa ==
  ASSUME Tipos, tabla_paginas \in Procesos, NEW p \in Usadas, NEW libre,
         NEW E, Existen \subseteq E, p \in E
  PROVE  /\ AgregaAsignacion(p, libre)
              \in [Procesos \cup {Todos} -> Seq(Usadas)]
         /\ \A l \in Procesos \cup {Todos} :
              Range(AgregaAsignacion(p, libre)[l]) \subseteq E
  <1>1. /\ lista_reemplazo \in [Procesos \cup {Todos} -> Seq(Usadas)]
        /\ \A l \in Procesos \cup {Todos} :
             Range(lista_reemplazo[l]) \subseteq Existen
    BY DEF Tipos
  <1>2. PICK k \in Procesos \cup {Todos} : k = Lista
    BY DEF Lista
  <1>3. PICK s \in Seq(Usadas) : s = lista_reemplazo[k]
    BY <1>1
  <1>4. PICK t : t = Append(s, p)
    OBVIOUS
  <1>5. t \in Seq(Usadas) /\ Range(t) = Range(s) \cup {p}
    BY <1>4, RangoAlFinal
  <1>6. \/ AgregaAsignacion(p, libre) = lista_reemplazo
        \/ AgregaAsignacion(p, libre) = [lista_reemplazo EXCEPT ![k] = t]
    BY <1>2, <1>3, <1>4 DEF AgregaAsignacion
  <1> QED
    BY <1>1, <1>3, <1>5, <1>6

\* The TLB after an access: what it held, and the page with the frame that the
\* TLB itself or the table gave.
LEMMA AccedeTlb ==
  ASSUME IInvTipos, Accede
  PROVE  \E t \in Seq(DeTlb), m \in Marcos :
           /\ tlb' = AgregaTlb(t, Actual, m)
           /\ Range(t) \subseteq Range(tlb)
           /\ Len(t) <= config.CANTIDAD_ENTRADAS_TLB
           /\ \/ m = Pagina(Actual).marco
              \/ \E e \in Range(tlb) : e.pagina = Actual /\ e.marco = m
  <1>1. PICK a : a = EnTlb(Actual)
    OBVIOUS
  <1>2. tlb \in Seq(DeTlb) /\ Len(tlb) <= config.CANTIDAD_ENTRADAS_TLB
    BY DEF IInvTipos, Tipos
  <1>3. tlb' = AgregaTlb(IF a # 0 THEN TrasAcierto(Actual) ELSE tlb, Actual,
                         IF a # 0 THEN tlb[a].marco ELSE Pagina(Actual).marco)
    BY <1>1 DEF Accede
  <1>4. Pagina(Actual) \in DePagina
    BY AccedeVista, ExistenBien DEF IInvTipos
  <1>5. CASE a = 0
    <2>1. Pagina(Actual).marco \in Marcos
      BY <1>4 DEF DePagina
    <2> QED
      BY <1>2, <1>3, <1>5, <2>1
  <1>6. CASE a # 0
    <2>1. /\ TrasAcierto(Actual) \in Seq(DeTlb)
          /\ Len(TrasAcierto(Actual)) = Len(tlb)
          /\ Range(TrasAcierto(Actual)) \subseteq Range(tlb)
      BY <1>1, <1>2, <1>6, TrasAciertoBien
    <2>2. /\ a \in DOMAIN tlb /\ tlb[a].pagina = Actual /\ tlb[a] \in DeTlb
      BY <1>1, <1>2, <1>6, EnTlbBien
    <2>3. tlb[a] \in Range(tlb) /\ tlb[a].marco \in Marcos
      BY <2>2 DEF Range, DeTlb
    <2> QED
      BY <1>2, <1>3, <1>6, <2>1, <2>2, <2>3
  <1> QED
    BY <1>5, <1>6

LEMMA AccedeTipa ==
  ASSUME IInvTipos, Accede
  PROVE  IInvTipos'
  <1>1. /\ paginas' \in [Procesos -> Seq(DePagina)]
        /\ \A q \in Procesos : Len(paginas'[q]) = Len(paginas[q])
        /\ Existen' = Existen /\ Actual \in Existen
        /\ Toca # Nueva /\ EnCurso
    BY AccedeVista DEF MismasPaginas
  <1>2. /\ Avanza /\ referencias' = Ultima(Actual)
        /\ UNCHANGED <<config, libres, tabla_procesos, paginas_en_memoria,
                       tabla_paginas, ultimo_Clock, caida, swapVars>>
    BY DEF Accede
  <1>3. tabla_paginas \in Procesos /\ Cantidad \in Nat /\ Actual \in Usadas
    BY <1>1, TocaBien DEF Existen
  <1>4. tlb' \in Seq(DeTlb) /\ Len(tlb') <= config.CANTIDAD_ENTRADAS_TLB
    <2>1. PICK t \in Seq(DeTlb), m \in Marcos :
            /\ tlb' = AgregaTlb(t, Actual, m)
            /\ Len(t) <= config.CANTIDAD_ENTRADAS_TLB
      BY AccedeTlb
    <2> QED
      BY <1>3, <2>1, AgregaTlbBien DEF IInvTipos, Tipos
  <1>5. PICK k \in Procesos \cup {Todos} : k = Lista
    BY <1>3 DEF Lista
  <1>6. PICK p \in Existen : p = Actual
    BY <1>1
  <1>7. PICK s \in Seq(Usadas) : s = lista_reemplazo[k] /\ Range(s) \subseteq Existen
    BY DEF IInvTipos, Tipos
  <1>8. PICK t : t = ActualizaLRU(s, p)
    OBVIOUS
  <1>9. t \in Seq(Usadas) /\ Range(t) \subseteq Existen
    BY <1>7, <1>8, ActualizaLRUBien DEF Existen
  <1>10. \/ lista_reemplazo' = lista_reemplazo
         \/ lista_reemplazo' = [lista_reemplazo EXCEPT ![k] = t]
    BY <1>5, <1>6, <1>7, <1>8 DEF Accede
  <1>11. /\ lista_reemplazo' \in [Procesos \cup {Todos} -> Seq(Usadas)]
         /\ \A l \in Procesos \cup {Todos} :
              Range(lista_reemplazo'[l]) \subseteq Existen'
    BY <1>1, <1>9, <1>10 DEF IInvTipos, Tipos
  <1>12. cruces' \in Nat
    <2>1. cruces' = cruces \/ cruces' = cruces + 0 \/ cruces' = cruces + 1
      BY DEF Accede
    <2> QED
      BY <2>1 DEF IInvTipos, Tipos
  <1>13. referencias' \in Seq(Usadas)
    BY <1>2, <1>3, UltimaBien DEF IInvTipos, Tipos
  <1>14. \A q \in Procesos : Len(paginas'[q]) <= MaxPaginas[config][q]
    BY <1>1 DEF IInvTipos, Tipos
  <1>15. Tipos'
    BY <1>1, <1>2, <1>4, <1>11, <1>12, <1>13, <1>14, TiposSigue
       DEF IInvTipos, Tipos
  <1>16. Len(paginas'[tabla_paginas])
           = Cantidad + (IF Toca = Nueva THEN 1 ELSE 0)
    BY <1>1, <1>3 DEF Cantidad
  <1> QED
    BY <1>1, <1>2, <1>15, <1>16, AvanzaBien DEF IInvTipos

LEMMA RecorreTipa ==
  ASSUME IInvTipos, Recorre
  PROVE  IInvTipos'
  <1>1. /\ EnCurso /\ Toca # Nueva /\ Avanza
        /\ UNCHANGED <<config, tablas, reemplazo, tlb, caida, swapVars>>
    BY DEF Recorre, Falta, EnPaso, EnCurso, Nueva
  <1>2. Tipos'
    BY <1>1, QuietoBien DEF IInvTipos, Tipos
  <1>3. Len(paginas'[tabla_paginas])
          = Cantidad + (IF Toca = Nueva THEN 1 ELSE 0)
    <2>1. Cantidad \in Nat
      BY <1>1, TocaBien
    <2> QED
      BY <1>1, <2>1 DEF Cantidad, tablas
  <1> QED
    BY <1>1, <1>2, <1>3, AvanzaBien DEF IInvTipos, tablas

\* A page is created in a frame.
LEMMA AgregaPaginaTipa ==
  ASSUME IInvTipos, EnCurso, Toca = Nueva, NEW m \in Marcos,
         NEW libre \in BOOLEAN, AgregaPagina(m, libre)
  PROVE  IInvTipos'
  <1>1. PICK p \in Usadas \ Existen :
          /\ p = <<tabla_paginas, Cantidad + 1>>
          /\ paginas' \in [Procesos -> Seq(DePagina)]
          /\ \A q \in Procesos :
               Len(paginas'[q]) = Len(paginas[q])
                                    + (IF q = tabla_paginas THEN 1 ELSE 0)
          /\ Existen' = Existen \cup {p}
    BY AgregaPaginaVista
  <1>2. /\ libres' = libres \ {m}
        /\ paginas_en_memoria' =
             [paginas_en_memoria EXCEPT ![tabla_paginas] = @ + 1]
        /\ tlb' = AgregaTlb(tlb, p, m)
        /\ lista_reemplazo' = AgregaAsignacion(p, libre)
        /\ referencias' = Ultima(p) /\ Avanza
        /\ UNCHANGED <<config, tabla_procesos, tabla_paginas, ultimo_Clock,
                       cruces, caida, swapVars>>
    BY <1>1 DEF AgregaPagina
  <1>3. /\ tabla_paginas \in Procesos /\ Cantidad \in Nat
        /\ Cantidad + 1 <= MaxPaginas[config][tabla_paginas]
    BY TocaBien
  <1>4. Cantidad = Len(paginas[tabla_paginas])
    BY DEF Cantidad
  <1>5. \A q \in Procesos : Len(paginas'[q]) <= MaxPaginas[config][q]
    <2>1. ASSUME NEW q \in Procesos
          PROVE  Len(paginas'[q]) <= MaxPaginas[config][q]
      <3>1. CASE q = tabla_paginas
        BY <1>1, <1>3, <1>4, <3>1
      <3>2. CASE q # tabla_paginas
        <4>1. Len(paginas'[q]) = Len(paginas[q]) + 0
          BY <1>1, <3>2
        <4>2. Len(paginas[q]) \in Nat /\ Len(paginas[q]) <= MaxPaginas[config][q]
          BY LenProperties DEF IInvTipos, Tipos
        <4> QED
          BY <4>1, <4>2
      <3> QED
        BY <3>1, <3>2
    <2> QED
      BY <2>1
  <1>6. tlb' \in Seq(DeTlb) /\ Len(tlb') <= config.CANTIDAD_ENTRADAS_TLB
    BY <1>2, AgregaTlbBien DEF IInvTipos, Tipos
  <1>7. /\ lista_reemplazo' \in [Procesos \cup {Todos} -> Seq(Usadas)]
        /\ \A l \in Procesos \cup {Todos} :
             Range(lista_reemplazo'[l]) \subseteq Existen'
    <2>1. PICK E : E = Existen'
      OBVIOUS
    <2>2. Existen \subseteq E /\ p \in E
      BY <1>1, <2>1
    <2> QED
      BY <1>2, <1>3, <2>1, <2>2, AgregaAsignacionTipa DEF IInvTipos
  <1>8. referencias' \in Seq(Usadas)
    BY <1>2, UltimaBien DEF IInvTipos, Tipos
  <1>9. paginas_en_memoria' \in [Procesos -> Int] /\ libres' \subseteq Marcos
    BY <1>2, <1>3 DEF IInvTipos, Tipos
  <1>10. Tipos'
    BY <1>1, <1>2, <1>5, <1>6, <1>7, <1>8, <1>9, TiposSigue
       DEF IInvTipos, Tipos
  <1>11. Len(paginas'[tabla_paginas])
           = Cantidad + (IF Toca = Nueva THEN 1 ELSE 0)
    BY <1>1, <1>3, <1>4
  <1> QED
    BY <1>2, <1>10, <1>11, AvanzaBien DEF IInvTipos

\* The page that a request needs is new or out of memory.
LEMMA NecesitaBien ==
  ASSUME IInvTipos, Necesita
  PROVE  /\ EnCurso /\ ~caida /\ operacion.pc = "sigue"
         /\ Toca = Nueva \/ Actual \in Existen \ Presentes
  <1>1. /\ EnCurso /\ ~caida /\ operacion.pc = "sigue"
        /\ Toca = Nueva \/ (Toca \in 1..Cantidad /\ ~AMano)
    BY DEF Necesita, Falta, EnPaso, EnCurso
  <1>2. Toca \in 1..Cantidad => Actual \in Existen
    BY <1>1, TocaBien
  <1>3. ~AMano => Actual \notin Presentes
    BY DEF AMano, Presentes
  <1> QED
    BY <1>1, <1>2, <1>3

LEMMA ConMarcoLibreTipa ==
  ASSUME IInvTipos, ConMarcoLibre
  PROVE  IInvTipos'
  <1>1. Necesita /\ EnCurso
    BY NecesitaBien DEF ConMarcoLibre
  <1>2. CASE GetMarco \notin Marcos \/ SinReloj
    BY <1>2, CaeTipa DEF ConMarcoLibre
  <1>3. CASE GetMarco \in Marcos /\ ~SinReloj /\ Toca = Nueva
    <2>1. AgregaPagina(GetMarco, TRUE)
      BY <1>3 DEF ConMarcoLibre
    <2>2. PICK m \in Marcos : m = GetMarco
      BY <1>3
    <2> QED
      BY <1>1, <1>3, <2>1, <2>2, AgregaPaginaTipa
  <1>4. CASE GetMarco \in Marcos /\ ~SinReloj /\ Toca # Nueva
    <2>1. /\ paginas' \in [Procesos -> Seq(DePagina)]
          /\ \A q \in Procesos : Len(paginas'[q]) = Len(paginas[q])
          /\ Existen' = Existen /\ Actual \in Existen
      BY <1>4, ConMarcoLibreVista
    <2>2. /\ lista_reemplazo' = AgregaAsignacion(Actual, TRUE)
          /\ referencias' = Ultima(Actual)
          /\ UNCHANGED <<config, libres, tabla_procesos, paginas_en_memoria,
                         tabla_paginas, ultimo_Clock, cruces, tlb,
                         operacion, caida, swapVars>>
      BY <1>4 DEF ConMarcoLibre
    <2>3. tabla_paginas \in Procesos /\ Actual \in Usadas
      BY <1>1, <2>1, TocaBien DEF Existen
    <2>4. PICK p \in Existen : p = Actual
      BY <2>1
    <2>5. /\ lista_reemplazo' \in [Procesos \cup {Todos} -> Seq(Usadas)]
          /\ \A l \in Procesos \cup {Todos} :
               Range(lista_reemplazo'[l]) \subseteq Existen'
      <3>1. PICK E : E = Existen'
        OBVIOUS
      <3>2. Existen \subseteq E /\ p \in E /\ p \in Usadas
        BY <2>1, <2>3, <2>4, <3>1
      <3>3. lista_reemplazo' = AgregaAsignacion(p, TRUE)
        BY <2>2, <2>4
      <3> QED
        BY <2>3, <3>1, <3>2, <3>3, AgregaAsignacionTipa DEF IInvTipos
    <2>6. referencias' \in Seq(Usadas)
      BY <2>2, <2>3, UltimaBien DEF IInvTipos, Tipos
    <2>7. \A q \in Procesos : Len(paginas'[q]) <= MaxPaginas[config][q]
      BY <2>1 DEF IInvTipos, Tipos
    <2>8. Tipos'
      BY <2>1, <2>2, <2>5, <2>6, <2>7, TiposSigue DEF IInvTipos, Tipos
    <2>9. operacion \in Operaciones /\ Cantidad' = Cantidad
      BY <1>1, <2>1, <2>2, <2>3, TocaBien DEF Cantidad
    <2>10. OperacionBien'
      BY <1>1, <2>2, <2>9, SigueOperacion DEF IInvTipos
    <2>11. ReemplazoBien'
      <3>1. operacion.pc = "sigue" /\ operacion' = operacion
        BY <1>1, <2>2, NecesitaBien
      <3> QED
        BY <3>1 DEF ReemplazoBien, Reemplazando, Guardando, ConSuMarco, Trayendo
    <2> QED
      BY <2>8, <2>10, <2>11 DEF IInvTipos
  <1> QED
    BY <1>2, <1>3, <1>4

\* A victim is sent to swap.
LEMMA EnviaTipa ==
  ASSUME IInvTipos, Necesita, NEW v \in Existen, NEW lugar \in Nat,
         Envia(v, lugar), VictimaDe(v, lugar),
         paginas' \in [Procesos -> Seq(DePagina)],
         \A q \in Procesos : Len(paginas'[q]) = Len(paginas[q]),
         MismasPaginas,
         UNCHANGED <<config, libres, tabla_procesos, paginas_en_memoria,
                     tabla_paginas, reemplazo, caida>>
  PROVE  IInvTipos'
  <1>1. /\ EnCurso /\ operacion.pc = "sigue"
        /\ Toca = Nueva \/ Actual \in Existen \ Presentes
    BY NecesitaBien
  <1>2. /\ tlb' = EliminaDeTlb(v)
        /\ operacion' = [operacion EXCEPT !.pc = "guarda", !.victima = v,
                                          !.lugar = lugar]
    BY DEF Envia
  <1>3. Existen' = Existen /\ Presentes' = Presentes
    BY DEF MismasPaginas
  <1>4. tlb' \in Seq(DeTlb) /\ Len(tlb') <= config.CANTIDAD_ENTRADAS_TLB
    <2>1. tlb \in Seq(DeTlb) /\ Len(tlb) <= config.CANTIDAD_ENTRADAS_TLB
      BY DEF IInvTipos, Tipos
    <2>2. tlb' \in Seq(DeTlb) /\ (Len(tlb') = Len(tlb) \/ Len(tlb') = Len(tlb) - 1)
      <3>1. Len(tlb') = Len(tlb) - (IF EnTlb(v) = 0 THEN 0 ELSE 1)
        BY <1>2, <2>1, EliminaDeTlbBien
      <3>2. Len(tlb) \in Nat
        BY <2>1, LenProperties
      <3> QED
        BY <1>2, <2>1, <3>1, <3>2, EliminaDeTlbBien
    <2>3. Len(tlb) \in Nat /\ config.CANTIDAD_ENTRADAS_TLB \in Nat
      BY <2>1, ConfigBien, LenProperties DEF IInvTipos, Tipos
    <2> QED
      BY <2>1, <2>2, <2>3
  <1>5. \A q \in Procesos : Len(paginas'[q]) <= MaxPaginas[config][q]
    BY DEF IInvTipos, Tipos
  <1>6. Tipos'
    BY <1>3, <1>4, <1>5, TiposSigue DEF IInvTipos, Tipos, reemplazo
  <1>7. /\ operacion \in Operaciones /\ tabla_paginas \in Procesos
    BY <1>1, TocaBien
  <1>8. /\ operacion' \in Operaciones /\ operacion'.pc = "guarda"
        /\ operacion'.faltan = operacion.faltan
        /\ operacion'.tipo = operacion.tipo
        /\ operacion'.victima = v
    BY <1>2, <1>7 DEF Operaciones, Existen
  <1>9. Cantidad' = Cantidad
    BY <1>7 DEF Cantidad
  <1>10. OperacionBien' /\ Toca' = Toca /\ Actual' = Actual
    BY <1>1, <1>8, <1>9, SigueOperacion DEF IInvTipos
  <1>11. VictimaDe(operacion.victima, operacion.lugar)'
    <2>1. VictimaDe(v, lugar)'
      BY DEF VictimaDe, Lista, Fija, Clock, reemplazo
    <2>2. operacion'.lugar = lugar
      BY <1>2, <1>7 DEF Operaciones
    <2> QED
      BY <1>8, <2>1, <2>2 DEF VictimaDe
  <1>12. ReemplazoBien'
    BY <1>1, <1>3, <1>8, <1>10, <1>11
       DEF ReemplazoBien, Guardando, ConSuMarco, Trayendo
  <1> QED
    BY <1>6, <1>10, <1>12 DEF IInvTipos

LEMMA ReemplazaLRUTipa ==
  ASSUME IInvTipos, ReemplazaLRU
  PROVE  IInvTipos'
  <1>1. CASE Cae
    BY <1>1, CaeTipa
  <1>2. CASE ~Cae
    <2>1. /\ Necesita /\ ~Clock /\ lista_reemplazo[Lista] # <<>>
          /\ Envia(Victima, 0) /\ UNCHANGED <<config, tablas, reemplazo, caida>>
      BY <1>2 DEF ReemplazaLRU
    <2>2. tabla_paginas \in Procesos
      BY <2>1, NecesitaBien, TocaBien
    <2>3. PICK l \in Seq(Usadas) :
            l = lista_reemplazo[Lista] /\ Range(l) \subseteq Existen
      BY <2>2 DEF Lista, IInvTipos, Tipos
    <2>4. Head(l) \in Existen
      BY <2>1, <2>3, RangoSinElPrimero
    <2>5. PICK v \in Existen : v = Victima
      BY <2>3, <2>4 DEF Victima
    <2>6. VictimaDe(v, 0)
      BY <2>1, <2>5 DEF VictimaDe, Victima
    <2>7. /\ paginas' \in [Procesos -> Seq(DePagina)] /\ MismasPaginas
          /\ \A q \in Procesos : Len(paginas'[q]) = Len(paginas[q])
      BY <2>1 DEF MismasPaginas, Existen, Presentes, Pagina, tablas,
                  IInvTipos, Tipos
    <2>8. UNCHANGED <<config, libres, tabla_procesos, paginas_en_memoria,
                      tabla_paginas, reemplazo, caida>>
      BY <2>1 DEF tablas
    <2> QED
      BY <2>1, <2>5, <2>6, <2>7, <2>8, EnviaTipa
  <1> QED
    BY <1>1, <1>2

LEMMA ReemplazaClockTipa ==
  ASSUME IInvTipos, ReemplazaClock
  PROVE  IInvTipos'
  <1>1. CASE Cae
    BY <1>1, CaeTipa
  <1>2. CASE ~Cae
    <2>1. /\ paginas' \in [Procesos -> Seq(DePagina)]
          /\ \A q \in Procesos : Len(paginas'[q]) = Len(paginas[q])
          /\ MismasPaginas /\ Fija /\ Gira.lugar # 0
          /\ lista_reemplazo[Lista] # <<>> =>
               ultimo_Clock[tabla_paginas] < Len(lista_reemplazo[Lista])
          /\ Envia(lista_reemplazo[Lista][Vuelta[Gira.lugar]],
                   Vuelta[Gira.lugar])
          /\ UNCHANGED <<config, libres, tabla_procesos, paginas_en_memoria,
                         tabla_paginas, reemplazo, caida>>
      BY <1>2, ReemplazaClockVista
    <2>2. Necesita /\ Clock
      BY DEF ReemplazaClock
    <2>3. tabla_paginas \in Procesos
      BY <2>2, NecesitaBien, TocaBien
    <2>4. PICK l \in Seq(Usadas) :
            l = lista_reemplazo[Lista] /\ Range(l) \subseteq Existen
      BY <2>3 DEF Lista, IInvTipos, Tipos
    <2>5. /\ Vuelta[Gira.lugar] \in DOMAIN l
          /\ l[Vuelta[Gira.lugar]] \in Presentes
      BY <2>1, <2>3, <2>4, GiraBien DEF IInvTipos
    <2>6. PICK lugar \in Nat : lugar = Vuelta[Gira.lugar] /\ lugar \in DOMAIN l
      BY <2>4, <2>5, LenProperties
    <2>7. PICK v \in Existen : v = l[lugar]
      BY <2>4, <2>6 DEF Range
    <2>8. VictimaDe(v, lugar)
      <3>1. l # <<>>
        BY <2>6
      <3> QED
        BY <2>1, <2>2, <2>4, <2>6, <2>7, <3>1 DEF VictimaDe
    <2>9. Envia(v, lugar)
      BY <2>1, <2>4, <2>6, <2>7
    <2> QED
      BY <2>1, <2>2, <2>8, <2>9, EnviaTipa
  <1> QED
    BY <1>1, <1>2

LEMMA GuardadaTipa ==
  ASSUME IInvTipos, Guardada
  PROVE  IInvTipos'
  <1>1. /\ Guardando /\ EnCurso /\ Deja(operacion.victima, operacion.lugar)
    BY DEF Guardada, EnPaso, Guardando, EnCurso
  <1>2. /\ operacion.victima \in Existen
        /\ VictimaDe(operacion.victima, operacion.lugar)
        /\ Toca = Nueva \/ Actual \in Existen \ Presentes
    BY <1>1 DEF IInvTipos, ReemplazoBien, Reemplazando
  <1>3. /\ operacion \in Operaciones /\ tabla_paginas \in Procesos
        /\ Cantidad \in Nat
    BY <1>1, TocaBien
  <1>4. PICK v \in Existen, lugar \in Nat :
          v = operacion.victima /\ lugar = operacion.lugar
    BY <1>2, <1>3 DEF Operaciones
  <1>5. /\ paginas' \in [Procesos -> Seq(DePagina)]
        /\ \A q \in Procesos : Len(paginas'[q]) = Len(paginas[q])
        /\ Existen' = Existen /\ Presentes' = Presentes \ {v}
    BY <1>1, <1>4, DejaVista
  <1>6. /\ paginas_en_memoria' = [paginas_en_memoria EXCEPT ![v[1]] = @ - 1]
        /\ referencias' = SinReferencia(v)
        /\ operacion' = [operacion EXCEPT !.pc = "con_marco", !.victima = NULA,
                                     !.lugar = 0, !.marco = Pagina(v).marco]
        /\ UNCHANGED <<config, libres, tabla_procesos, tabla_paginas, cruces,
                       tlb, caida>>
    BY <1>1, <1>4 DEF Deja
  <1>7. v[1] \in Procesos /\ v \in Usadas
    BY UsadasBien DEF Existen
  <1>8. ultimo_Clock' \in [Procesos -> Nat]
    BY <1>1, <1>3, <1>4 DEF Deja, IInvTipos, Tipos
  <1>9. /\ lista_reemplazo' \in [Procesos \cup {Todos} -> Seq(Usadas)]
        /\ \A l \in Procesos \cup {Todos} :
             Range(lista_reemplazo'[l]) \subseteq Existen'
    <2>1. CASE Clock
      <3>1. lista_reemplazo' = lista_reemplazo
        BY <1>1, <2>1 DEF Deja
      <3> QED
        BY <1>5, <3>1 DEF IInvTipos, Tipos
    <2>2. CASE ~Clock
      <3>1. PICK k \in Procesos \cup {Todos} : k = Lista
        BY <1>3 DEF Lista
      <3>2. PICK s \in Seq(Usadas) :
              s = lista_reemplazo[k] /\ Range(s) \subseteq Existen
        BY DEF IInvTipos, Tipos
      <3>3. s # <<>>
        BY <1>2, <2>2, <3>1, <3>2 DEF VictimaDe
      <3>4. PICK t \in Seq(Usadas) : t = Tail(s) /\ Range(t) \subseteq Existen
        BY <3>2, <3>3, RangoSinElPrimero
      <3>5. lista_reemplazo' = [lista_reemplazo EXCEPT ![k] = t]
        BY <1>1, <2>2, <3>1, <3>2, <3>4 DEF Deja
      <3> QED
        BY <1>5, <3>4, <3>5 DEF IInvTipos, Tipos
    <2> QED
      BY <2>1, <2>2
  <1>10. referencias' \in Seq(Usadas)
    BY <1>6, <1>7, UltimaBien DEF IInvTipos, Tipos
  <1>11. paginas_en_memoria' \in [Procesos -> Int]
    BY <1>6, <1>7 DEF IInvTipos, Tipos
  <1>12. \A q \in Procesos : Len(paginas'[q]) <= MaxPaginas[config][q]
    BY <1>5 DEF IInvTipos, Tipos
  <1>13. Tipos'
    BY <1>5, <1>6, <1>8, <1>9, <1>10, <1>11, <1>12, TiposSigue
       DEF IInvTipos, Tipos
  <1>14. PICK m \in Marcos : m = Pagina(v).marco
    BY ExistenBien DEF DePagina, IInvTipos
  <1>15. m \in Nat
    BY DEF Marcos
  <1>16. /\ operacion' \in Operaciones /\ operacion'.pc = "con_marco"
         /\ operacion'.faltan = operacion.faltan
         /\ operacion'.tipo = operacion.tipo /\ operacion'.marco = m
    BY <1>3, <1>6, <1>14, <1>15 DEF Operaciones
  <1>17. Cantidad' = Cantidad
    BY <1>3, <1>5, <1>6 DEF Cantidad
  <1>18. OperacionBien' /\ Toca' = Toca /\ Actual' = Actual
    BY <1>1, <1>6, <1>16, <1>17, SigueOperacion DEF IInvTipos
  <1>19. ReemplazoBien'
    <2>1. operacion'.marco \in Marcos'
      BY <1>6, <1>14, <1>16 DEF Marcos
    <2> QED
      BY <1>2, <1>5, <1>16, <1>18, <2>1
         DEF ReemplazoBien, Guardando, ConSuMarco, Trayendo
  <1> QED
    BY <1>13, <1>18, <1>19 DEF IInvTipos

\* A request that fails.
LEMMA FallaTipa ==
  ASSUME IInvTipos, EnCurso, Falla, UNCHANGED <<config, tablas, reemplazo, tlb>>
  PROVE  IInvTipos'
  <1>1. Tipos'
    <2>1. caida' \in BOOLEAN
      BY DEF Falla, FallaCadena, FallaPrimerHeader, FallaFooter, IInvTipos,
             Tipos
    <2> QED
      BY <2>1, QuietoBien DEF IInvTipos, Tipos
  <1>2. CASE operacion' = Libre
    BY <1>1, <1>2, SueltaBien DEF IInvTipos
  <1>3. CASE Toca # Nueva /\ Avanza
    <2>1. Cantidad \in Nat
      BY TocaBien
    <2>2. Len(paginas'[tabla_paginas])
            = Cantidad + (IF Toca = Nueva THEN 1 ELSE 0)
      BY <1>3, <2>1 DEF Cantidad, tablas
    <2> QED
      BY <1>1, <1>3, <2>2, AvanzaBien DEF IInvTipos, tablas
  <1>4. CASE operacion' = operacion
    BY <1>1, <1>4, QuietoBien DEF IInvTipos
  <1>5. CASE FallaPrimerHeader
    <2>1. /\ operacion \in Operaciones /\ tabla_paginas \in Procesos
          /\ operacion.faltan # <<>>
          /\ FaltanBien(operacion.faltan, Acceso, Cantidad,
                        MaxPaginas[config][tabla_paginas])
      BY DEF OperacionBien, IInvTipos
    <2>2. /\ operacion.tipo = "PRIMER_MEMALLOC"
          /\ operacion' = [operacion EXCEPT !.tipo = "MEMALLOC",
                              !.pc = "sigue", !.victima = NULA, !.lugar = 0]
      BY <1>5 DEF FallaPrimerHeader
    <2>3. /\ operacion' \in Operaciones /\ operacion'.tipo = "MEMALLOC"
          /\ operacion'.pc = "sigue" /\ operacion'.faltan = operacion.faltan
      BY <2>1, <2>2 DEF Operaciones, Pedidos
    <2>4. ~Acceso /\ ~Acceso'
      BY <2>2, <2>3 DEF Acceso
    <2>5. /\ Cantidad' = Cantidad /\ config' = config
          /\ tabla_paginas' = tabla_paginas
      BY DEF Cantidad, tablas
    <2>6. FaltanBien(operacion.faltan, Acceso, Cantidad,
                     MaxPaginas[config][tabla_paginas])'
      BY <2>1, <2>3, <2>4, <2>5 DEF FaltanBien
    <2>7. OperacionBien'
      BY <2>1, <2>3, <2>5, <2>6 DEF OperacionBien
    <2>8. ReemplazoBien'
      BY <2>3 DEF ReemplazoBien, Reemplazando, Guardando, ConSuMarco, Trayendo
    <2> QED
      BY <1>1, <2>7, <2>8 DEF IInvTipos
  <1> QED
    BY <1>2, <1>3, <1>4, <1>5 DEF Falla, FallaCadena, FallaFooter

LEMMA PideTipa ==
  ASSUME IInvTipos, Pide
  PROVE  IInvTipos'
  <1>1. /\ paginas' \in [Procesos -> Seq(DePagina)]
        /\ \A q \in Procesos : Len(paginas'[q]) = Len(paginas[q])
        /\ Existen' = Existen /\ Presentes' = Presentes
        /\ Actual \in Existen \ Presentes /\ ConSuMarco /\ Toca # Nueva
    BY PideVista
  <1>2. /\ operacion' = [operacion EXCEPT !.pc = "trae", !.marco = 0]
        /\ UNCHANGED <<config, libres, tabla_procesos, paginas_en_memoria,
                       tabla_paginas, reemplazo, tlb, caida>>
    BY DEF Pide
  <1>3. EnCurso
    BY <1>1 DEF ConSuMarco
  <1>4. operacion \in Operaciones /\ tabla_paginas \in Procesos
    BY <1>3, TocaBien
  <1>5. \A q \in Procesos : Len(paginas'[q]) <= MaxPaginas[config][q]
    BY <1>1 DEF IInvTipos, Tipos
  <1>6. Tipos'
    BY <1>1, <1>2, <1>5, TiposSigue DEF IInvTipos, Tipos, reemplazo
  <1>7. /\ operacion' \in Operaciones /\ operacion'.pc = "trae"
        /\ operacion'.faltan = operacion.faltan
        /\ operacion'.tipo = operacion.tipo
    BY <1>2, <1>4 DEF Operaciones
  <1>8. Cantidad' = Cantidad
    BY <1>1, <1>2, <1>4 DEF Cantidad
  <1>9. OperacionBien' /\ Toca' = Toca /\ Actual' = Actual
    BY <1>2, <1>3, <1>7, <1>8, SigueOperacion DEF IInvTipos
  <1>10. ReemplazoBien'
    BY <1>1, <1>7, <1>9 DEF ReemplazoBien, Guardando, ConSuMarco
  <1> QED
    BY <1>6, <1>9, <1>10 DEF IInvTipos

LEMMA TrajoTipa ==
  ASSUME IInvTipos, Trajo
  PROVE  IInvTipos'
  <1>1. /\ paginas' \in [Procesos -> Seq(DePagina)]
        /\ \A q \in Procesos : Len(paginas'[q]) = Len(paginas[q])
        /\ Existen' = Existen /\ Actual \in Existen /\ Trayendo /\ Toca # Nueva
    BY TrajoVista
  <1>2. /\ paginas_en_memoria' =
             [paginas_en_memoria EXCEPT ![tabla_paginas] = @ + 1]
        /\ lista_reemplazo' = AgregaAsignacion(Actual, FALSE)
        /\ referencias' = Ultima(Actual)
        /\ operacion' = [operacion EXCEPT !.pc = "sigue"]
        /\ UNCHANGED <<config, libres, tabla_procesos, tabla_paginas,
                       ultimo_Clock, cruces, tlb, caida>>
    BY DEF Trajo
  <1>3. EnCurso
    BY <1>1 DEF Trayendo
  <1>4. operacion \in Operaciones /\ tabla_paginas \in Procesos
    BY <1>3, TocaBien
  <1>5. PICK p \in Existen : p = Actual /\ p \in Usadas
    BY <1>1 DEF Existen
  <1>6. /\ lista_reemplazo' \in [Procesos \cup {Todos} -> Seq(Usadas)]
        /\ \A l \in Procesos \cup {Todos} :
             Range(lista_reemplazo'[l]) \subseteq Existen'
    <2>1. PICK E : E = Existen'
      OBVIOUS
    <2>2. Existen \subseteq E /\ p \in E /\ p \in Usadas
      BY <1>1, <1>5, <2>1
    <2>3. lista_reemplazo' = AgregaAsignacion(p, FALSE)
      BY <1>2, <1>5
    <2> QED
      BY <1>4, <2>1, <2>2, <2>3, AgregaAsignacionTipa DEF IInvTipos
  <1>7. referencias' \in Seq(Usadas)
    BY <1>2, <1>5, UltimaBien DEF IInvTipos, Tipos
  <1>8. paginas_en_memoria' \in [Procesos -> Int]
    BY <1>2, <1>4 DEF IInvTipos, Tipos
  <1>9. \A q \in Procesos : Len(paginas'[q]) <= MaxPaginas[config][q]
    BY <1>1 DEF IInvTipos, Tipos
  <1>10. Tipos'
    BY <1>1, <1>2, <1>6, <1>7, <1>8, <1>9, TiposSigue DEF IInvTipos, Tipos
  <1>11. /\ operacion' \in Operaciones /\ operacion'.pc = "sigue"
         /\ operacion'.faltan = operacion.faltan
         /\ operacion'.tipo = operacion.tipo
    BY <1>2, <1>4 DEF Operaciones
  <1>12. Cantidad' = Cantidad
    BY <1>1, <1>2, <1>4 DEF Cantidad
  <1>13. OperacionBien'
    BY <1>2, <1>3, <1>11, <1>12, SigueOperacion DEF IInvTipos
  <1>14. ReemplazoBien'
    BY <1>11 DEF ReemplazoBien, Reemplazando, Guardando, ConSuMarco, Trayendo
  <1> QED
    BY <1>10, <1>13, <1>14 DEF IInvTipos

LEMMA NuevaConMarcoTipa ==
  ASSUME IInvTipos, NuevaConMarco
  PROVE  IInvTipos'
  <1>1. /\ ConSuMarco /\ EnCurso /\ Toca = Nueva
        /\ AgregaPagina(operacion.marco, FALSE)
    BY DEF NuevaConMarco, EnPaso, ConSuMarco, EnCurso
  <1>2. PICK m \in Marcos : m = operacion.marco
    BY <1>1 DEF IInvTipos, ReemplazoBien
  <1> QED
    BY <1>1, <1>2, AgregaPaginaTipa

LEMMA AtiendeTipa ==
  ASSUME IInvTipos, Atiende
  PROVE  IInvTipos'
  <1>1. CASE SinPagina \/ LiberaSinIniciar \/ Corrompe
    BY <1>1, CaeTipa DEF SinPagina, LiberaSinIniciar, Corrompe
  <1>2. CASE NoGuardada \/ NoTrajo
    <2>1. EnCurso /\ Falla /\ UNCHANGED <<config, tablas, reemplazo, tlb>>
      BY <1>2 DEF NoGuardada, NoTrajo, EnPaso, EnCurso
    <2> QED
      BY <2>1, FallaTipa
  <1> QED
    BY <1>1, <1>2, AccedeTipa, RecorreTipa, ConMarcoLibreTipa,
       ReemplazaLRUTipa, ReemplazaClockTipa, GuardadaTipa, NuevaConMarcoTipa,
       PideTipa, TrajoTipa DEF Atiende

LEMMA InitTipa ==
  ASSUME Init
  PROVE  IInvTipos
  <1>1. /\ config \in Configuraciones /\ tabla_procesos = <<>>
        /\ tabla_paginas = Nadie /\ paginas = [p \in Procesos |-> <<>>]
        /\ paginas_en_memoria = [p \in Procesos |-> 0]
        /\ lista_reemplazo = [l \in Procesos \cup {Todos} |-> <<>>]
        /\ tlb = <<>> /\ operacion = Libre /\ caida = FALSE
        /\ referencias = <<>> /\ cruces = 0
    BY DEF Init
  <1>2. libres \subseteq Marcos
    BY DEF Init
  <1>3. ultimo_Clock \in [Procesos -> Nat]
    <2>1. PICK valores : valores = IF Clock /\ Fija THEN Manos ELSE {0}
      OBVIOUS
    <2>2. valores \subseteq Nat
      <3>1. Manos \subseteq Nat
        BY MemoriaOK
      <3> QED
        BY <2>1, <3>1
    <2>3. ultimo_Clock \in [Procesos -> valores]
      BY <2>1 DEF Init
    <2> QED
      BY <2>2, <2>3
  <1>4. /\ paginas \in [Procesos -> Seq(DePagina)]
        /\ \A p \in Procesos : Len(paginas[p]) = 0
    BY <1>1
  <1>5. \A p \in Procesos : Len(paginas[p]) <= MaxPaginas[config][p]
    BY <1>1, <1>4, UsadasBien
  <1>6. /\ lista_reemplazo \in [Procesos \cup {Todos} -> Seq(Usadas)]
        /\ \A l \in Procesos \cup {Todos} :
             Range(lista_reemplazo[l]) \subseteq Existen
    BY <1>1 DEF Range
  <1>7. tlb \in Seq(DeTlb) /\ Len(tlb) <= config.CANTIDAD_ENTRADAS_TLB
    BY <1>1, ConfigBien
  <1>8. tabla_procesos \in Seq(Procesos) /\ Unica(tabla_procesos)
    BY <1>1 DEF Unica
  <1>9. Tipos
    <2>1. /\ tabla_paginas \in Procesos \cup {Nadie}
          /\ paginas_en_memoria \in [Procesos -> Int]
          /\ referencias \in Seq(Usadas)
      BY <1>1
    <2>3. caida \in BOOLEAN
      BY <1>1
    <2>4. cruces \in Nat
      BY <1>1
    <2>2. /\ config \in Configuraciones /\ libres \subseteq Marcos
          /\ tabla_procesos \in Seq(Procesos) /\ Unica(tabla_procesos)
          /\ paginas \in [Procesos -> Seq(DePagina)]
      BY <1>1, <1>2, <1>4, <1>8
    <2> QED
      BY <1>3, <1>5, <1>6, <1>7, <2>1, <2>2, <2>3, <2>4 DEF Tipos
  <1> QED
    BY <1>1, <1>9 DEF IInvTipos, OperacionBien, ReemplazoBien, EnCurso,
                      Reemplazando, Guardando, ConSuMarco, Trayendo

LEMMA TiposInductivos == Spec => []IInvTipos
  <1>1. Init => IInvTipos
    BY InitTipa
  <1>2. IInvTipos /\ [Next]_vars => IInvTipos'
    <2> SUFFICES ASSUME IInvTipos, [Next]_vars PROVE IInvTipos'
      OBVIOUS
    <2>1. CASE Swap \/ UNCHANGED vars
      BY <2>1, NadaTipa DEF Swap, vars
    <2> QED
      BY <2>1, MemLeeEscribeTipa, MemAllocTipa, MemFreeTipa, LimpiaTlbTipa,
         AtiendeTipa DEF Next
  <1> QED
    BY <1>1, <1>2, PTL DEF Spec

\* Whatever memoria is asked and swap answers, a page of a table has a frame of
\* the memory, and the TLB, the clock and the lists hold pages that exist.
THEOREM TiposSiempre == Spec => []TypeOK
  <1>1. IInvTipos => TypeOK
    BY TiposDaTypeOK DEF IInvTipos
  <1> QED
    BY <1>1, TiposInductivos, PTL
=============================================================================
