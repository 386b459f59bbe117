------------------------ MODULE AvisarCambio_proofs ------------------------
(***************************************************************************)
(* Proofs about the round of avisar_cambio: its types, what is left of it  *)
(* when it ends, and that without the medium term planner no status        *)
(* changes while a thread looks at it.  For any set of carpinchos.         *)
(***************************************************************************)
EXTENDS AvisarCambio, FiniteSetTheorems, TLAPS

Creados == {p \in Procesos : hilo[p] # "sin_crear"}

EnRonda == {"avisa", "recibe", "libera"}

\* mutex_cant_procesos is held in a round, and only there
MutexDeRonda ==
  \A h \in Actores : mutex_cant_procesos = h <=> aviso[h].pc \in EnRonda

\* Only an exit makes more than one round; it is no longer counted from the
\* second one on
Rondas ==
  /\ aviso["mediano"].pc # "listo" => aviso["mediano"].rondas = 1
  /\ \A h \in Actores : aviso[h].pc = "resta" => aviso[h].rondas = 2

\* A carpincho exits and is still counted
SinRestar ==
  /\ aviso["listas"].pc # "listo"
  /\ aviso["listas"].pc = "resta" \/ aviso["listas"].rondas = 3

\* cantidad_de_procesos is the number of carpinchos that did not exit, and
\* the one that exits until it is taken off
CantidadExacta ==
  /\ IsFiniteSet(Creados) /\ Salieron \subseteq Creados
  /\ cantidad_de_procesos = Cardinality(Vivos) + (IF SinRestar THEN 1 ELSE 0)

Miran   == Cardinality(EnHilo({"mira", "anota"}))
Esperan == Cardinality(EnHilo({"espera_2", "espera_2_final"}))

\* In each phase of a round, where the notices, the answers and the posts to
\* come back are
EnFase(h) ==
  LET i == aviso[h].i IN
  CASE aviso[h].pc = "avisa" ->
         /\ i <= cantidad_de_procesos
         /\ actualizacion_de_listas_1 + Miran
              + actualizacion_de_listas_1_recibido = i
         /\ actualizacion_de_listas_2 + actualizacion_de_listas_1_recibido
              = Esperan
    [] aviso[h].pc = "recibe" ->
         /\ actualizacion_de_listas_1 + Miran
              + actualizacion_de_listas_1_recibido + i = cantidad_de_procesos
         /\ actualizacion_de_listas_2 + actualizacion_de_listas_1_recibido + i
              = Esperan
    [] aviso[h].pc = "libera" ->
         /\ i <= cantidad_de_procesos
         /\ actualizacion_de_listas_1 = 0 /\ Miran = 0
         /\ actualizacion_de_listas_1_recibido = 0
         /\ actualizacion_de_listas_2 + cantidad_de_procesos - i = Esperan
    [] OTHER -> TRUE

SinRonda ==
  /\ actualizacion_de_listas_1 = 0 /\ Miran = 0
  /\ actualizacion_de_listas_1_recibido = 0
  /\ actualizacion_de_listas_2 = Esperan

Repartido ==
  ~interrumpida => /\ mutex_cant_procesos = "libre" => SinRonda
                   /\ \A h \in Actores : EnFase(h)

\* Without suspensions the medium term planner makes no round, and nothing
\* interrupts those of the others
SoloListas ==
  escenario.suspensiones = 0 =>
    suspensiones = 0 /\ aviso["mediano"] = Listo /\ ~interrumpida

\* The inductive invariant
IInv == /\ TypeOK /\ MutexDeRonda /\ Rondas /\ CantidadExacta /\ Repartido
        /\ SoloListas
-----------------------------------------------------------------------------
(* Lemmas on the operators *)

\* What the place of an actor says of its record.
LEMMA TiposDeAviso ==
  ASSUME TypeOK, NEW h \in Actores
  PROVE  /\ aviso[h].pc \in {"listo", "toma", "resta"} \cup EnRonda
         /\ aviso[h].pc = "listo" <=> aviso[h] = Listo
         /\ aviso[h].pc \in {"toma", "resta"} =>
              aviso[h] \in [pc : {"toma", "resta"}, rondas : 1..3]
         /\ aviso[h].pc \in EnRonda =>
              aviso[h] \in [pc : EnRonda, i : Nat, rondas : 1..3]
  BY DEF TypeOK, EnRonda, Listo

\* How many threads are in some places, when one of them moves.
LEMMA HiloCambia ==
  ASSUME TypeOK, IsFiniteSet(Creados), NEW S, "sin_crear" \notin S,
         NEW p \in Procesos, NEW lugar,
         hilo' = [hilo EXCEPT ![p] = lugar]
  PROVE  /\ IsFiniteSet(EnHilo(S)) /\ Cardinality(EnHilo(S)) \in Nat
         /\ Cardinality(EnHilo(S))'
              = Cardinality(EnHilo(S)) + (IF lugar \in S THEN 1 ELSE 0)
                                       - (IF hilo[p] \in S THEN 1 ELSE 0)
  <1>1. IsFiniteSet(EnHilo(S))
    <2>1. EnHilo(S) \subseteq Creados
      BY DEF EnHilo, Creados
    <2> QED
      BY <2>1, FS_Subset
  <1>2. Cardinality(EnHilo(S)) \in Nat
    BY <1>1, FS_CardinalityType
  <1>3. \A q \in Procesos : hilo'[q] = IF q = p THEN lugar ELSE hilo[q]
    BY DEF TypeOK
  <1>4. p \in EnHilo(S) <=> hilo[p] \in S
    BY DEF EnHilo
  <1>5. CASE (lugar \in S) <=> (hilo[p] \in S)
    <2>1. EnHilo(S)' = EnHilo(S)
      BY <1>3, <1>5 DEF EnHilo
    <2> QED
      BY <1>1, <1>2, <1>5, <2>1
  <1>6. CASE lugar \in S /\ hilo[p] \notin S
    <2>1. EnHilo(S)' = EnHilo(S) \cup {p}
      BY <1>3, <1>6 DEF EnHilo
    <2>2. Cardinality(EnHilo(S) \cup {p}) = Cardinality(EnHilo(S)) + 1
      BY <1>1, <1>4, <1>6, FS_AddElement
    <2> QED
      BY <1>1, <1>2, <1>6, <2>1, <2>2
  <1>7. CASE lugar \notin S /\ hilo[p] \in S
    <2>1. EnHilo(S)' = EnHilo(S) \ {p}
      BY <1>3, <1>7 DEF EnHilo
    <2>2. Cardinality(EnHilo(S) \ {p}) = Cardinality(EnHilo(S)) - 1
      BY <1>1, <1>4, <1>7, FS_RemoveElement
    <2> QED
      BY <1>1, <1>2, <1>7, <2>1, <2>2
  <1> QED
    BY <1>5, <1>6, <1>7

\* The counts of the threads are numbers.
LEMMA CuentasDeHilos ==
  ASSUME IsFiniteSet(Creados)
  PROVE  /\ Miran \in Nat /\ Esperan \in Nat /\ Cardinality(Vivos) \in Nat
         /\ Miran = 0 => EnHilo({"mira", "anota"}) = {}
         /\ IsFiniteSet(Vivos)
  <1>1. /\ EnHilo({"mira", "anota"}) \subseteq Creados
        /\ EnHilo({"espera_2", "espera_2_final"}) \subseteq Creados
        /\ Vivos \subseteq Creados
    BY DEF EnHilo, Creados, Vivos
  <1>2. /\ IsFiniteSet(EnHilo({"mira", "anota"}))
        /\ IsFiniteSet(EnHilo({"espera_2", "espera_2_final"}))
        /\ IsFiniteSet(Vivos)
    BY <1>1, FS_Subset
  <1> QED
    BY <1>2, FS_CardinalityType, FS_EmptySet DEF Miran, Esperan
-----------------------------------------------------------------------------
(* The conjuncts of the invariant, one by one *)

LEMMA InvInicial == Init => IInv
  <1> SUFFICES ASSUME Init PROVE IInv
    OBVIOUS
  <1> USE DEF Init
  <1>1. TypeOK
    BY DEF TypeOK, Estados, Actores, Listo
  <1>2. Creados = {} /\ Vivos = {} /\ Salieron = {}
    BY DEF Creados, Vivos, Salieron
  <1>3. /\ EnHilo({"mira", "anota"}) = {}
        /\ EnHilo({"espera_2", "espera_2_final"}) = {}
    BY DEF EnHilo
  <1>4. MutexDeRonda /\ Rondas
    BY DEF MutexDeRonda, Rondas, EnRonda, Actores, Listo
  <1>5. CantidadExacta
    BY <1>2, FS_EmptySet DEF CantidadExacta, SinRestar, Actores, Listo
  <1>6. Repartido
    BY <1>3, FS_EmptySet
    DEF Repartido, SinRonda, EnFase, Miran, Esperan, Actores, Listo
  <1>7. SoloListas
    BY DEF SoloListas, Actores
  <1> QED
    BY <1>1, <1>4, <1>5, <1>6, <1>7 DEF IInv

\* The places of mutex_cant_procesos and of the rounds.
LEMMA MutexInductivo ==
  IInv /\ [Next]_vars => MutexDeRonda' /\ Rondas'
  <1> SUFFICES ASSUME IInv, [Next]_vars PROVE MutexDeRonda' /\ Rondas'
    OBVIOUS
  <1>t. TypeOK /\ MutexDeRonda /\ Rondas
    BY DEF IInv
  <1> USE DEF MutexDeRonda, Rondas
  <1>1. CASE aviso' = aviso /\ mutex_cant_procesos' = mutex_cant_procesos
    BY <1>t, <1>1
  <1>2. ASSUME NEW h \in Actores, NEW n \in 1..3, Empieza(h, n),
               h = "mediano" => n = 1,
               mutex_cant_procesos' = mutex_cant_procesos
        PROVE  MutexDeRonda' /\ Rondas'
    BY <1>t, <1>2 DEF Empieza, Listo, EnRonda, TypeOK
  <1>3. ASSUME NEW h \in Actores, TomaMutex(h)
        PROVE  MutexDeRonda' /\ Rondas'
    BY <1>t, <1>3, TiposDeAviso DEF TomaMutex, EnRonda, TypeOK, Actores
  <1>4. ASSUME NEW h \in Actores, aviso[h].pc \in EnRonda,
               Sigue(h) \/ \E pc \in EnRonda : PasaA(h, pc),
               mutex_cant_procesos' = mutex_cant_procesos
        PROVE  MutexDeRonda' /\ Rondas'
    BY <1>t, <1>4, TiposDeAviso DEF Sigue, PasaA, EnRonda, TypeOK, Actores
  <1>5. ASSUME NEW h \in Actores, Termina(h)
        PROVE  MutexDeRonda' /\ Rondas'
    BY <1>t, <1>5, TiposDeAviso
    DEF Termina, Listo, EnRonda, TypeOK, Actores
  <1>6. ASSUME NEW h \in Actores, Resta(h)
        PROVE  MutexDeRonda' /\ Rondas'
    BY <1>t, <1>6, TiposDeAviso DEF Resta, EnRonda, TypeOK, Actores
  <1>7. CASE UNCHANGED vars
    BY <1>1, <1>7 DEF vars, cambian
  <1>8. ASSUME NEW p \in Procesos,
               \/ Nuevo(p) \/ Sale(p) \/ Suspende(p)
               \/ \E destino \in Estados : Mueve(p, destino)
        PROVE  MutexDeRonda' /\ Rondas'
    <2>1. CASE Nuevo(p) \/ \E destino \in Estados : Mueve(p, destino)
      <3>1. /\ Empieza("listas", 1)
            /\ mutex_cant_procesos' = mutex_cant_procesos
        BY <2>1 DEF Nuevo, Mueve
      <3> QED
        BY <1>2, <3>1 DEF Actores
    <2>2. CASE Sale(p)
      <3>1. /\ Empieza("listas", 3)
            /\ mutex_cant_procesos' = mutex_cant_procesos
        BY <2>2 DEF Sale
      <3> QED
        BY <1>2, <3>1 DEF Actores
    <2>3. CASE Suspende(p)
      <3>1. /\ Empieza("mediano", 1)
            /\ mutex_cant_procesos' = mutex_cant_procesos
        BY <2>3 DEF Suspende
      <3> QED
        BY <1>2, <3>1 DEF Actores
    <2> QED
      BY <1>8, <2>1, <2>2, <2>3
  <1>9. ASSUME NEW p \in Procesos,
               DespiertaHilo(p) \/ Mira(p) \/ Anota(p) \/ Vuelve(p)
        PROVE  MutexDeRonda' /\ Rondas'
    BY <1>1, <1>9 DEF DespiertaHilo, Mira, Anota, Vuelve
  <1>10. ASSUME NEW h \in Actores, Avisa(h) \/ Recibe(h) \/ Libera(h)
         PROVE  MutexDeRonda' /\ Rondas'
    BY <1>4, <1>10 DEF Avisa, Recibe, Libera, EnRonda
  <1> QED
    BY <1>3, <1>5, <1>6, <1>7, <1>8, <1>9, <1>10 DEF Next, Paso, Ronda

\* The number of carpinchos that avisar_cambio goes by.
LEMMA CantidadInductiva == IInv /\ [Next]_vars => CantidadExacta'
  <1> SUFFICES ASSUME IInv, [Next]_vars PROVE CantidadExacta'
    OBVIOUS
  <1>t. TypeOK /\ Rondas /\ CantidadExacta
    BY DEF IInv
  <1>n. Cardinality(Vivos) \in Nat /\ IsFiniteSet(Vivos)
    BY <1>t, CuentasDeHilos DEF CantidadExacta
  <1>l. "listas" \in Actores /\ aviso["listas"].pc = "listo"
                                <=> aviso["listas"] = Listo
    BY <1>t, TiposDeAviso DEF Actores
  <1>1. ASSUME status' = status, hilo' = hilo, cantidad' = cantidad,
               aviso'["listas"] = aviso["listas"] \/ (SinRestar' = SinRestar)
        PROVE  CantidadExacta'
    <2>1. Creados' = Creados /\ Vivos' = Vivos /\ Salieron' = Salieron
      BY <1>1 DEF Creados, Vivos, Salieron
    <2>2. SinRestar' = SinRestar
      BY <1>1 DEF SinRestar
    <2> QED
      BY <1>1, <1>t, <2>1, <2>2 DEF CantidadExacta, cantidad
  <1>2. ASSUME NEW p \in Procesos, NEW lugar, hilo[p] # "sin_crear",
               lugar # "sin_crear",
               hilo' = [hilo EXCEPT ![p] = lugar],
               status' = status, cantidad' = cantidad, aviso' = aviso
        PROVE  CantidadExacta'
    <2>1. \A q \in Procesos : hilo'[q] = "sin_crear" <=> hilo[q] = "sin_crear"
      BY <1>t, <1>2 DEF TypeOK
    <2>2. Creados' = Creados /\ Vivos' = Vivos /\ Salieron' = Salieron
      BY <1>2, <2>1 DEF Creados, Vivos, Salieron
    <2> QED
      BY <1>2, <1>t, <2>2 DEF CantidadExacta, cantidad, SinRestar
  <1>3. ASSUME NEW p \in Procesos, Nuevo(p) PROVE CantidadExacta'
    <2>1. /\ aviso["listas"] = Listo
          /\ aviso'["listas"] = [pc |-> "toma", rondas |-> 1]
      BY <1>3, <1>t, <1>l DEF Nuevo, Empieza, TypeOK
    <2>2. ~SinRestar /\ ~SinRestar'
      BY <2>1 DEF SinRestar, Listo
    <2>3. \A q \in Procesos : hilo'[q] # "sin_crear"
                                <=> q = p \/ hilo[q] # "sin_crear"
      BY <1>3, <1>t DEF Nuevo, TypeOK
    <2>4. Creados' = Creados \cup {p} /\ Salieron' = Salieron
      BY <1>3, <2>3 DEF Creados, Salieron, Nuevo
    <2>5. status[p] # "EXIT" /\ p \notin Vivos
      BY <1>3, <1>t DEF CantidadExacta, Nuevo, Creados, Salieron, Vivos
    <2>6. Vivos' = Vivos \cup {p}
      BY <1>3, <2>3, <2>5 DEF Vivos, Nuevo
    <2>7. Cardinality(Vivos \cup {p}) = Cardinality(Vivos) + 1
      BY <1>n, <2>5, FS_AddElement
    <2>8. IsFiniteSet(Creados')
      BY <1>t, <2>4, FS_AddElement DEF CantidadExacta
    <2>9. cantidad_de_procesos' = cantidad_de_procesos + 1
      BY <1>3 DEF Nuevo, CambiaCantidad
    <2> QED
      BY <1>t, <1>n, <2>2, <2>4, <2>6, <2>7, <2>8, <2>9 DEF CantidadExacta
  <1>4. ASSUME NEW p \in Procesos, Sale(p) PROVE CantidadExacta'
    <2>1. /\ aviso["listas"] = Listo
          /\ aviso'["listas"] = [pc |-> "toma", rondas |-> 3]
      BY <1>4, <1>t, <1>l DEF Sale, Empieza, TypeOK
    <2>2. ~SinRestar /\ SinRestar'
      BY <2>1 DEF SinRestar, Listo
    <2>3. \A q \in Procesos : status'[q] = IF q = p THEN "EXIT" ELSE status[q]
      BY <1>4, <1>t DEF Sale, TypeOK
    <2>4. p \in Vivos /\ Vivos' = Vivos \ {p} /\ Creados' = Creados
      BY <1>4, <2>3 DEF Vivos, Sale, Creados
    <2>5. Salieron' = Salieron \cup {p} /\ p \in Creados
      BY <2>3, <2>4 DEF Salieron, Vivos, Creados
    <2>6. Cardinality(Vivos \ {p}) = Cardinality(Vivos) - 1
      BY <1>n, <2>4, FS_RemoveElement
    <2>7. cantidad_de_procesos' = cantidad_de_procesos
      BY <1>4 DEF Sale, cantidad
    <2> QED
      BY <1>t, <1>n, <2>2, <2>4, <2>5, <2>6, <2>7 DEF CantidadExacta
  <1>5. ASSUME NEW p \in Procesos, NEW d \in Estados \ {"EXIT"}, p \in Vivos,
               status' = [status EXCEPT ![p] = d], hilo' = hilo,
               cantidad' = cantidad, SinRestar' = SinRestar
        PROVE  CantidadExacta'
    <2>1. \A q \in Procesos : status'[q] = "EXIT" <=> status[q] = "EXIT"
      BY <1>5, <1>t DEF Vivos, TypeOK
    <2>2. Creados' = Creados /\ Vivos' = Vivos /\ Salieron' = Salieron
      BY <1>5, <2>1 DEF Creados, Vivos, Salieron
    <2> QED
      BY <1>5, <1>t, <2>2 DEF CantidadExacta, cantidad
  <1>6. ASSUME NEW p \in Procesos, NEW destino \in Estados, Mueve(p, destino)
        PROVE  CantidadExacta'
    <2>1. /\ aviso["listas"] = Listo
          /\ aviso'["listas"] = [pc |-> "toma", rondas |-> 1]
      BY <1>6, <1>t, <1>l DEF Mueve, Empieza, TypeOK
    <2>2. SinRestar' = SinRestar
      BY <2>1 DEF SinRestar, Listo
    <2> QED
      BY <1>5, <1>6, <2>2 DEF Mueve, Movidas
  <1>7. ASSUME NEW p \in Procesos, Suspende(p) PROVE CantidadExacta'
    <2>1. aviso'["listas"] = aviso["listas"]
      BY <1>7, <1>t, <1>l DEF Suspende, Empieza, TypeOK
    <2>2. SinRestar' = SinRestar
      BY <2>1 DEF SinRestar
    <2> QED
      BY <1>5, <1>7, <2>2 DEF Suspende, Estados
  <1>8. ASSUME NEW h \in Actores,
               TomaMutex(h) \/ Avisa(h) \/ Recibe(h) \/ Libera(h)
        PROVE  CantidadExacta'
    <2>1. \/ aviso'["listas"] = aviso["listas"]
          \/ /\ aviso'["listas"].rondas = aviso["listas"].rondas
             /\ aviso["listas"].pc \in {"toma"} \cup EnRonda
             /\ aviso'["listas"].pc \in EnRonda
      BY <1>8, <1>t, TiposDeAviso
      DEF TomaMutex, Avisa, Recibe, Libera, Sigue, PasaA, EnRonda, TypeOK,
          Actores
    <2>2. aviso'["listas"] = aviso["listas"] \/ SinRestar' = SinRestar
      BY <2>1 DEF SinRestar, EnRonda
    <2>3. status' = status /\ hilo' = hilo /\ cantidad' = cantidad
      BY <1>8 DEF TomaMutex, Avisa, Recibe, Libera, carpinchos, cantidad
    <2> QED
      BY <1>1, <2>2, <2>3
  <1>9. ASSUME NEW h \in Actores, Termina(h) PROVE CantidadExacta'
    <2>1. CASE h = "mediano"
      <3>1. aviso'["listas"] = aviso["listas"]
        BY <1>9, <1>t, <2>1 DEF Termina, TypeOK, Actores
      <3> QED
        BY <1>1, <1>9, <3>1 DEF Termina, carpinchos, cantidad
    <2>2. CASE h = "listas"
      <3>1. /\ aviso["listas"].pc = "libera"
            /\ aviso["listas"].rondas \in 1..3
        BY <1>9, <1>t, <2>2, TiposDeAviso DEF Termina, EnRonda
      <3>2. aviso'["listas"] =
              IF aviso["listas"].rondas = 1 THEN Listo
              ELSE [pc |-> IF aviso["listas"].rondas = 3 THEN "resta"
                           ELSE "toma",
                    rondas |-> aviso["listas"].rondas - 1]
        BY <1>9, <1>t, <2>2 DEF Termina, TypeOK
      <3>3. SinRestar' = SinRestar
        BY <3>1, <3>2 DEF SinRestar, Listo
      <3> QED
        BY <1>1, <1>9, <3>3 DEF Termina, carpinchos, cantidad
    <2> QED
      BY <2>1, <2>2 DEF Actores
  <1>10. ASSUME NEW h \in Actores, Resta(h) PROVE CantidadExacta'
    <2>1. h = "listas"
      BY <1>10, <1>t DEF Resta, Rondas, Actores
    <2>2. /\ aviso["listas"].pc = "resta" /\ aviso["listas"].rondas = 2
          /\ aviso'["listas"].pc = "toma" /\ aviso'["listas"].rondas = 2
      BY <1>10, <1>t, <2>1, TiposDeAviso DEF Resta, Rondas, TypeOK, Actores
    <2>3. SinRestar /\ ~SinRestar'
      BY <2>2 DEF SinRestar
    <2>4. Creados' = Creados /\ Vivos' = Vivos /\ Salieron' = Salieron
      BY <1>10 DEF Creados, Vivos, Salieron, Resta, carpinchos
    <2>5. cantidad_de_procesos' = cantidad_de_procesos - 1
      BY <1>10, <1>t DEF Resta, CambiaCantidad, TypeOK
    <2> QED
      BY <1>t, <1>n, <2>3, <2>4, <2>5 DEF CantidadExacta
  <1>11. ASSUME NEW p \in Procesos,
                DespiertaHilo(p) \/ Mira(p) \/ Anota(p) \/ Vuelve(p)
         PROVE  CantidadExacta'
    <2>1. PICK lugar \in {"espera_1", "mira", "anota", "espera_2",
                          "espera_2_final", "fin"} :
            hilo' = [hilo EXCEPT ![p] = lugar]
      BY <1>11 DEF DespiertaHilo, Mira, Anota, Vuelve, Responde
    <2>2. /\ hilo[p] # "sin_crear" /\ status' = status
          /\ cantidad' = cantidad /\ aviso' = aviso
      BY <1>11 DEF DespiertaHilo, Mira, Anota, Vuelve, cantidad
    <2> QED
      BY <1>2, <2>1, <2>2
  <1>12. CASE UNCHANGED vars
    BY <1>1, <1>12 DEF vars, cambian, carpinchos, cantidad
  <1> QED
    BY <1>3, <1>4, <1>6, <1>7, <1>8, <1>9, <1>10, <1>11, <1>12
    DEF Next, Paso, Ronda

LEMMA TipoInductivo == IInv /\ [Next]_vars => TypeOK'
  <1> SUFFICES ASSUME IInv, [Next]_vars PROVE TypeOK'
    OBVIOUS
  <1>t. TypeOK
    BY DEF IInv
  <1>n. cantidad_de_procesos' \in Nat
    <2>1. CantidadExacta'
      BY CantidadInductiva
    <2>2. Vivos' \subseteq Creados'
      BY DEF Vivos, Creados
    <2>3. IsFiniteSet(Vivos')
      BY <2>1, <2>2, FS_Subset DEF CantidadExacta
    <2>4. Cardinality(Vivos') \in Nat
      BY <2>3, FS_CardinalityType
    <2> QED
      BY <2>1, <2>4 DEF CantidadExacta
  <1> DEFINE Avisos == {Listo} \cup [pc : {"toma", "resta"}, rondas : 1..3]
                       \cup [pc : {"avisa", "recibe", "libera"}, i : Nat,
                             rondas : 1..3]
  <1>e. ASSUME NEW h \in Actores, NEW n \in 1..3, Empieza(h, n)
        PROVE  aviso' \in [Actores -> Avisos]
    BY <1>t, <1>e DEF TypeOK, Empieza
  <1>1. ASSUME NEW p \in Procesos, Nuevo(p) PROVE TypeOK'
    <2>1. aviso' \in [Actores -> Avisos]
      BY <1>e, <1>1 DEF Nuevo, Actores
    <2>2. interrumpida' \in BOOLEAN
      BY <1>t, <1>1 DEF Nuevo, CambiaCantidad
    <2>3. hilo' = [hilo EXCEPT ![p] = "espera_1"]
      BY <1>1 DEF Nuevo
    <2> QED
      BY <1>t, <1>1, <1>n, <2>1, <2>2, <2>3 DEF TypeOK, Nuevo, semaforos
  <1>2. ASSUME NEW p \in Procesos, NEW h \in Actores, NEW n \in 1..3,
               NEW d \in Estados, Empieza(h, n),
               status' = [status EXCEPT ![p] = d],
               pendiente' \in {pendiente, pendiente \cup {p}, pendiente \ {p}},
               prev_status' = prev_status, hilo' = hilo,
               semaforos' = semaforos, cantidad' = cantidad,
               mutex_cant_procesos' = mutex_cant_procesos
        PROVE  TypeOK'
    <2>1. aviso' \in [Actores -> Avisos]
      BY <1>e, <1>2
    <2>2. status' \in [Procesos -> Estados] /\ pendiente' \subseteq Procesos
      BY <1>t, <1>2 DEF TypeOK
    <2> QED
      BY <1>t, <1>2, <2>1, <2>2 DEF TypeOK, semaforos, cantidad
  <1>10. ASSUME NEW p \in Procesos,
                \/ Sale(p) \/ Suspende(p)
                \/ \E destino \in Estados : Mueve(p, destino)
         PROVE  TypeOK'
    <2>1. /\ "EXIT" \in Estados /\ "S_BLOCKED" \in Estados
          /\ "listas" \in Actores /\ "mediano" \in Actores
          /\ 1 \in 1..3 /\ 3 \in 1..3
      BY DEF Estados, Actores
    <2>2. CASE Sale(p)
      <3>1. /\ Empieza("listas", 3) /\ status' = [status EXCEPT ![p] = "EXIT"]
            /\ pendiente' = pendiente \ {p}
            /\ prev_status' = prev_status /\ hilo' = hilo
            /\ semaforos' = semaforos /\ cantidad' = cantidad
            /\ mutex_cant_procesos' = mutex_cant_procesos
        BY <2>2 DEF Sale, semaforos, cantidad
      <3> QED
        BY <1>2, <2>1, <3>1
    <2>3. CASE Suspende(p)
      <3>1. /\ Empieza("mediano", 1)
            /\ status' = [status EXCEPT ![p] = "S_BLOCKED"]
            /\ pendiente' = pendiente
            /\ prev_status' = prev_status /\ hilo' = hilo
            /\ semaforos' = semaforos /\ cantidad' = cantidad
            /\ mutex_cant_procesos' = mutex_cant_procesos
        BY <2>3 DEF Suspende, semaforos, cantidad
      <3> QED
        BY <1>2, <2>1, <3>1
    <2>4. ASSUME NEW destino \in Estados, Mueve(p, destino) PROVE TypeOK'
      <3>1. /\ Empieza("listas", 1)
            /\ status' = [status EXCEPT ![p] = destino]
            /\ pendiente' \in {pendiente, pendiente \cup {p}}
            /\ prev_status' = prev_status /\ hilo' = hilo
            /\ semaforos' = semaforos /\ cantidad' = cantidad
            /\ mutex_cant_procesos' = mutex_cant_procesos
        BY <2>4 DEF Mueve, semaforos, cantidad
      <3> QED
        BY <1>2, <2>1, <3>1
    <2> QED
      BY <1>10, <2>2, <2>3, <2>4
  <1>3. ASSUME NEW p \in Procesos, DespiertaHilo(p) \/ Vuelve(p)
        PROVE  TypeOK'
    BY <1>t, <1>3 DEF TypeOK, DespiertaHilo, Vuelve, cantidad
  <1>4. ASSUME NEW p \in Procesos, Mira(p) \/ Anota(p)
        PROVE  TypeOK'
    BY <1>t, <1>4 DEF TypeOK, Mira, Anota, Responde, cantidad
  <1>5. ASSUME NEW h \in Actores, TomaMutex(h) PROVE TypeOK'
    <2>1. aviso[h] \in [pc : {"toma", "resta"}, rondas : 1..3]
      BY <1>t, <1>5, TiposDeAviso DEF TomaMutex
    <2> QED
      BY <1>t, <1>5, <2>1
      DEF TypeOK, TomaMutex, carpinchos, semaforos, cantidad
  <1>6. ASSUME NEW h \in Actores, Avisa(h) \/ Recibe(h) \/ Libera(h)
        PROVE  TypeOK'
    <2>1. aviso[h] \in [pc : EnRonda, i : Nat, rondas : 1..3]
      BY <1>t, <1>6, TiposDeAviso DEF Avisa, Recibe, Libera, EnRonda
    <2>2. Sigue(h) \/ \E pc \in EnRonda : PasaA(h, pc)
      BY <1>6 DEF Avisa, Recibe, Libera, EnRonda
    <2>3. aviso' \in [Actores ->
                        {Listo} \cup [pc : {"toma", "resta"}, rondas : 1..3]
                        \cup [pc : EnRonda, i : Nat, rondas : 1..3]]
      BY <1>t, <2>1, <2>2 DEF TypeOK, Sigue, PasaA, EnRonda
    <2> QED
      BY <1>t, <1>6, <2>3
      DEF TypeOK, Avisa, Recibe, Libera, EnRonda, carpinchos, cantidad
  <1>7. ASSUME NEW h \in Actores, Termina(h) PROVE TypeOK'
    <2>1. aviso[h] \in [pc : EnRonda, i : Nat, rondas : 1..3]
      BY <1>t, <1>7, TiposDeAviso DEF Termina, EnRonda
    <2> QED
      BY <1>t, <1>7, <2>1
      DEF TypeOK, Termina, carpinchos, semaforos, cantidad
  <1>8. ASSUME NEW h \in Actores, Resta(h) PROVE TypeOK'
    <2>1. aviso[h] \in [pc : {"toma", "resta"}, rondas : 1..3]
      BY <1>t, <1>8, TiposDeAviso DEF Resta
    <2> QED
      BY <1>t, <1>8, <1>n, <2>1
      DEF TypeOK, Resta, CambiaCantidad, carpinchos, semaforos
  <1>9. CASE UNCHANGED vars
    BY <1>t, <1>9
    DEF TypeOK, vars, cambian, carpinchos, semaforos, cantidad
  <1> QED
    BY <1>1, <1>3, <1>4, <1>5, <1>6, <1>7, <1>8, <1>9, <1>10
    DEF Next, Paso, Ronda

\* Without suspensions, only the other actor works.
LEMMA SoloListasInductivo == IInv /\ [Next]_vars => SoloListas'
  <1> SUFFICES ASSUME IInv, [Next]_vars PROVE SoloListas'
    OBVIOUS
  <1>1. CASE UNCHANGED vars
    BY <1>1 DEF IInv, SoloListas, vars, cambian, cantidad
  <1>2. CASE Next
    <2>1. escenario' = escenario
      BY <1>2 DEF Next
    <2> SUFFICES ASSUME escenario.suspensiones = 0
                 PROVE  /\ suspensiones' = 0 /\ aviso'["mediano"] = Listo
                        /\ ~interrumpida'
      BY <2>1 DEF SoloListas
    <2>t. TypeOK /\ MutexDeRonda
      BY DEF IInv
    <2>2. suspensiones = 0 /\ aviso["mediano"] = Listo /\ ~interrumpida
      BY DEF IInv, SoloListas
    <2>3. mutex_cant_procesos # "mediano"
      BY <2>t, <2>2 DEF MutexDeRonda, EnRonda, Listo, Actores
    <2>4. ASSUME NEW p \in Procesos PROVE ~Suspende(p)
      BY <2>2 DEF Suspende
    <2>5. \A p \in Procesos : status'[p] = "S_BLOCKED" => status[p] = "S_BLOCKED"
      <3> USE <2>t DEF TypeOK
      <3>1. ASSUME NEW q \in Procesos, NEW d \in Estados \ {"S_BLOCKED"},
                   status' = [status EXCEPT ![q] = d]
            PROVE  \A p \in Procesos :
                     status'[p] = "S_BLOCKED" => status[p] = "S_BLOCKED"
        BY <3>1
      <3>2. ASSUME NEW q \in Procesos, Sale(q)
            PROVE  \A p \in Procesos :
                     status'[p] = "S_BLOCKED" => status[p] = "S_BLOCKED"
        BY <3>1, <3>2 DEF Sale, Estados
      <3>3. ASSUME NEW q \in Procesos, NEW d \in Estados, Mueve(q, d)
            PROVE  \A p \in Procesos :
                     status'[p] = "S_BLOCKED" => status[p] = "S_BLOCKED"
        BY <3>1, <3>3 DEF Mueve, Movidas
      <3>4. ASSUME NEW q \in Procesos,
                   \/ Nuevo(q) \/ DespiertaHilo(q) \/ Mira(q) \/ Anota(q)
                   \/ Vuelve(q)
            PROVE  status' = status
        BY <3>4 DEF Nuevo, DespiertaHilo, Mira, Anota, Vuelve
      <3>5. ASSUME NEW h \in Actores, Ronda(h)
            PROVE  status' = status
        BY <3>5 DEF Ronda, TomaMutex, Avisa, Recibe, Libera, Termina, Resta,
                    carpinchos
      <3> QED
        BY <1>2, <2>4, <3>2, <3>3, <3>4, <3>5 DEF Next, Paso
    <2>6. suspensiones' = 0
      <3>1. {p \in Procesos : status[p] # "S_BLOCKED"
                               /\ status'[p] = "S_BLOCKED"} = {}
        BY <2>5
      <3> QED
        BY <1>2, <2>2, <3>1, FS_EmptySet DEF Next
    <2>7. ASSUME NEW p \in Procesos,
                 Nuevo(p) \/ Sale(p) \/ \E destino \in Estados : Mueve(p, destino)
          PROVE  aviso'["mediano"] = Listo /\ ~interrumpida'
      <3>1. aviso'["mediano"] = aviso["mediano"]
        BY <2>t, <2>7 DEF Nuevo, Sale, Mueve, Empieza, TypeOK, Actores
      <3>2. aviso["listas"] = Listo
        BY <2>7 DEF Nuevo, Sale, Mueve, Empieza
      <3>3. mutex_cant_procesos = "libre"
        BY <2>t, <2>3, <3>2
        DEF MutexDeRonda, EnRonda, TypeOK, Actores, Listo
      <3>4. interrumpida' = interrumpida
        <4>1. CASE Nuevo(p)
          BY <2>t, <2>2, <3>3, <4>1 DEF Nuevo, CambiaCantidad, TypeOK
        <4>2. CASE Sale(p) \/ \E destino \in Estados : Mueve(p, destino)
          BY <4>2 DEF Sale, Mueve, cantidad
        <4> QED
          BY <2>7, <4>1, <4>2
      <3> QED
        BY <2>2, <3>1, <3>4
    <2>8. ASSUME NEW p \in Procesos,
                 DespiertaHilo(p) \/ Mira(p) \/ Anota(p) \/ Vuelve(p)
          PROVE  aviso'["mediano"] = Listo /\ ~interrumpida'
      BY <2>2, <2>8 DEF DespiertaHilo, Mira, Anota, Vuelve, cantidad
    <2>9. ASSUME NEW h \in Actores, Ronda(h)
          PROVE  aviso'["mediano"] = Listo /\ ~interrumpida'
      <3>1. h = "listas"
        BY <2>2, <2>9
        DEF Ronda, TomaMutex, Avisa, Recibe, Libera, Termina, Resta, Listo,
            Actores
      <3>2. aviso'["mediano"] = aviso["mediano"]
        BY <2>t, <2>9, <3>1
        DEF Ronda, TomaMutex, Avisa, Recibe, Libera, Termina, Resta, Sigue,
            PasaA, TypeOK, Actores
      <3>3. CASE Resta("listas")
        <4>1. mutex_cant_procesos = "libre"
          BY <2>t, <2>3, <3>3
          DEF MutexDeRonda, EnRonda, TypeOK, Actores, Resta
        <4> QED
          BY <2>2, <3>2, <3>3, <4>1 DEF Resta, CambiaCantidad
      <3>4. CASE ~Resta("listas")
        BY <2>2, <2>9, <3>1, <3>2, <3>4
        DEF Ronda, TomaMutex, Avisa, Recibe, Libera, Termina, cantidad
      <3> QED
        BY <3>3, <3>4
    <2> QED
      BY <1>2, <2>4, <2>6, <2>7, <2>8, <2>9 DEF Next, Paso
  <1> QED
    BY <1>1, <1>2

\* A step that changes nothing of a round but the places of threads that
\* are in none leaves it as it was.
LEMMA RepartoIgual ==
  ASSUME TypeOK, Repartido, MutexDeRonda, UNCHANGED <<semaforos, cantidad>>,
         mutex_cant_procesos' = mutex_cant_procesos,
         Miran' = Miran, Esperan' = Esperan,
         \A h \in Actores : aviso'[h] = aviso[h]
                            \/ aviso'[h].pc \notin EnRonda
  PROVE  Repartido'
  <1> SUFFICES ASSUME ~interrumpida
               PROVE  /\ mutex_cant_procesos = "libre" => SinRonda'
                      /\ \A h \in Actores : EnFase(h)'
    BY DEF Repartido, cantidad
  <1>1. mutex_cant_procesos = "libre" => SinRonda'
    BY DEF Repartido, SinRonda, semaforos
  <1>2. ASSUME NEW h \in Actores PROVE EnFase(h)'
    <2>1. CASE aviso'[h] = aviso[h]
      <3>1. EnFase(h)
        BY DEF Repartido
      <3> QED
        BY <2>1, <3>1 DEF EnFase, semaforos, cantidad
    <2>2. CASE aviso'[h].pc \notin EnRonda
      BY <2>2 DEF EnFase, EnRonda
    <2> QED
      BY <2>1, <2>2
  <1> QED
    BY <1>1, <1>2

\* A step of the thread of a carpincho: it takes a notice, answers, or takes
\* a post to come back.
LEMMA RepartoDeHilos ==
  ASSUME IInv, NEW p \in Procesos,
         DespiertaHilo(p) \/ Mira(p) \/ Anota(p) \/ Vuelve(p)
  PROVE  Repartido'
  <1>t. TypeOK /\ IsFiniteSet(Creados) /\ Repartido /\ MutexDeRonda
    BY DEF IInv, CantidadExacta
  <1>n. Miran \in Nat /\ Esperan \in Nat
    BY <1>t, CuentasDeHilos
  <1>s. /\ actualizacion_de_listas_1 \in Nat
        /\ actualizacion_de_listas_1_recibido \in Nat
        /\ actualizacion_de_listas_2 \in Nat /\ cantidad_de_procesos \in Nat
    BY <1>t DEF TypeOK
  <1>i. \A h \in Actores : aviso[h].pc \in EnRonda => aviso[h].i \in Nat
    BY <1>t, TiposDeAviso
  <1> DEFINE VaA(lugar) == hilo' = [hilo EXCEPT ![p] = lugar]
  <1>1. ASSUME NEW lugar, VaA(lugar)
        PROVE  /\ Miran' = Miran + (IF lugar \in {"mira", "anota"} THEN 1 ELSE 0)
                            - (IF hilo[p] \in {"mira", "anota"} THEN 1 ELSE 0)
               /\ Esperan' = Esperan
                    + (IF lugar \in {"espera_2", "espera_2_final"} THEN 1 ELSE 0)
                    - (IF hilo[p] \in {"espera_2", "espera_2_final"}
                       THEN 1 ELSE 0)
    BY <1>1, <1>t, HiloCambia DEF Miran, Esperan
  <1> HIDE DEF VaA
  <1>2. /\ aviso' = aviso /\ mutex_cant_procesos' = mutex_cant_procesos
        /\ cantidad' = cantidad
    BY DEF DespiertaHilo, Mira, Anota, Vuelve, cantidad
  <1>3. \/ UNCHANGED <<semaforos, Miran, Esperan>>
        \/ /\ actualizacion_de_listas_1 > 0
           /\ actualizacion_de_listas_1' = actualizacion_de_listas_1 - 1
           /\ Miran' = Miran + 1
           /\ UNCHANGED <<actualizacion_de_listas_1_recibido,
                          actualizacion_de_listas_2, Esperan>>
        \/ /\ actualizacion_de_listas_1_recibido'
                = actualizacion_de_listas_1_recibido + 1
           /\ Miran' = Miran - 1 /\ Esperan' = Esperan + 1 /\ Miran' \in Nat
           /\ UNCHANGED <<actualizacion_de_listas_1,
                          actualizacion_de_listas_2>>
        \/ /\ actualizacion_de_listas_2 > 0
           /\ actualizacion_de_listas_2' = actualizacion_de_listas_2 - 1
           /\ Esperan' = Esperan - 1
           /\ UNCHANGED <<actualizacion_de_listas_1,
                          actualizacion_de_listas_1_recibido, Miran>>
    <2>m. ASSUME hilo[p] \in {"mira", "anota"} PROVE Miran > 0
      <3>1. IsFiniteSet(EnHilo({"mira", "anota"}))
        <4>1. EnHilo({"mira", "anota"}) \subseteq Creados
          BY DEF EnHilo, Creados
        <4> QED
          BY <1>t, <4>1, FS_Subset
      <3>2. EnHilo({"mira", "anota"}) # {}
        BY <2>m DEF EnHilo
      <3> QED
        BY <1>n, <3>1, <3>2, FS_EmptySet DEF Miran
    <2>1. CASE DespiertaHilo(p)
      <3>1. Miran' = Miran + 1 /\ Esperan' = Esperan
        <4>1. hilo[p] = "espera_1" /\ VaA("mira")
          BY <2>1 DEF DespiertaHilo, VaA
        <4> QED
          BY <1>1, <1>n, <4>1
      <3> QED
        BY <2>1, <3>1 DEF DespiertaHilo
    <2>2. ASSUME NEW l \in {"espera_2", "espera_2_final"}, Responde(p, l),
                 hilo[p] \in {"mira", "anota"},
                 UNCHANGED <<actualizacion_de_listas_1,
                             actualizacion_de_listas_2>>
          PROVE  /\ actualizacion_de_listas_1_recibido'
                      = actualizacion_de_listas_1_recibido + 1
                 /\ Miran' = Miran - 1 /\ Esperan' = Esperan + 1
                 /\ Miran' \in Nat
                 /\ UNCHANGED <<actualizacion_de_listas_1,
                                actualizacion_de_listas_2>>
      <3>1. VaA(l)
        BY <2>2 DEF Responde, VaA
      <3>2. Miran' = Miran - 1 /\ Esperan' = Esperan + 1
        BY <1>1, <1>n, <2>2, <3>1
      <3> QED
        BY <1>n, <2>2, <2>m, <3>2 DEF Responde
    <2>3. CASE Mira(p)
      <3>1. CASE /\ VaA("anota")
                 /\ UNCHANGED actualizacion_de_listas_1_recibido
        <4>1. UNCHANGED <<Miran, Esperan>>
          <5>1. hilo[p] = "mira"
            BY <2>3 DEF Mira
          <5> QED
            BY <1>1, <1>n, <3>1, <5>1
        <4> QED
          BY <2>3, <3>1, <4>1 DEF Mira, semaforos
      <3>2. CASE \E l \in {"espera_2", "espera_2_final"} : Responde(p, l)
        BY <2>2, <2>3, <3>2 DEF Mira
      <3> QED
        BY <2>3, <3>1, <3>2 DEF Mira, VaA
    <2>4. CASE Anota(p)
      BY <2>2, <2>4 DEF Anota
    <2>5. CASE Vuelve(p)
      <3>1. PICK l \in {"espera_1", "fin"} : VaA(l)
        BY <2>5 DEF Vuelve, VaA
      <3>2. hilo[p] \in {"espera_2", "espera_2_final"}
        BY <2>5 DEF Vuelve
      <3>3. Miran' = Miran /\ Esperan' = Esperan - 1
        BY <1>1, <1>n, <3>1, <3>2
      <3> QED
        BY <2>5, <3>3 DEF Vuelve
    <2> QED
      BY <2>1, <2>3, <2>4, <2>5
  <1> SUFFICES ASSUME ~interrumpida
               PROVE  /\ mutex_cant_procesos = "libre" => SinRonda'
                      /\ \A h \in Actores : EnFase(h)'
    BY <1>2 DEF Repartido, cantidad
  <1>4. ASSUME mutex_cant_procesos = "libre" PROVE SinRonda'
    <2>1. SinRonda
      BY <1>t, <1>4 DEF Repartido
    <2> QED
      BY <1>3, <1>s, <1>n, <2>1 DEF SinRonda, semaforos
  <1>5. ASSUME NEW h \in Actores PROVE EnFase(h)'
    <2>1. EnFase(h) /\ aviso'[h] = aviso[h]
          /\ cantidad_de_procesos' = cantidad_de_procesos
      BY <1>t, <1>2 DEF Repartido, cantidad
    <2>2. aviso[h].pc \in EnRonda => aviso[h].i \in Nat
      BY <1>i
    <2>3. CASE aviso[h].pc = "avisa"
      BY <1>3, <1>s, <1>n, <2>1, <2>2, <2>3 DEF EnFase, EnRonda, semaforos
    <2>4. CASE aviso[h].pc = "recibe"
      BY <1>3, <1>s, <1>n, <2>1, <2>2, <2>4 DEF EnFase, EnRonda, semaforos
    <2>5. CASE aviso[h].pc = "libera"
      BY <1>3, <1>s, <1>n, <2>1, <2>2, <2>5 DEF EnFase, EnRonda, semaforos
    <2>6. CASE aviso[h].pc \notin EnRonda
      BY <2>1, <2>6 DEF EnFase, EnRonda
    <2> QED
      BY <2>3, <2>4, <2>5, <2>6 DEF EnRonda
  <1> QED
    BY <1>4, <1>5

\* A step of a round: the thread that makes it is the only one in a round.
LEMMA RepartoDeRondas ==
  ASSUME IInv, NEW h \in Actores,
         \/ TomaMutex(h) \/ Avisa(h) \/ Recibe(h) \/ Libera(h) \/ Termina(h)
  PROVE  Repartido'
  <1>t. TypeOK /\ IsFiniteSet(Creados) /\ Repartido /\ MutexDeRonda
    BY DEF IInv, CantidadExacta
  <1>n. Miran \in Nat /\ Esperan \in Nat
    BY <1>t, CuentasDeHilos
  <1>s. /\ actualizacion_de_listas_1 \in Nat
        /\ actualizacion_de_listas_1_recibido \in Nat
        /\ actualizacion_de_listas_2 \in Nat /\ cantidad_de_procesos \in Nat
    BY <1>t DEF TypeOK
  <1>1. UNCHANGED <<cantidad_de_procesos, interrumpida, Miran, Esperan>>
    BY DEF TomaMutex, Avisa, Recibe, Libera, Termina, carpinchos, cantidad,
           Miran, Esperan, EnHilo
  <1>2. ASSUME NEW o \in Actores \ {h}
        PROVE  aviso'[o] = aviso[o] /\ aviso[o].pc \notin EnRonda
    <2>1. aviso'[o] = aviso[o]
      BY <1>t DEF TomaMutex, Avisa, Recibe, Libera, Termina, Sigue, PasaA,
                  TypeOK
    <2>2. mutex_cant_procesos = h \/ mutex_cant_procesos = "libre"
      BY <1>t DEF TomaMutex, Avisa, Recibe, Libera, Termina, MutexDeRonda,
                  EnRonda
    <2>3. mutex_cant_procesos # o
      BY <2>2 DEF Actores
    <2> QED
      BY <1>t, <2>1, <2>3 DEF MutexDeRonda
  <1> SUFFICES ASSUME ~interrumpida
               PROVE  /\ mutex_cant_procesos' = "libre" => SinRonda'
                      /\ EnFase(h)'
    <2>1. ASSUME NEW o \in Actores \ {h} PROVE EnFase(o)'
      BY <1>2, <2>1 DEF EnFase, EnRonda
    <2> QED
      BY <1>1, <2>1 DEF Repartido
  <1>f. EnFase(h)
    BY <1>t DEF Repartido
  <1>4. CASE TomaMutex(h)
    <2>1. SinRonda /\ semaforos' = semaforos /\ mutex_cant_procesos' = h
      BY <1>4, <1>t DEF TomaMutex, Repartido
    <2>2. aviso'[h].pc = "avisa" /\ aviso'[h].i = 0
      BY <1>4, <1>t DEF TomaMutex, TypeOK
    <2>3. EnFase(h)'
      BY <1>1, <1>s, <1>n, <2>1, <2>2 DEF EnFase, SinRonda, semaforos
    <2> QED
      BY <2>1, <2>3 DEF Actores
  <1>5. ASSUME aviso[h].pc \in EnRonda
        PROVE  /\ aviso[h].i \in Nat /\ mutex_cant_procesos = h
               /\ Sigue(h) => /\ aviso'[h].pc = aviso[h].pc
                              /\ aviso'[h].i = aviso[h].i + 1
               /\ \A pc \in EnRonda : PasaA(h, pc) => /\ aviso'[h].pc = pc
                                                     /\ aviso'[h].i = 0
    <2>1. aviso[h] \in [pc : EnRonda, i : Nat, rondas : 1..3]
      BY <1>5, <1>t, TiposDeAviso
    <2>2. mutex_cant_procesos = h
      BY <1>5, <1>t DEF MutexDeRonda
    <2>3. DOMAIN aviso[h] = {"pc", "i", "rondas"}
      BY <2>1
    <2>4. Sigue(h) => /\ aviso'[h].pc = aviso[h].pc
                      /\ aviso'[h].i = aviso[h].i + 1
      BY <1>t, <2>1 DEF Sigue, TypeOK
    <2>5. ASSUME NEW pc \in EnRonda, PasaA(h, pc)
          PROVE  aviso'[h].pc = pc /\ aviso'[h].i = 0
      BY <1>t, <2>1, <2>5 DEF PasaA, TypeOK
    <2> QED
      BY <2>1, <2>2, <2>4, <2>5
  <1>6. CASE Avisa(h)
    <2>1. aviso[h].pc = "avisa" /\ mutex_cant_procesos' = mutex_cant_procesos
      BY <1>6 DEF Avisa
    <2>2. /\ aviso[h].i \in Nat /\ mutex_cant_procesos' = h
          /\ Sigue(h) => aviso'[h].pc = "avisa" /\ aviso'[h].i = aviso[h].i + 1
          /\ PasaA(h, "recibe") => aviso'[h].pc = "recibe" /\ aviso'[h].i = 0
      BY <1>5, <2>1 DEF EnRonda
    <2>3. EnFase(h)'
      BY <1>1, <1>f, <1>s, <1>n, <1>6, <2>1, <2>2 DEF EnFase, Avisa
    <2> QED
      BY <2>2, <2>3 DEF Actores
  <1>7. CASE Recibe(h)
    <2>1. aviso[h].pc = "recibe" /\ mutex_cant_procesos' = mutex_cant_procesos
      BY <1>7 DEF Recibe
    <2>2. /\ aviso[h].i \in Nat /\ mutex_cant_procesos' = h
          /\ Sigue(h) => aviso'[h].pc = "recibe" /\ aviso'[h].i = aviso[h].i + 1
          /\ PasaA(h, "libera") => aviso'[h].pc = "libera" /\ aviso'[h].i = 0
      BY <1>5, <2>1 DEF EnRonda
    <2>3. EnFase(h)'
      <3>1. /\ actualizacion_de_listas_1 + Miran
                 + actualizacion_de_listas_1_recibido + aviso[h].i
                 = cantidad_de_procesos
            /\ actualizacion_de_listas_2 + actualizacion_de_listas_1_recibido
                 + aviso[h].i = Esperan
        BY <1>f, <2>1 DEF EnFase
      <3>2. CASE aviso[h].i < cantidad_de_procesos
        BY <1>1, <1>s, <1>n, <1>7, <2>2, <3>1, <3>2 DEF EnFase, Recibe
      <3>3. CASE ~(aviso[h].i < cantidad_de_procesos)
        <4>1. /\ actualizacion_de_listas_1 = 0 /\ Miran = 0
              /\ actualizacion_de_listas_1_recibido = 0
              /\ actualizacion_de_listas_2 + cantidad_de_procesos = Esperan
          BY <1>s, <1>n, <2>2, <3>1, <3>3
        <4>2. /\ aviso'[h].pc = "libera" /\ aviso'[h].i = 0
              /\ semaforos' = semaforos
          BY <1>7, <2>2, <3>3 DEF Recibe, semaforos
        <4> QED
          BY <1>1, <1>s, <1>n, <4>1, <4>2 DEF EnFase, semaforos
      <3> QED
        BY <3>2, <3>3
    <2> QED
      BY <2>2, <2>3 DEF Actores
  <1>8. CASE Libera(h)
    <2>1. aviso[h].pc = "libera" /\ mutex_cant_procesos' = mutex_cant_procesos
      BY <1>8 DEF Libera
    <2>2. /\ aviso[h].i \in Nat /\ mutex_cant_procesos' = h
          /\ aviso'[h].pc = "libera" /\ aviso'[h].i = aviso[h].i + 1
      BY <1>5, <1>8, <2>1 DEF EnRonda, Libera
    <2>3. EnFase(h)'
      BY <1>1, <1>f, <1>s, <1>n, <1>8, <2>1, <2>2 DEF EnFase, Libera
    <2> QED
      BY <2>2, <2>3 DEF Actores
  <1>9. CASE Termina(h)
    <2>1. /\ aviso[h].pc = "libera" /\ aviso[h].i >= cantidad_de_procesos
          /\ aviso[h].i \in Nat /\ semaforos' = semaforos
      BY <1>5, <1>9 DEF Termina, EnRonda
    <2>2. aviso'[h].pc \notin EnRonda
      BY <1>9, <1>t DEF Termina, EnRonda, TypeOK, Listo
    <2>3. SinRonda'
      BY <1>1, <1>f, <1>s, <1>n, <2>1 DEF EnFase, SinRonda, semaforos
    <2> QED
      BY <2>2, <2>3 DEF EnFase, EnRonda
  <1> QED
    BY <1>4, <1>6, <1>7, <1>8, <1>9

\* What a round has handed out, in every step.
LEMMA RepartoInductivo == IInv /\ [Next]_vars => Repartido'
  <1> SUFFICES ASSUME IInv, [Next]_vars PROVE Repartido'
    OBVIOUS
  <1>t. TypeOK /\ Repartido /\ MutexDeRonda /\ IsFiniteSet(Creados)
    BY DEF IInv, CantidadExacta
  <1>1. ASSUME NEW h \in Actores, NEW n \in 1..3, Empieza(h, n)
        PROVE  \A o \in Actores : aviso'[o] = aviso[o]
                                  \/ aviso'[o].pc \notin EnRonda
    BY <1>t, <1>1 DEF Empieza, TypeOK, EnRonda
  <1>2. ASSUME NEW h \in Actores, NEW n \in 1..3, Empieza(h, n), hilo' = hilo,
               UNCHANGED <<semaforos, cantidad, mutex_cant_procesos>>
        PROVE  Repartido'
    <2>1. Miran' = Miran /\ Esperan' = Esperan
      BY <1>2 DEF Miran, Esperan, EnHilo
    <2> QED
      BY <1>1, <1>2, <1>t, <2>1, RepartoIgual
  <1>u. 1 \in 1..3 /\ 3 \in 1..3
    OBVIOUS
  <1>3. ASSUME NEW p \in Procesos, Sale(p) PROVE Repartido'
    BY <1>2, <1>3, <1>u DEF Sale, Actores
  <1>4. ASSUME NEW p \in Procesos, Suspende(p) PROVE Repartido'
    BY <1>2, <1>4, <1>u DEF Suspende, Actores
  <1>5. ASSUME NEW p \in Procesos, NEW d \in Estados, Mueve(p, d)
        PROVE  Repartido'
    BY <1>2, <1>5, <1>u DEF Mueve, Actores
  <1>s. ASSUME mutex_cant_procesos = "libre", ~interrumpida,
               UNCHANGED <<semaforos, mutex_cant_procesos, Miran, Esperan>>,
               \A o \in Actores : aviso'[o] = aviso[o]
                                  \/ aviso'[o].pc \notin EnRonda
        PROVE  Repartido'
    <2>1. SinRonda'
      BY <1>t, <1>s DEF Repartido, SinRonda, semaforos
    <2>2. \A o \in Actores : aviso'[o].pc \notin EnRonda
      <3>1. \A o \in Actores : mutex_cant_procesos # o
        BY <1>s DEF Actores
      <3> QED
        BY <1>t, <1>s, <3>1 DEF MutexDeRonda
    <2>3. \A o \in Actores : EnFase(o)'
      BY <2>2 DEF EnFase, EnRonda
    <2> QED
      BY <2>1, <2>3 DEF Repartido
  <1>i. ASSUME NEW n \in {1, -1}, CambiaCantidad(n), interrumpida'
        PROVE  Repartido'
    BY <1>i DEF Repartido
  <1>c. ASSUME NEW n, CambiaCantidad(n), ~interrumpida'
        PROVE  mutex_cant_procesos = "libre" /\ ~interrumpida
    BY <1>c, <1>t DEF CambiaCantidad, TypeOK
  <1>6. ASSUME NEW p \in Procesos, Nuevo(p) PROVE Repartido'
    <2>1. CASE interrumpida'
      BY <2>1 DEF Repartido
    <2>2. CASE ~interrumpida'
      <3>1. mutex_cant_procesos = "libre" /\ ~interrumpida
        BY <1>6, <1>c, <2>2 DEF Nuevo
      <3>2. Miran' = Miran /\ Esperan' = Esperan
        <4>1. EnHilo({"mira", "anota"})' = EnHilo({"mira", "anota"})
          BY <1>6, <1>t DEF Nuevo, EnHilo, TypeOK
        <4>2. EnHilo({"espera_2", "espera_2_final"})'
                = EnHilo({"espera_2", "espera_2_final"})
          BY <1>6, <1>t DEF Nuevo, EnHilo, TypeOK
        <4> QED
          BY <4>1, <4>2 DEF Miran, Esperan
      <3>3. \A o \in Actores : aviso'[o] = aviso[o]
                               \/ aviso'[o].pc \notin EnRonda
        BY <1>1, <1>6, <1>u DEF Nuevo, Actores
      <3> QED
        BY <1>6, <1>s, <3>1, <3>2, <3>3 DEF Nuevo
    <2> QED
      BY <2>1, <2>2
  <1>7. ASSUME NEW h \in Actores, Resta(h) PROVE Repartido'
    <2>1. CASE interrumpida'
      BY <2>1 DEF Repartido
    <2>2. CASE ~interrumpida'
      <3>1. mutex_cant_procesos = "libre" /\ ~interrumpida
        BY <1>7, <1>c, <2>2 DEF Resta
      <3>2. Miran' = Miran /\ Esperan' = Esperan
        BY <1>7 DEF Miran, Esperan, EnHilo, Resta, carpinchos
      <3>3. \A o \in Actores : aviso'[o] = aviso[o]
                               \/ aviso'[o].pc \notin EnRonda
        BY <1>7, <1>t, TiposDeAviso DEF Resta, EnRonda, TypeOK
      <3> QED
        BY <1>7, <1>s, <3>1, <3>2, <3>3 DEF Resta
    <2> QED
      BY <2>1, <2>2
  <1>8. CASE UNCHANGED vars
    <2>1. Miran' = Miran /\ Esperan' = Esperan
      BY <1>8 DEF Miran, Esperan, EnHilo, vars, cambian, carpinchos
    <2> QED
      BY <1>8, <1>t, <2>1, RepartoIgual DEF vars, cambian
  <1> QED
    BY <1>3, <1>4, <1>5, <1>6, <1>7, <1>8, RepartoDeHilos, RepartoDeRondas
    DEF Next, Paso, Ronda
-----------------------------------------------------------------------------
(* The theorems *)

LEMMA InvarianteInductivo == Spec => []IInv
  <1>1. IInv /\ [Next]_vars => IInv'
    BY TipoInductivo, MutexInductivo, CantidadInductiva, RepartoInductivo,
       SoloListasInductivo
    DEF IInv
  <1> QED
    BY InvInicial, <1>1, PTL DEF Spec

\* The types, for any carpinchos: the three semaphores are never negative,
\* nor is cantidad_de_procesos, whatever arrives and exits in a round.
THEOREM TipoCorrecto == Spec => []TypeOK
  BY InvarianteInductivo, PTL DEF IInv

\* A round that nobody interrupted leaves nothing but the posts that the
\* threads that answered did not take yet.
THEOREM RondasCerradas == Spec => []RondaCerrada
  <1>1. IInv => RondaCerrada
    <2> SUFFICES ASSUME IInv, EntreRondas, ~interrumpida
                 PROVE  /\ actualizacion_de_listas_1 = 0
                        /\ actualizacion_de_listas_1_recibido = 0
                        /\ EnHilo({"mira", "anota"}) = {}
                        /\ actualizacion_de_listas_2 = Esperan
      BY DEF RondaCerrada, Esperan
    <2>1. \A h \in Actores : mutex_cant_procesos # h
      BY DEF IInv, MutexDeRonda, EntreRondas, EnRonda
    <2>2. mutex_cant_procesos = "libre"
      BY <2>1 DEF IInv, TypeOK
    <2>3. SinRonda
      BY <2>2 DEF IInv, Repartido
    <2>4. EnHilo({"mira", "anota"}) = {}
      BY <2>3, CuentasDeHilos DEF SinRonda, IInv, CantidadExacta
    <2> QED
      BY <2>3, <2>4 DEF SinRonda
  <1> QED
    BY InvarianteInductivo, <1>1, PTL

\* Without the medium term planner no status changes while the thread of the
\* carpincho looks at it.
THEOREM LecturasEstables == Spec => LecturaEstable
  <1> DEFINE Lectura ==
        escenario.suspensiones = 0 =>
          \A p \in Procesos :
            status'[p] # status[p] => hilo[p] \notin {"mira", "anota"}
  <1>1. IInv /\ [Next]_vars => [Lectura]_vars
    <2> SUFFICES ASSUME IInv, Next, escenario.suspensiones = 0,
                        NEW p \in Procesos, status'[p] # status[p]
                 PROVE  hilo[p] \notin {"mira", "anota"}
      OBVIOUS
    <2>1. aviso["mediano"] = Listo /\ ~interrumpida /\ suspensiones = 0
      BY DEF IInv, SoloListas
    <2>2. status' # status
      OBVIOUS
    <2>3. PICK q \in Procesos :
            \/ Sale(q) \/ Suspende(q)
            \/ \E destino \in Estados : Mueve(q, destino)
      BY <2>2
      DEF Next, Paso, Nuevo, DespiertaHilo, Mira, Anota, Vuelve, Ronda,
          TomaMutex, Avisa, Recibe, Libera, Termina, Resta, carpinchos
    <2>4. ~Suspende(q)
      BY <2>1 DEF Suspende
    <2>5. aviso["listas"] = Listo
      BY <2>3, <2>4 DEF Sale, Mueve, Empieza
    <2>6. mutex_cant_procesos = "libre"
      BY <2>1, <2>5
      DEF IInv, TypeOK, MutexDeRonda, EnRonda, Listo, Actores
    <2>7. Miran = 0
      BY <2>1, <2>6 DEF IInv, Repartido, SinRonda
    <2>8. EnHilo({"mira", "anota"}) = {}
      BY <2>7, CuentasDeHilos DEF IInv, CantidadExacta
    <2> QED
      BY <2>8 DEF EnHilo
  <1> QED
    BY InvarianteInductivo, <1>1, PTL DEF Spec, LecturaEstable
=============================================================================
