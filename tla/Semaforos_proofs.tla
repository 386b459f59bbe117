-------------------------- MODULE Semaforos_proofs --------------------------
(***************************************************************************)
(* Proofs about the semaphores of the kernel: their types, that value and  *)
(* queue agree, that a blocked carpincho waits in exactly one place, and   *)
(* that a semaphore used as a mutex has one unit; and about the detector   *)
(* beside them: that a search which starts with nothing seen is right, and *)
(* that a pass finds every deadlock.                                       *)
(***************************************************************************)
EXTENDS DeteccionDeadlock, Listas_proofs

\* p is the i-th of the queue of the k-th semaphore
Esta(p, k, i) ==
  /\ k \in DOMAIN lista_semaforos
  /\ i \in DOMAIN lista_semaforos[k].solicitantes
  /\ lista_semaforos[k].solicitantes[i] = p

EnAlguna(p) == \E k, i \in Nat : Esta(p, k, i)

UnLugar(p) ==
  \A k, i, m, j \in Nat : Esta(p, k, i) /\ Esta(p, m, j) => k = m /\ i = j

\* BloqueadoEnUnaCola by places instead of their number
ColasExactas ==
  caido = "no" =>
    \A p \in Procesos :
      estado[p] # "fuera" =>
        /\ UnLugar(p)
        /\ EnAlguna(p) <=> (estado[p] = "bloqueado" /\ p \notin sin_semaforo)

\* A carpincho that is blocked has no task in its hands, and one that waits
\* for a name nobody created does not run
TareasYEstados ==
  \A p \in Procesos :
    /\ estado[p] = "bloqueado" => tarea[p] = Ninguna
    /\ p \in sin_semaforo => estado[p] # "corre"

\* The loops of hilo_salida_a_exit go over the lists of one that is out
SalidaEnCurso ==
  salida.pc \in {"solicitudes", "recursos"} =>
    /\ estado[salida.id] = "fuera"
    /\ salida.index >= 1
    /\ salida.pc = "solicitudes" => salida.index2 >= 1

\* The inductive invariant
IInv == /\ escenario \in Escenarios
        /\ TypeOK /\ ValorYSolicitantes /\ ColasExactas
        /\ TareasYEstados /\ SalidaEnCurso
-----------------------------------------------------------------------------
(* Lemmas on the records and the lists *)

\* What the task of a carpincho holds.
LEMMA TiposDeTarea ==
  ASSUME TypeOK, escenario \in Escenarios, NEW p \in Procesos
  PROVE  /\ tarea[p].op \in {"ninguna", "init", "agrega", "wait", "post",
                             "destroy"}
         /\ tarea[p].op = "ninguna" <=> tarea[p] = Ninguna
         /\ tarea[p].op # "ninguna" => tarea[p].nombre \in Nombres
         /\ tarea[p].op \in {"init", "agrega"} =>
              tarea[p] \in [op : {"init", "agrega"}, nombre : Nombres,
                            value : Nat]
  <1>1. escenario.operaciones \subseteq {"init", "wait", "post", "destroy"}
        /\ escenario.valor \in Nat
    BY ConstantesOK
  <1>2. \/ tarea[p] = Ninguna
        \/ tarea[p] \in [op : {"init"}, nombre : Nombres, value : Nat]
        \/ tarea[p] \in [op : {"wait", "post", "destroy"}, nombre : Nombres]
        \/ tarea[p] \in [op : {"agrega"}, nombre : Nombres, value : Nat]
    BY <1>1 DEF TypeOK, Tareas
  <1> QED
    BY <1>2 DEF Ninguna

\* What the place of hilo_salida_a_exit says of its record.
LEMMA TiposDeSalida ==
  ASSUME TypeOK
  PROVE  /\ salida.pc \in {"espera", "toma_semaforos", "solicitudes",
                           "recursos"}
         /\ salida.pc = "solicitudes" =>
              salida \in [pc : {"solicitudes"}, id : Procesos, index : Nat,
                          index2 : Nat]
         /\ salida.pc = "recursos" =>
              salida \in [pc : {"recursos"}, id : Procesos, index : Nat]
  BY DEF TypeOK, Quieta

LEMMA TiposDeListas ==
  ASSUME TypeOK, NEW k \in DOMAIN lista_semaforos
  PROVE  /\ Len(lista_semaforos) \in Nat /\ k \in 1..Len(lista_semaforos)
         /\ k \in Nat
         /\ lista_semaforos[k] \in Semaforo
         /\ lista_semaforos[k].nombre \in Nombres
         /\ lista_semaforos[k].value \in Int
         /\ lista_semaforos[k].solicitantes \in Seq(Procesos)
         /\ Len(lista_semaforos[k].solicitantes) \in Nat
         /\ DOMAIN lista_semaforos[k].solicitantes
              = 1..Len(lista_semaforos[k].solicitantes)
  <1>1. lista_semaforos \in Seq(Semaforo)
    BY DEF TypeOK
  <1>2. Len(lista_semaforos) \in Nat /\ k \in 1..Len(lista_semaforos)
    BY <1>1, LenProperties
  <1>3. lista_semaforos[k] \in Semaforo
    BY <1>1, <1>2, ElementOfSeq
  <1>4. lista_semaforos[k].solicitantes \in Seq(Procesos)
    BY <1>3 DEF Semaforo
  <1>5. /\ Len(lista_semaforos[k].solicitantes) \in Nat
        /\ DOMAIN lista_semaforos[k].solicitantes
             = 1..Len(lista_semaforos[k].solicitantes)
    BY <1>4, LenProperties
  <1> QED
    BY <1>2, <1>3, <1>4, <1>5 DEF Semaforo

\* A semaphore whose value and queue change: the others stay, and the two go
\* on agreeing if the new ones do.
LEMMA CambiaSemaforo ==
  ASSUME TypeOK, ValorYSolicitantes, NEW k \in DOMAIN lista_semaforos,
         NEW v \in Int, NEW cola \in Seq(Procesos),
         Len(cola) = IF v < 0 THEN -v ELSE 0,
         lista_semaforos' = [lista_semaforos EXCEPT
                               ![k].value = v, ![k].solicitantes = cola]
  PROVE  /\ lista_semaforos' \in Seq(Semaforo)
         /\ ValorYSolicitantes'
         /\ DOMAIN lista_semaforos' = DOMAIN lista_semaforos
         /\ \A m \in DOMAIN lista_semaforos :
              lista_semaforos'[m] =
                IF m = k THEN [nombre |-> lista_semaforos[k].nombre,
                               value |-> v, solicitantes |-> cola]
                ELSE lista_semaforos[m]
  <1> DEFINE nuevo == [nombre |-> lista_semaforos[k].nombre,
                       value |-> v, solicitantes |-> cola]
  <1>1. /\ lista_semaforos \in Seq(Semaforo) /\ lista_semaforos[k] \in Semaforo
        /\ k \in 1..Len(lista_semaforos)
    BY TiposDeListas DEF TypeOK
  <1>2. nuevo \in Semaforo
    BY <1>1 DEF Semaforo
  <1>3. lista_semaforos' = [lista_semaforos EXCEPT ![k] = nuevo]
    <2> DEFINE uno == [lista_semaforos EXCEPT ![k].value = v]
               dos == [uno EXCEPT ![k].solicitantes = cola]
    <2>1. DOMAIN uno = DOMAIN lista_semaforos /\ DOMAIN dos = DOMAIN uno
      OBVIOUS
    <2>2. uno[k] = [lista_semaforos[k] EXCEPT !.value = v]
      OBVIOUS
    <2>3. dos[k] = [uno[k] EXCEPT !.solicitantes = cola]
      OBVIOUS
    <2>4. dos[k] = nuevo
      BY <1>1, <2>2, <2>3 DEF Semaforo
    <2>5. dos = [m \in DOMAIN lista_semaforos |-> dos[m]]
      OBVIOUS
    <2>6. \A m \in DOMAIN lista_semaforos \ {k} : dos[m] = lista_semaforos[m]
      OBVIOUS
    <2>7. lista_semaforos' = dos
      OBVIOUS
    <2> HIDE DEF uno, dos, nuevo
    <2> QED
      BY <2>4, <2>5, <2>6, <2>7
  <1> HIDE DEF nuevo
  <1>4. /\ [lista_semaforos EXCEPT ![k] = nuevo] \in Seq(Semaforo)
        /\ Len([lista_semaforos EXCEPT ![k] = nuevo]) = Len(lista_semaforos)
        /\ \A m \in 1..Len(lista_semaforos) :
             [lista_semaforos EXCEPT ![k] = nuevo][m]
               = IF m = k THEN nuevo ELSE lista_semaforos[m]
    BY <1>1, <1>2, ExceptSeq
  <1>5. DOMAIN lista_semaforos' = DOMAIN lista_semaforos
    BY <1>3
  <1>6. \A m \in DOMAIN lista_semaforos :
          lista_semaforos'[m] = IF m = k THEN nuevo ELSE lista_semaforos[m]
    BY <1>3
  <1>7. ValorYSolicitantes'
    BY <1>5, <1>6 DEF ValorYSolicitantes, nuevo
  <1> QED
    BY <1>3, <1>4, <1>5, <1>6, <1>7 DEF nuevo

\* A semaphore that is added at the end.
LEMMA AgregaSemaforo ==
  ASSUME TypeOK, ValorYSolicitantes, NEW n \in Nombres, NEW v \in Nat,
         lista_semaforos' = Append(lista_semaforos, SemaforoNuevo(n, v))
  PROVE  /\ lista_semaforos' \in Seq(Semaforo)
         /\ ValorYSolicitantes'
         /\ DOMAIN lista_semaforos' = 1..(Len(lista_semaforos) + 1)
         /\ \A m \in DOMAIN lista_semaforos :
              lista_semaforos'[m] = lista_semaforos[m]
         /\ lista_semaforos'[Len(lista_semaforos) + 1] = SemaforoNuevo(n, v)
  <1>1. lista_semaforos \in Seq(Semaforo) /\ Len(lista_semaforos) \in Nat
        /\ DOMAIN lista_semaforos = 1..Len(lista_semaforos)
    BY LenProperties DEF TypeOK
  <1>2. SemaforoNuevo(n, v) \in Semaforo
    BY DEF SemaforoNuevo, Semaforo
  <1>3. /\ lista_semaforos' \in Seq(Semaforo)
        /\ DOMAIN lista_semaforos' = 1..(Len(lista_semaforos) + 1)
        /\ \A m \in DOMAIN lista_semaforos :
              lista_semaforos'[m] = lista_semaforos[m]
        /\ lista_semaforos'[Len(lista_semaforos) + 1] = SemaforoNuevo(n, v)
    BY <1>1, <1>2
  <1>4. /\ SemaforoNuevo(n, v).value = v
        /\ Len(SemaforoNuevo(n, v).solicitantes) = 0
    BY DEF SemaforoNuevo
  <1>5. ValorYSolicitantes'
    <2> SUFFICES ASSUME NEW m \in DOMAIN lista_semaforos'
                 PROVE  Len(lista_semaforos'[m].solicitantes) =
                          IF lista_semaforos'[m].value < 0
                          THEN -lista_semaforos'[m].value ELSE 0
      BY DEF ValorYSolicitantes
    <2>1. CASE m \in DOMAIN lista_semaforos
      BY <1>3, <2>1 DEF ValorYSolicitantes
    <2>2. CASE m \notin DOMAIN lista_semaforos
      <3>1. m = Len(lista_semaforos) + 1
        BY <1>1, <1>3, <2>2
      <3> QED
        BY <1>3, <1>4, <3>1
    <2> QED
      BY <2>1, <2>2
  <1> QED
    BY <1>3, <1>5

\* A semaphore that is destroyed.
LEMMA QuitaSemaforo ==
  ASSUME TypeOK, ValorYSolicitantes, NEW k \in DOMAIN lista_semaforos,
         lista_semaforos' = RemoveAt(lista_semaforos, k)
  PROVE  /\ lista_semaforos' \in Seq(Semaforo)
         /\ ValorYSolicitantes'
         /\ DOMAIN lista_semaforos' = 1..(Len(lista_semaforos) - 1)
         /\ \A m \in 1..(Len(lista_semaforos) - 1) :
              lista_semaforos'[m] = IF m < k THEN lista_semaforos[m]
                                    ELSE lista_semaforos[m + 1]
  <1>1. lista_semaforos \in Seq(Semaforo) /\ Len(lista_semaforos) \in Nat
        /\ DOMAIN lista_semaforos = 1..Len(lista_semaforos)
    BY LenProperties DEF TypeOK
  <1>2. /\ lista_semaforos' \in Seq(Semaforo)
        /\ DOMAIN lista_semaforos' = 1..(Len(lista_semaforos) - 1)
        /\ \A m \in 1..(Len(lista_semaforos) - 1) :
             lista_semaforos'[m] = IF m < k THEN lista_semaforos[m]
                                   ELSE lista_semaforos[m + 1]
    BY <1>1, QuitarUno
  <1>3. ValorYSolicitantes'
    <2> SUFFICES ASSUME NEW m \in DOMAIN lista_semaforos'
                 PROVE  Len(lista_semaforos'[m].solicitantes) =
                          IF lista_semaforos'[m].value < 0
                          THEN -lista_semaforos'[m].value ELSE 0
      BY DEF ValorYSolicitantes
    <2>1. PICK j \in DOMAIN lista_semaforos :
            lista_semaforos'[m] = lista_semaforos[j]
      BY SMTT(30), <1>1, <1>2
    <2> QED
      BY <2>1 DEF ValorYSolicitantes
  <1> QED
    BY <1>2, <1>3

\* devolver_recurso leaves a list of resources.
LEMMA DevuelveTipa ==
  ASSUME NEW recursos \in Seq(Recurso), NEW id, NEW n,
         Devuelve(recursos, id, n)
  PROVE  lista_recursos_asignados' \in Seq(Recurso)
  <1>1. CASE \E i \in DOMAIN recursos :
               lista_recursos_asignados' = RemoveAt(recursos, i)
    BY <1>1, QuitarUno
  <1>2. CASE lista_recursos_asignados' = recursos
    BY <1>2
  <1> QED
    BY <1>1, <1>2 DEF Devuelve

\* The three things that a post for n by id may do: nothing, if nobody
\* created n ...
PosteNulo(n) ==
  /\ UNCHANGED <<lista_semaforos, estado, caido, tiene>>
  /\ \A j \in DOMAIN lista_semaforos : lista_semaforos[j].nombre # n

\* ... one more unit of the k-th semaphore, for which nobody waits ...
PosteSuma(k, n, id) ==
  LET s == lista_semaforos[k] IN
  /\ EsIndice(k, n) /\ s.nombre = n /\ n \in Nombres
  /\ s.value >= 0 /\ s.solicitantes = <<>>
  /\ lista_semaforos' = [lista_semaforos EXCEPT
       ![k].value = s.value + 1, ![k].solicitantes = <<>>]
  /\ tiene' = [tiene EXCEPT ![id] = @ \ {n}]
  /\ UNCHANGED <<estado, caido>>

\* ... or a unit that goes to q, the first of its queue.
PosteEntrega(k, n, id, q) ==
  LET s == lista_semaforos[k] IN
  /\ EsIndice(k, n) /\ s.nombre = n /\ n \in Nombres
  /\ s.value < 0 /\ s.solicitantes # <<>>
  /\ q = s.solicitantes[1]
  /\ lista_semaforos' = [lista_semaforos EXCEPT
       ![k].value = s.value + 1, ![k].solicitantes = Tail(s.solicitantes)]
  /\ \/ /\ estado[q] = "bloqueado"
        /\ estado' = [estado EXCEPT ![q] = "corre"]
        /\ tiene' = [tiene EXCEPT ![id] = @ \ {n}, ![q] = @ \cup {n}]
        /\ UNCHANGED caido
     \/ /\ estado[q] # "bloqueado"
        /\ caido' = "traer_proceso_bloqueado"
        /\ UNCHANGED <<estado, tiene>>

\* Writing the queue that is there changes nothing.
LEMMA MismaCola ==
  ASSUME NEW r \in Semaforo, NEW v \in Int
  PROVE  [[r EXCEPT !.value = v] EXCEPT !.solicitantes = r.solicitantes]
         = [r EXCEPT !.value = v]
  BY DEF Semaforo

LEMMA PosteaEfecto ==
  ASSUME TypeOK, ValorYSolicitantes,
         NEW recursos \in Seq(Recurso), NEW n \in Nombres \cup {Colgado},
         NEW nombre \in Nombres \cup {Colgado}, NEW id \in Procesos,
         Postear(recursos, n, nombre, id)
  PROVE  /\ lista_recursos_asignados' \in Seq(Recurso)
         /\ \/ PosteNulo(n)
            \/ \E k \in DOMAIN lista_semaforos :
                 \/ PosteSuma(k, n, id)
                 \/ \E q \in Procesos : PosteEntrega(k, n, id, q)
  <1>1. PICK k \in Indices : EsIndice(k, n) /\
          (\/ /\ k = 0
              /\ lista_recursos_asignados' = recursos
              /\ UNCHANGED <<lista_semaforos, estado, caido, tiene>>
           \/ /\ k # 0 /\ lista_semaforos[k].value >= 0
              /\ lista_semaforos' = Sumado(k)
              /\ Devuelve(recursos, id, n)
              /\ tiene' = [tiene EXCEPT ![id] = @ \ {n}]
              /\ UNCHANGED <<estado, caido>>
           \/ /\ k # 0 /\ lista_semaforos[k].value < 0
              /\ LET q == Head(lista_semaforos[k].solicitantes) IN
                 /\ lista_semaforos' = SumadoSinPrimero(k)
                 /\ IF estado[q] = "bloqueado"
                    THEN /\ estado' = [estado EXCEPT ![q] = "corre"]
                         /\ Devuelve(Append(recursos, Asignado(nombre, q)),
                                     id, n)
                         /\ tiene' = [tiene EXCEPT ![id] = @ \ {n},
                                                  ![q] = @ \cup {n}]
                         /\ UNCHANGED caido
                    ELSE /\ caido' = "traer_proceso_bloqueado"
                         /\ lista_recursos_asignados' = recursos
                         /\ UNCHANGED <<estado, tiene>>)
    BY DEF Postear
  <1>2. CASE k = 0
    <2>1. \A j \in DOMAIN lista_semaforos : lista_semaforos[j].nombre # n
      BY <1>1, <1>2 DEF EsIndice
    <2> QED
      BY <1>1, <1>2, <2>1 DEF PosteNulo
  <1>3. CASE k # 0
    <2>0. lista_semaforos \in Seq(Semaforo)
      BY DEF TypeOK
    <2>1. k \in DOMAIN lista_semaforos
      <3>1. /\ Len(lista_semaforos) \in Nat
            /\ DOMAIN lista_semaforos = 1..Len(lista_semaforos)
        BY <2>0, LenProperties
      <3> QED
        BY <1>3, <3>1 DEF Indices
    <2> DEFINE s == lista_semaforos[k]
    <2>2. /\ s.nombre \in Nombres /\ s.value \in Int
          /\ s.solicitantes \in Seq(Procesos) /\ Len(s.solicitantes) \in Nat
      BY <2>1, TiposDeListas
    <2>3. s.nombre = n /\ n \in Nombres
      BY <1>1, <1>3, <2>2 DEF EsIndice
    <2>4. Len(s.solicitantes) = IF s.value < 0 THEN -s.value ELSE 0
      BY <2>1 DEF ValorYSolicitantes
    <2>5. /\ Sumado(k) = [lista_semaforos EXCEPT
               ![k].value = s.value + 1, ![k].solicitantes = s.solicitantes]
          /\ SumadoSinPrimero(k) = [lista_semaforos EXCEPT
               ![k].value = s.value + 1,
               ![k].solicitantes = Tail(s.solicitantes)]
      <3>1. s \in Semaforo
        BY <2>0, <2>1
      <3>2. [[s EXCEPT !.value = s.value + 1]
               EXCEPT !.solicitantes = s.solicitantes]
            = [s EXCEPT !.value = s.value + 1]
        BY <3>1, MismaCola
      <3>3. Sumado(k) = [lista_semaforos EXCEPT
                           ![k] = [s EXCEPT !.value = s.value + 1]]
        BY <2>1 DEF Sumado
      <3>4. Sumado(k)[k] = [s EXCEPT !.value = s.value + 1]
        BY <2>0, <2>1, <3>3
      <3>5. Sumado(k)[k].solicitantes = s.solicitantes
        BY <3>1, <3>4 DEF Semaforo
      <3>6. SumadoSinPrimero(k) = [Sumado(k) EXCEPT
              ![k] = [Sumado(k)[k] EXCEPT !.solicitantes
                                           = Tail(s.solicitantes)]]
        BY <3>5 DEF SumadoSinPrimero
      <3> QED
        BY <2>1, <3>2, <3>3, <3>4, <3>6
    <2>6. CASE s.value >= 0
      <3>1. s.solicitantes = <<>>
        BY <2>2, <2>4, <2>6, EmptySeq
      <3>2. lista_recursos_asignados' \in Seq(Recurso)
        BY <1>1, <1>3, <2>2, <2>6, DevuelveTipa
      <3>3. lista_semaforos' = [lista_semaforos EXCEPT
               ![k].value = s.value + 1, ![k].solicitantes = <<>>]
        BY <1>1, <1>3, <2>2, <2>5, <2>6, <3>1
      <3>4. tiene' = [tiene EXCEPT ![id] = @ \ {n}] /\ UNCHANGED <<estado, caido>>
        BY <1>1, <1>3, <2>2, <2>6
      <3> HIDE DEF s
      <3> QED
        BY <1>1, <2>1, <2>3, <2>6, <3>1, <3>2, <3>3, <3>4 DEF s, PosteSuma
    <2>7. CASE s.value < 0
      <3>1. s.solicitantes # <<>>
        <4>1. Len(s.solicitantes) # 0
          BY <2>2, <2>4, <2>7
        <4> QED
          BY <4>1, EmptySeq
      <3>2. Head(s.solicitantes) = s.solicitantes[1]
        BY <2>2, <3>1
      <3>3. s.solicitantes[1] \in Procesos
        BY <2>2, <3>1, <3>2, HeadTailProperties
      <3>4. Asignado(nombre, s.solicitantes[1]) \in Recurso
        BY <3>3 DEF Asignado, Recurso
      <3>5. Append(recursos, Asignado(nombre, s.solicitantes[1]))
              \in Seq(Recurso)
        BY <3>4
      <3>6. lista_recursos_asignados' \in Seq(Recurso)
        BY <1>1, <1>3, <2>2, <2>7, <3>2, <3>5, DevuelveTipa
      <3>7. lista_semaforos' = [lista_semaforos EXCEPT
               ![k].value = s.value + 1,
               ![k].solicitantes = Tail(s.solicitantes)]
        <4>1. lista_semaforos' = SumadoSinPrimero(k)
          BY <1>1, <1>3, <2>2, <2>7
        <4> QED
          BY <2>5, <4>1
      <3>8. \/ /\ estado[s.solicitantes[1]] = "bloqueado"
               /\ estado' = [estado EXCEPT ![s.solicitantes[1]] = "corre"]
               /\ tiene' = [tiene EXCEPT ![id] = @ \ {n},
                                        ![s.solicitantes[1]] = @ \cup {n}]
               /\ UNCHANGED caido
            \/ /\ estado[s.solicitantes[1]] # "bloqueado"
               /\ caido' = "traer_proceso_bloqueado"
               /\ UNCHANGED <<estado, tiene>>
        BY <1>1, <1>3, <2>2, <2>7, <3>2
      <3> HIDE DEF s
      <3> QED
        BY <1>1, <2>1, <2>3, <2>7, <3>1, <3>3, <3>6, <3>7, <3>8
        DEF s, PosteEntrega
    <2>8. s.value >= 0 \/ s.value < 0
      BY <2>2
    <2> QED
      BY <2>6, <2>7, <2>8, Zenon
  <1> QED
    BY <1>2, <1>3, Zenon

\* A post keeps the types, and value and queue in agreement.
LEMMA PosteaTipa ==
  ASSUME TypeOK, ValorYSolicitantes,
         NEW recursos \in Seq(Recurso), NEW n \in Nombres \cup {Colgado},
         NEW nombre \in Nombres \cup {Colgado}, NEW id \in Procesos,
         Postear(recursos, n, nombre, id)
  PROVE  /\ lista_recursos_asignados' \in Seq(Recurso)
         /\ lista_semaforos' \in Seq(Semaforo) /\ ValorYSolicitantes'
         /\ estado' \in [Procesos -> {"corre", "bloqueado", "fuera"}]
         /\ tiene' \in [Procesos -> SUBSET Nombres]
         /\ caido' \in {"no", "traer_proceso_bloqueado", "puntero_nulo"}
  <1>t. /\ estado \in [Procesos -> {"corre", "bloqueado", "fuera"}]
        /\ tiene \in [Procesos -> SUBSET Nombres]
        /\ caido \in {"no", "traer_proceso_bloqueado", "puntero_nulo"}
        /\ lista_semaforos \in Seq(Semaforo)
    BY DEF TypeOK
  <1>r. lista_recursos_asignados' \in Seq(Recurso)
    BY PosteaEfecto
  <1>1. CASE PosteNulo(n)
    BY <1>1, <1>r, <1>t DEF ValorYSolicitantes, PosteNulo
  <1>2. ASSUME NEW k \in DOMAIN lista_semaforos, PosteSuma(k, n, id)
        PROVE  /\ lista_semaforos' \in Seq(Semaforo) /\ ValorYSolicitantes'
               /\ estado' \in [Procesos -> {"corre", "bloqueado", "fuera"}]
               /\ tiene' \in [Procesos -> SUBSET Nombres]
               /\ caido' \in {"no", "traer_proceso_bloqueado", "puntero_nulo"}
    <2>1. lista_semaforos[k].value \in Int
      BY TiposDeListas
    <2>2. <<>> \in Seq(Procesos) /\ Len(<<>>) = 0
      BY EmptySeq
    <2>3. /\ lista_semaforos[k].value + 1 \in Int
          /\ Len(<<>>) = IF lista_semaforos[k].value + 1 < 0
                         THEN -(lista_semaforos[k].value + 1) ELSE 0
      BY <1>2, <2>1, <2>2 DEF PosteSuma
    <2>4. lista_semaforos' \in Seq(Semaforo) /\ ValorYSolicitantes'
      <3>1. lista_semaforos' = [lista_semaforos EXCEPT
              ![k].value = lista_semaforos[k].value + 1,
              ![k].solicitantes = <<>>]
        BY <1>2 DEF PosteSuma
      <3> QED
        BY <2>2, <2>3, <3>1, CambiaSemaforo
    <2> QED
      BY <1>2, <1>t, <2>4 DEF PosteSuma
  <1>3. ASSUME NEW k \in DOMAIN lista_semaforos, NEW q \in Procesos,
               PosteEntrega(k, n, id, q)
        PROVE  /\ lista_semaforos' \in Seq(Semaforo) /\ ValorYSolicitantes'
               /\ estado' \in [Procesos -> {"corre", "bloqueado", "fuera"}]
               /\ tiene' \in [Procesos -> SUBSET Nombres]
               /\ caido' \in {"no", "traer_proceso_bloqueado", "puntero_nulo"}
    <2>1. /\ lista_semaforos[k].value \in Int
          /\ lista_semaforos[k].solicitantes \in Seq(Procesos)
      BY TiposDeListas
    <2>2. /\ Tail(lista_semaforos[k].solicitantes) \in Seq(Procesos)
          /\ Len(Tail(lista_semaforos[k].solicitantes))
               = Len(lista_semaforos[k].solicitantes) - 1
      BY <1>3, <2>1, HeadTailProperties DEF PosteEntrega
    <2>3. Len(lista_semaforos[k].solicitantes) = -lista_semaforos[k].value
      BY <1>3 DEF ValorYSolicitantes, PosteEntrega
    <2>4. /\ lista_semaforos[k].value + 1 \in Int
          /\ Len(Tail(lista_semaforos[k].solicitantes))
               = IF lista_semaforos[k].value + 1 < 0
                 THEN -(lista_semaforos[k].value + 1) ELSE 0
      BY <1>3, <2>1, <2>2, <2>3 DEF PosteEntrega
    <2>5. lista_semaforos' \in Seq(Semaforo) /\ ValorYSolicitantes'
      <3>1. lista_semaforos' = [lista_semaforos EXCEPT
              ![k].value = lista_semaforos[k].value + 1,
              ![k].solicitantes = Tail(lista_semaforos[k].solicitantes)]
        BY <1>3 DEF PosteEntrega
      <3> QED
        BY <2>2, <2>4, <3>1, CambiaSemaforo
    <2>6. estado' \in [Procesos -> {"corre", "bloqueado", "fuera"}]
      BY <1>3, <1>t DEF PosteEntrega
    <2>7. tiene' \in [Procesos -> SUBSET Nombres]
      BY <1>3, <1>t DEF PosteEntrega
    <2> QED
      BY <1>3, <1>t, <2>5, <2>6, <2>7 DEF PosteEntrega
  <1> QED
    <2>1. \/ PosteNulo(n)
          \/ \E k \in DOMAIN lista_semaforos :
               \/ PosteSuma(k, n, id)
               \/ \E q \in Procesos : PosteEntrega(k, n, id, q)
      BY PosteaEfecto
    <2> QED
      BY <1>1, <1>2, <1>3, <1>r, <2>1
-----------------------------------------------------------------------------
(* The conjuncts of the invariant, one by one *)

LEMMA InvInicial == Init => IInv
  <1> SUFFICES ASSUME Init PROVE IInv
    OBVIOUS
  <1> USE DEF Init
  <1>1. /\ escenario \in Escenarios /\ escenario.valor \in Nat
        /\ escenario.creados \in Seq(Nombres)
    BY ConstantesOK
  <1>2. /\ Len(escenario.creados) \in Nat
        /\ DOMAIN escenario.creados = 1..Len(escenario.creados)
        /\ \A k \in DOMAIN escenario.creados : escenario.creados[k] \in Nombres
    BY <1>1, LenProperties, ElementOfSeq
  <1>3. \A k \in DOMAIN escenario.creados :
          SemaforoNuevo(escenario.creados[k], escenario.valor) \in Semaforo
    BY <1>1, <1>2 DEF SemaforoNuevo, Semaforo
  <1>4. lista_semaforos \in Seq(Semaforo)
    BY <1>2, <1>3
  <1>5. TypeOK
    BY <1>4 DEF TypeOK, Ninguna, Quieta, Hilos
  <1>6. \A k \in DOMAIN lista_semaforos :
          /\ lista_semaforos[k].value = escenario.valor
          /\ lista_semaforos[k].solicitantes = <<>>
    BY DEF SemaforoNuevo
  <1>7. ValorYSolicitantes
    <2>1. Len(<<>>) = 0 /\ ~(escenario.valor < 0)
      BY <1>1, EmptySeq
    <2> QED
      BY <1>6, <2>1 DEF ValorYSolicitantes
  <1>8. ASSUME NEW p \in Procesos PROVE UnLugar(p) /\ ~EnAlguna(p)
    <2>1. DOMAIN <<>> = {}
      OBVIOUS
    <2>2. \A k, i \in Nat : ~Esta(p, k, i)
      BY <1>6, <2>1 DEF Esta
    <2> QED
      BY <2>2 DEF UnLugar, EnAlguna
  <1>9. ColasExactas /\ TareasYEstados /\ SalidaEnCurso
    BY <1>8 DEF ColasExactas, TareasYEstados, SalidaEnCurso, Quieta
  <1> QED
    BY <1>1, <1>5, <1>7, <1>9 DEF IInv

\* The types, and the agreement of value and queue.
LEMMA TipoInductivo ==
  IInv /\ [Next]_vars => TypeOK' /\ ValorYSolicitantes'
  <1> SUFFICES ASSUME IInv, [Next]_vars PROVE TypeOK' /\ ValorYSolicitantes'
    OBVIOUS
  <1>t. TypeOK /\ ValorYSolicitantes /\ escenario \in Escenarios
    BY DEF IInv
  <1>e. escenario' = escenario
    BY DEF Next, vars
  <1>c. escenario.operaciones \subseteq {"init", "wait", "post", "destroy"}
        /\ escenario.valor \in Nat
    BY <1>t, ConstantesOK
  <1>v. ASSUME lista_semaforos' = lista_semaforos PROVE ValorYSolicitantes'
    BY <1>t, <1>v DEF ValorYSolicitantes
  <1> DEFINE DeTareas == {Ninguna} \cup Tareas
                \cup [op : {"agrega"}, nombre : Nombres, value : Nat]
  <1>k. DeTareas' = DeTareas /\ Ninguna \in DeTareas
    BY <1>e DEF Tareas
  <1>1. ASSUME NEW p \in Procesos, NEW t \in Tareas, TomaTarea(p, t)
        PROVE  TypeOK' /\ ValorYSolicitantes'
    <2>1. tarea' \in [Procesos -> DeTareas]
      BY <1>1, <1>t DEF TomaTarea, TypeOK
    <2> QED
      BY <1>1, <1>t, <1>v, <1>k, <2>1 DEF TomaTarea, TypeOK, listas, mutexes
  <1>2. ASSUME NEW p \in Procesos, IniciaConsulta(p)
        PROVE  TypeOK' /\ ValorYSolicitantes'
    <2>1. tarea[p] \in [op : {"init", "agrega"}, nombre : Nombres, value : Nat]
      BY <1>2, <1>t, TiposDeTarea DEF IniciaConsulta
    <2>2. [tarea[p] EXCEPT !.op = "agrega"]
            \in [op : {"agrega"}, nombre : Nombres, value : Nat]
      BY <2>1
    <2>3. tarea' \in [Procesos -> DeTareas]
      BY <1>2, <1>t, <2>2 DEF IniciaConsulta, TypeOK
    <2> QED
      BY <1>2, <1>t, <1>v, <1>k, <2>3
      DEF IniciaConsulta, TypeOK, listas, mutexes
  <1>3. ASSUME NEW p \in Procesos, IniciaAgrega(p)
        PROVE  TypeOK' /\ ValorYSolicitantes'
    <2>1. tarea[p] \in [op : {"init", "agrega"}, nombre : Nombres, value : Nat]
      BY <1>3, <1>t, TiposDeTarea DEF IniciaAgrega
    <2>2. /\ tarea[p].nombre \in Nombres /\ tarea[p].value \in Nat
          /\ lista_semaforos' = Append(lista_semaforos,
                SemaforoNuevo(tarea[p].nombre, tarea[p].value))
      BY <1>3, <2>1 DEF IniciaAgrega
    <2>3. lista_semaforos' \in Seq(Semaforo) /\ ValorYSolicitantes'
      BY <1>t, <2>2, AgregaSemaforo
    <2>4. tarea' \in [Procesos -> DeTareas]
      BY <1>3, <1>t DEF IniciaAgrega, TypeOK
    <2> QED
      BY <1>3, <1>t, <1>k, <2>3, <2>4 DEF IniciaAgrega, TypeOK, mutexes
  <1>4. ASSUME NEW p \in Procesos, TomaMutexSemaforos(p) \/ TomaMutexRecursos(p)
        PROVE  TypeOK' /\ ValorYSolicitantes'
    BY <1>4, <1>t, <1>v, <1>k
    DEF TomaMutexSemaforos, TomaMutexRecursos, TypeOK, listas, Hilos
  <1>5. ASSUME NEW p \in Procesos, NEW op \in {"wait", "post", "destroy"},
               EnSeccion(p, op)
        PROVE  /\ tarea[p].nombre \in Nombres
               /\ tarea' \in [Procesos -> DeTareas]
               /\ mutex_semaforos' \in Hilos
               /\ mutex_recursos_asignados' \in Hilos
               /\ salida' = salida
    <2>1. tarea[p].nombre \in Nombres
      BY <1>5, <1>t, TiposDeTarea DEF EnSeccion
    <2> QED
      BY <1>5, <1>t, <2>1 DEF EnSeccion, TypeOK, Hilos
  <1>6. ASSUME NEW p \in Procesos, Solicita(p)
        PROVE  TypeOK' /\ ValorYSolicitantes'
    <2>1. /\ tarea[p].nombre \in Nombres
          /\ tarea' \in [Procesos -> DeTareas]
          /\ mutex_semaforos' \in Hilos
          /\ mutex_recursos_asignados' \in Hilos
          /\ salida' = salida /\ caido' = caido
      BY <1>5, <1>6 DEF Solicita
    <2> SUFFICES
          /\ lista_semaforos' \in Seq(Semaforo) /\ ValorYSolicitantes'
          /\ lista_recursos_asignados' \in Seq(Recurso)
          /\ estado' \in [Procesos -> {"corre", "bloqueado", "fuera"}]
          /\ tiene' \in [Procesos -> SUBSET Nombres]
          /\ sin_semaforo' \subseteq Procesos
      BY <1>t, <1>k, <2>1 DEF TypeOK
    <2>b. Bloqueado(p) \in [Procesos -> {"corre", "bloqueado", "fuera"}]
      BY <1>t DEF Bloqueado, TypeOK
    <2>2. PICK k \in Indices :
       LET n == tarea[p].nombre IN
       /\ EsIndice(k, n)
       /\ \/ /\ k = 0
             /\ estado' = Bloqueado(p)
             /\ sin_semaforo' = sin_semaforo \cup {p}
             /\ UNCHANGED <<listas, tiene>>
          \/ /\ k # 0 /\ lista_semaforos[k].value > 0
             /\ lista_semaforos' = [lista_semaforos EXCEPT ![k].value = @ - 1]
             /\ lista_recursos_asignados' =
                  Append(lista_recursos_asignados, Asignado(n, p))
             /\ tiene' = [tiene EXCEPT ![p] = @ \cup {n}]
             /\ UNCHANGED <<estado, sin_semaforo>>
          \/ /\ k # 0 /\ lista_semaforos[k].value <= 0
             /\ lista_semaforos' = [lista_semaforos EXCEPT
                  ![k].value = @ - 1, ![k].solicitantes = Append(@, p)]
             /\ estado' = Bloqueado(p)
             /\ UNCHANGED <<lista_recursos_asignados, tiene, sin_semaforo>>
      BY <1>6 DEF Solicita
    <2>3. CASE k = 0
      BY <1>t, <1>v, <2>2, <2>3, <2>b DEF TypeOK, listas
    <2>4. CASE k # 0
      <3>1. k \in DOMAIN lista_semaforos
        BY <1>t, <2>4, LenProperties DEF TypeOK, Indices
      <3>2. /\ lista_semaforos[k].value \in Int
            /\ lista_semaforos[k].solicitantes \in Seq(Procesos)
            /\ Len(lista_semaforos[k].solicitantes) \in Nat
            /\ lista_semaforos[k] \in Semaforo
        BY <1>t, <3>1, TiposDeListas
      <3>3. Len(lista_semaforos[k].solicitantes) =
              IF lista_semaforos[k].value < 0 THEN -lista_semaforos[k].value
              ELSE 0
        BY <1>t, <3>1 DEF ValorYSolicitantes
      <3>4. CASE lista_semaforos[k].value > 0
        <4>1. lista_semaforos' = [lista_semaforos EXCEPT
                ![k].value = lista_semaforos[k].value - 1,
                ![k].solicitantes = lista_semaforos[k].solicitantes]
          <5>1. lista_semaforos' = [lista_semaforos EXCEPT
                                      ![k].value = lista_semaforos[k].value - 1]
            BY <2>2, <2>4, <3>2, <3>4
          <5>2. lista_semaforos'[k].solicitantes
                  = lista_semaforos[k].solicitantes
            BY <3>1, <3>2, <5>1 DEF Semaforo
          <5> QED
            BY <3>1, <5>1, <5>2
        <4>2. lista_semaforos' \in Seq(Semaforo) /\ ValorYSolicitantes'
          <5>1. /\ lista_semaforos[k].value - 1 \in Int
                /\ Len(lista_semaforos[k].solicitantes)
                     = IF lista_semaforos[k].value - 1 < 0
                       THEN -(lista_semaforos[k].value - 1) ELSE 0
            BY <3>2, <3>3, <3>4
          <5> QED
            BY <1>t, <3>1, <3>2, <4>1, <5>1, CambiaSemaforo
        <4>3. Asignado(tarea[p].nombre, p) \in Recurso
          BY <2>1 DEF Asignado, Recurso
        <4>4. lista_recursos_asignados' \in Seq(Recurso)
          <5>1. lista_recursos_asignados' =
                  Append(lista_recursos_asignados, Asignado(tarea[p].nombre, p))
            BY <2>2, <2>4, <3>2, <3>4
          <5> QED
            BY <1>t, <4>3, <5>1 DEF TypeOK
        <4>5. /\ tiene' = [tiene EXCEPT ![p] = @ \cup {tarea[p].nombre}]
              /\ UNCHANGED <<estado, sin_semaforo>>
          BY <2>2, <2>4, <3>2, <3>4
        <4> QED
          BY <1>t, <2>1, <4>2, <4>4, <4>5 DEF TypeOK
      <3>5. CASE lista_semaforos[k].value <= 0
        <4>1. /\ lista_semaforos' = [lista_semaforos EXCEPT
                  ![k].value = lista_semaforos[k].value - 1,
                  ![k].solicitantes =
                    Append(lista_semaforos[k].solicitantes, p)]
              /\ estado' = Bloqueado(p)
              /\ UNCHANGED <<lista_recursos_asignados, tiene, sin_semaforo>>
          BY <2>2, <2>4, <3>1, <3>2, <3>5
        <4>2. /\ Append(lista_semaforos[k].solicitantes, p) \in Seq(Procesos)
              /\ Len(Append(lista_semaforos[k].solicitantes, p))
                   = Len(lista_semaforos[k].solicitantes) + 1
          BY <3>2
        <4>3. /\ lista_semaforos[k].value - 1 \in Int
              /\ Len(Append(lista_semaforos[k].solicitantes, p))
                   = IF lista_semaforos[k].value - 1 < 0
                     THEN -(lista_semaforos[k].value - 1) ELSE 0
          BY <3>2, <3>3, <3>5, <4>2
        <4>4. lista_semaforos' \in Seq(Semaforo) /\ ValorYSolicitantes'
          BY <1>t, <3>1, <4>1, <4>2, <4>3, CambiaSemaforo
        <4> QED
          BY <1>t, <2>b, <4>1, <4>4 DEF TypeOK
      <3>6. lista_semaforos[k].value > 0 \/ lista_semaforos[k].value <= 0
        BY <3>2
      <3> QED
        BY <3>4, <3>5, <3>6, Zenon
    <2> QED
      BY <2>3, <2>4, Zenon
  <1>7. ASSUME NEW p \in Procesos, Postea(p)
        PROVE  TypeOK' /\ ValorYSolicitantes'
    <2>1. /\ tarea[p].nombre \in Nombres
          /\ tarea' \in [Procesos -> DeTareas]
          /\ mutex_semaforos' \in Hilos
          /\ mutex_recursos_asignados' \in Hilos
          /\ salida' = salida /\ sin_semaforo' = sin_semaforo
      BY <1>5, <1>7 DEF Postea
    <2>2. /\ Postear(lista_recursos_asignados, tarea[p].nombre, Colgado, p)
          /\ lista_recursos_asignados \in Seq(Recurso)
          /\ tarea[p].nombre \in Nombres \cup {Colgado}
          /\ Colgado \in Nombres \cup {Colgado}
      BY <1>7, <1>t, <2>1 DEF Postea, TypeOK
    <2>3. /\ lista_recursos_asignados' \in Seq(Recurso)
          /\ lista_semaforos' \in Seq(Semaforo) /\ ValorYSolicitantes'
          /\ estado' \in [Procesos -> {"corre", "bloqueado", "fuera"}]
          /\ tiene' \in [Procesos -> SUBSET Nombres]
          /\ caido' \in {"no", "traer_proceso_bloqueado", "puntero_nulo"}
      BY <1>t, <2>2, PosteaTipa
    <2> QED
      BY <1>t, <1>k, <2>1, <2>3 DEF TypeOK
  <1>8. ASSUME NEW p \in Procesos, Destruye(p)
        PROVE  TypeOK' /\ ValorYSolicitantes'
    <2>1. /\ tarea[p].nombre \in Nombres
          /\ tarea' \in [Procesos -> DeTareas]
          /\ mutex_semaforos' \in Hilos
          /\ mutex_recursos_asignados' \in Hilos
          /\ salida' = salida /\ sin_semaforo' = sin_semaforo
      BY <1>5, <1>8 DEF Destruye
    <2>2. CASE /\ UNCHANGED <<listas, estado, tiene>>
               /\ caido' \in {"puntero_nulo", "traer_proceso_bloqueado"}
      BY <1>t, <1>k, <1>v, <2>1, <2>2 DEF TypeOK, listas
    <2>3. ASSUME NEW k \in Indices, k # 0,
                 lista_semaforos' = RemoveAt(lista_semaforos, k),
                 NEW borrados \in SUBSET DOMAIN lista_recursos_asignados,
                 lista_recursos_asignados' =
                   Quedan(lista_recursos_asignados,
                          DOMAIN lista_recursos_asignados \ borrados),
                 estado' = [q \in Procesos |-> IF q \in EnCola(k) THEN "corre"
                                               ELSE estado[q]],
                 tiene' = [q \in Procesos |-> tiene[q] \ {tarea[p].nombre}],
                 UNCHANGED caido
          PROVE  TypeOK' /\ ValorYSolicitantes'
      <3>1. k \in DOMAIN lista_semaforos
        BY <1>t, <2>3, LenProperties DEF TypeOK, Indices
      <3>2. lista_semaforos' \in Seq(Semaforo) /\ ValorYSolicitantes'
        BY <1>t, <2>3, <3>1, QuitaSemaforo
      <3>3. lista_recursos_asignados' \in Seq(Recurso)
        BY <1>t, <2>3, QuedanBien DEF TypeOK
      <3> QED
        BY <1>t, <1>k, <2>1, <2>3, <3>2, <3>3 DEF TypeOK
    <2> QED
      BY <1>8, <2>2, <2>3 DEF Destruye
  <1>9. CASE SalidaTomaRecursos
    BY <1>9, <1>t, <1>k, <1>v
    DEF SalidaTomaRecursos, TypeOK, listas, Hilos
  <1>10. ASSUME NEW p \in Procesos, SalidaTomaSemaforos(p)
         PROVE  TypeOK' /\ ValorYSolicitantes'
    BY <1>10, <1>t, <1>k, <1>v
    DEF SalidaTomaSemaforos, TypeOK, listas, Hilos
  <1>11. CASE SalidaSolicitud
    <2>1. salida \in [pc : {"solicitudes"}, id : Procesos, index : Nat,
                      index2 : Nat]
      BY <1>11, <1>t, TiposDeSalida DEF SalidaSolicitud
    <2>2. salida.index >= 1 /\ salida.index2 >= 1
      BY <1>11 DEF IInv, SalidaEnCurso, SalidaSolicitud
    <2>3. salida' \in [pc : {"solicitudes"}, id : Procesos, index : Nat,
                       index2 : Nat]
                     \cup [pc : {"recursos"}, id : Procesos, index : Nat]
      BY <1>11, <2>1 DEF SalidaSolicitud
    <2>4. lista_semaforos' \in Seq(Semaforo) /\ ValorYSolicitantes'
      <3>1. CASE lista_semaforos' = lista_semaforos
        BY <1>t, <1>v, <3>1 DEF TypeOK
      <3>2. CASE /\ salida.index <= Len(lista_semaforos)
                 /\ salida.index2 <=
                      Len(lista_semaforos[salida.index].solicitantes)
                 /\ lista_semaforos' = SinSolicitud(salida.index, salida.index2)
        <4> DEFINE k == salida.index
                   c == lista_semaforos[k].solicitantes
                   v == lista_semaforos[k].value
                   d == RemoveAt(c, salida.index2)
        <4>1. k \in DOMAIN lista_semaforos
          BY <1>t, <2>1, <2>2, <3>2, LenProperties DEF TypeOK
        <4>2. /\ v \in Int /\ c \in Seq(Procesos) /\ Len(c) \in Nat
              /\ DOMAIN c = 1..Len(c)
          BY <1>t, <4>1, TiposDeListas
        <4>3. salida.index2 \in DOMAIN c
          BY <2>1, <2>2, <3>2, <4>2
        <4>4. d \in Seq(Procesos) /\ Len(d) = Len(c) - 1
          BY <4>2, <4>3, QuitarUno
        <4>5. Len(c) = IF v < 0 THEN -v ELSE 0
          BY <1>t, <4>1 DEF ValorYSolicitantes
        <4>6. v + 1 \in Int /\ Len(d) = IF v + 1 < 0 THEN -(v + 1) ELSE 0
          <5>1. Len(c) >= 1
            BY <2>1, <2>2, <3>2, <4>2
          <5> HIDE DEF c, d, v
          <5> QED
            BY <4>2, <4>4, <4>5, <5>1
        <4>7. lista_semaforos' = [lista_semaforos EXCEPT
                ![k].value = v + 1, ![k].solicitantes = d]
          BY <3>2, <4>1 DEF SinSolicitud
        <4> HIDE DEF k, c, v, d
        <4> QED
          BY <1>t, <4>1, <4>4, <4>6, <4>7, CambiaSemaforo
      <3> QED
        BY <1>11, <3>1, <3>2 DEF SalidaSolicitud
    <2> QED
      BY <1>11, <1>t, <1>k, <2>3, <2>4 DEF SalidaSolicitud, TypeOK, mutexes
  <1>12. CASE SalidaRecurso
    <2>1. salida \in [pc : {"recursos"}, id : Procesos, index : Nat]
      BY <1>12, <1>t, TiposDeSalida DEF SalidaRecurso
    <2>2. salida.index >= 1
      BY <1>12 DEF IInv, SalidaEnCurso, SalidaRecurso
    <2>3. CASE UNCHANGED <<listas, estado, caido, tiene>>
      <3>1. /\ salida' \in {Quieta}
                          \cup [pc : {"recursos"}, id : Procesos, index : Nat]
            /\ mutex_semaforos' \in Hilos
            /\ mutex_recursos_asignados' \in Hilos
        BY <1>12, <1>t, <2>1 DEF SalidaRecurso, TypeOK, Hilos, mutexes
      <3> QED
        BY <1>12, <1>t, <1>k, <1>v, <2>3, <3>1
        DEF SalidaRecurso, TypeOK, listas
    <2>4. ASSUME salida.index <= Len(lista_recursos_asignados),
                 NEW n \in Nombres \cup {Colgado},
                 Postear(RemoveAt(lista_recursos_asignados, salida.index), n,
                   lista_recursos_asignados[salida.index].nombre_recurso,
                   salida.id),
                 salida' = [salida EXCEPT !.index = @ + 1],
                 UNCHANGED mutexes
          PROVE  TypeOK' /\ ValorYSolicitantes'
      <3>1. /\ lista_recursos_asignados \in Seq(Recurso)
            /\ salida.index \in DOMAIN lista_recursos_asignados
        BY <1>t, <2>1, <2>2, <2>4, LenProperties DEF TypeOK
      <3>2. /\ RemoveAt(lista_recursos_asignados, salida.index) \in Seq(Recurso)
            /\ lista_recursos_asignados[salida.index] \in Recurso
        BY <3>1, QuitarUno
      <3>3. lista_recursos_asignados[salida.index].nombre_recurso
              \in Nombres \cup {Colgado}
        BY <3>2 DEF Recurso
      <3>4. salida.id \in Procesos
        BY <2>1
      <3>5. /\ lista_recursos_asignados' \in Seq(Recurso)
            /\ lista_semaforos' \in Seq(Semaforo) /\ ValorYSolicitantes'
            /\ estado' \in [Procesos -> {"corre", "bloqueado", "fuera"}]
            /\ tiene' \in [Procesos -> SUBSET Nombres]
            /\ caido' \in {"no", "traer_proceso_bloqueado", "puntero_nulo"}
        BY <1>t, <2>4, <3>2, <3>3, <3>4, PosteaTipa
      <3>6. salida' \in [pc : {"recursos"}, id : Procesos, index : Nat]
        BY <2>1, <2>4
      <3> QED
        BY <1>12, <1>t, <1>k, <2>4, <3>5, <3>6
        DEF SalidaRecurso, TypeOK, mutexes
    <2> QED
      BY <1>12, <2>3, <2>4 DEF SalidaRecurso
  <1>13. CASE UNCHANGED vars
    BY <1>13, <1>t, <1>k, <1>v DEF vars, cambian, listas, mutexes, TypeOK
  <1> QED
    BY <1>1, <1>2, <1>3, <1>4, <1>6, <1>7, <1>8, <1>9, <1>10, <1>11, <1>12,
       <1>13
    DEF Next, Paso, Ejecuta
-----------------------------------------------------------------------------
(* The places in the queues, before and after each change of a queue *)

\* The queues as they were, with or without a new one that is empty.
LEMMA MismasColas ==
  ASSUME NEW x,
         \A m \in DOMAIN lista_semaforos :
           /\ m \in DOMAIN lista_semaforos'
           /\ lista_semaforos'[m].solicitantes
                = lista_semaforos[m].solicitantes,
         \A m \in DOMAIN lista_semaforos' \ DOMAIN lista_semaforos :
           lista_semaforos'[m].solicitantes = <<>>
  PROVE  /\ UnLugar(x)' <=> UnLugar(x)
         /\ EnAlguna(x)' <=> EnAlguna(x)
  <1>1. DOMAIN <<>> = {}
    OBVIOUS
  <1>2. \A m, j : Esta(x, m, j)' <=> Esta(x, m, j)
    BY <1>1 DEF Esta
  <1> QED
    BY <1>2 DEF UnLugar, EnAlguna

\* One more at the end of a queue.
LEMMA SumaACola ==
  ASSUME TypeOK, NEW k \in DOMAIN lista_semaforos, NEW p \in Procesos,
         DOMAIN lista_semaforos' = DOMAIN lista_semaforos,
         \A m \in DOMAIN lista_semaforos :
           lista_semaforos'[m].solicitantes =
             IF m = k THEN Append(lista_semaforos[k].solicitantes, p)
             ELSE lista_semaforos[m].solicitantes,
         NEW x
  PROVE  /\ x # p => /\ UnLugar(x)' <=> UnLugar(x)
                     /\ EnAlguna(x)' <=> EnAlguna(x)
         /\ x = p /\ ~EnAlguna(x) => UnLugar(x)' /\ EnAlguna(x)'
  <1> DEFINE c == lista_semaforos[k].solicitantes
             d == Append(c, p)
             L == Len(c)
  <1>1. /\ k \in Nat /\ c \in Seq(Procesos) /\ L \in Nat /\ DOMAIN c = 1..L
    BY TiposDeListas
  <1>2. /\ DOMAIN d = 1..(L + 1) /\ d[L + 1] = p
        /\ \A j \in 1..L : d[j] = c[j]
    BY <1>1
  <1> HIDE DEF c, d, L
  <1>3. \A m, j : Esta(x, m, j)' <=>
          \/ Esta(x, m, j)
          \/ m = k /\ j = L + 1 /\ x = p
    <2> TAKE m, j
    <2>1. CASE m # k
      BY <2>1 DEF Esta
    <2>2. CASE m = k
      <3>1. Esta(x, m, j)' <=> j \in 1..(L + 1) /\ d[j] = x
        BY <1>2, <2>2 DEF Esta, c, d
      <3>2. Esta(x, m, j) <=> j \in 1..L /\ c[j] = x
        BY <1>1, <2>2 DEF Esta, c
      <3>3. j \in 1..(L + 1) <=> j \in 1..L \/ j = L + 1
        BY <1>1
      <3>4. ~(L + 1 \in 1..L)
        BY <1>1
      <3> QED
        BY <1>2, <2>2, <3>1, <3>2, <3>3, <3>4
    <2> QED
      BY <2>1, <2>2
  <1>4. CASE x # p
    BY <1>3, <1>4 DEF UnLugar, EnAlguna
  <1>5. CASE x = p /\ ~EnAlguna(x)
    <2>1. \A m, j \in Nat : ~Esta(x, m, j)
      BY <1>5 DEF EnAlguna
    <2>2. \A m, j \in Nat : Esta(x, m, j)' <=> m = k /\ j = L + 1
      BY <1>3, <1>5, <2>1
    <2>3. k \in Nat /\ L + 1 \in Nat
      BY <1>1
    <2> QED
      BY <1>5, <2>2, <2>3 DEF UnLugar, EnAlguna
  <1> QED
    BY <1>4, <1>5

\* One less in a queue, in any place: those behind it move up.
LEMMA QuitaDeCola ==
  ASSUME TypeOK, NEW k \in DOMAIN lista_semaforos,
         NEW i \in DOMAIN lista_semaforos[k].solicitantes,
         NEW d \in Seq(Procesos),
         Len(d) = Len(lista_semaforos[k].solicitantes) - 1,
         \A j \in 1..Len(d) :
           d[j] = IF j < i THEN lista_semaforos[k].solicitantes[j]
                  ELSE lista_semaforos[k].solicitantes[j + 1],
         DOMAIN lista_semaforos' = DOMAIN lista_semaforos,
         \A m \in DOMAIN lista_semaforos :
           lista_semaforos'[m].solicitantes =
             IF m = k THEN d ELSE lista_semaforos[m].solicitantes,
         NEW x
  PROVE  /\ UnLugar(x) => UnLugar(x)'
         /\ x # lista_semaforos[k].solicitantes[i] =>
              (EnAlguna(x)' <=> EnAlguna(x))
         /\ x = lista_semaforos[k].solicitantes[i] /\ UnLugar(x) =>
              ~EnAlguna(x)'
  <1> DEFINE c == lista_semaforos[k].solicitantes
             G(m, j) == IF m = k /\ j >= i THEN j + 1 ELSE j
  <1>1. /\ k \in Nat /\ Len(c) \in Nat /\ DOMAIN c = 1..Len(c)
        /\ DOMAIN d = 1..Len(d) /\ i \in 1..Len(c) /\ i \in Nat
    BY TiposDeListas
  <1>2. \A m, j \in Nat : Esta(x, m, j)' <=> Esta(x, m, G(m, j))
    <2> TAKE m, j \in Nat
    <2>1. CASE m # k
      BY <2>1 DEF Esta
    <2>2. CASE m = k
      <3>1. Esta(x, m, j)' <=> j \in 1..Len(d) /\ d[j] = x
        BY <1>1, <2>2 DEF Esta
      <3>2. Esta(x, m, G(m, j)) <=> /\ G(m, j) \in 1..Len(c)
                                    /\ c[G(m, j)] = x
        BY <1>1, <2>2 DEF Esta
      <3>3. /\ j \in 1..Len(d) <=> G(m, j) \in 1..Len(c)
            /\ j \in 1..Len(d) => d[j] = c[G(m, j)]
        <4> HIDE DEF c
        <4>1. Len(d) = Len(c) - 1 /\ \A n \in 1..Len(d) :
                d[n] = IF n < i THEN c[n] ELSE c[n + 1]
          BY DEF c
        <4>2. CASE j < i
          <5>1. G(m, j) = j
            BY <1>1, <2>2, <4>2
          <5>2. j \in 1..Len(d) <=> j \in 1..Len(c)
            BY <1>1, <4>1, <4>2
          <5>3. j \in 1..Len(d) => d[j] = c[j]
            BY <4>1, <4>2
          <5> QED
            BY <5>1, <5>2, <5>3
        <4>3. CASE j >= i
          <5>1. G(m, j) = j + 1
            BY <1>1, <2>2, <4>3
          <5>2. j \in 1..Len(d) <=> j + 1 \in 1..Len(c)
            BY <1>1, <4>1, <4>3
          <5>3. j \in 1..Len(d) => d[j] = c[j + 1]
            BY <1>1, <4>1, <4>3
          <5> QED
            BY <5>1, <5>2, <5>3
        <4>4. j < i \/ j >= i
          BY <1>1
        <4> QED
          BY <4>2, <4>3, <4>4
      <3> QED
        BY <3>1, <3>2, <3>3, Zenon
    <2> QED
      BY <2>1, <2>2
  <1>3. \A m, j \in Nat : G(m, j) \in Nat
    BY <1>1
  <1>4. \A m, j, n \in Nat : G(m, j) = G(m, n) => j = n
    BY <1>1
  <1>5. \A m, j \in Nat : ~(m = k /\ j = i) =>
          \E n \in Nat : G(m, n) = j
    <2> TAKE m, j \in Nat
    <2> HAVE ~(m = k /\ j = i)
    <2>1. CASE m = k /\ j > i
      <3>1. j - 1 \in Nat /\ G(m, j - 1) = j
        BY <1>1, <2>1
      <3> QED
        BY <3>1
    <2>2. CASE ~(m = k /\ j > i)
      <3>1. G(m, j) = j
        BY <1>1, <2>2
      <3> QED
        BY <3>1
    <2> QED
      BY <2>1, <2>2
  <1>6. \A j \in Nat : G(k, j) # i
    BY <1>1
  <1> HIDE DEF G
  <1>7. UnLugar(x) => UnLugar(x)'
    <2> SUFFICES ASSUME UnLugar(x), NEW a \in Nat, NEW b \in Nat,
                        NEW m \in Nat, NEW j \in Nat,
                        Esta(x, a, b)', Esta(x, m, j)'
                 PROVE  a = m /\ b = j
      BY DEF UnLugar
    <2>1. Esta(x, a, G(a, b)) /\ Esta(x, m, G(m, j))
      BY <1>2
    <2>2. a = m /\ G(a, b) = G(m, j)
      BY <1>3, <2>1 DEF UnLugar
    <2> QED
      BY <1>4, <2>2
  <1>8. ASSUME x # c[i] PROVE EnAlguna(x)' <=> EnAlguna(x)
    <2>1. EnAlguna(x)' => EnAlguna(x)
      BY <1>2, <1>3 DEF EnAlguna
    <2>2. ASSUME NEW m \in Nat, NEW j \in Nat, Esta(x, m, j)
          PROVE  EnAlguna(x)'
      <3>1. ~(m = k /\ j = i)
        BY <1>8, <2>2 DEF Esta
      <3>2. PICK n \in Nat : G(m, n) = j
        BY <1>5, <3>1
      <3> QED
        BY <1>2, <2>2, <3>2 DEF EnAlguna
    <2> QED
      BY <2>1, <2>2 DEF EnAlguna
  <1>9. ASSUME x = c[i], UnLugar(x) PROVE ~EnAlguna(x)'
    <2>1. Esta(x, k, i)
      BY <1>1, <1>9 DEF Esta
    <2>2. ASSUME NEW m \in Nat, NEW j \in Nat, Esta(x, m, j)'
          PROVE  FALSE
      <3>1. m = k /\ G(m, j) = i
        BY <1>1, <1>2, <1>3, <1>9, <2>1, <2>2 DEF UnLugar
      <3> QED
        BY <1>6, <3>1
    <2> QED
      BY <2>2 DEF EnAlguna
  <1> QED
    BY <1>7, <1>8, <1>9

\* A queue that goes away with its semaphore.
LEMMA QuitaCola ==
  ASSUME TypeOK, NEW k \in DOMAIN lista_semaforos,
         DOMAIN lista_semaforos' = 1..(Len(lista_semaforos) - 1),
         \A m \in 1..(Len(lista_semaforos) - 1) :
           lista_semaforos'[m] = IF m < k THEN lista_semaforos[m]
                                 ELSE lista_semaforos[m + 1],
         NEW x
  PROVE  /\ UnLugar(x) => UnLugar(x)'
         /\ x \notin EnCola(k) => (EnAlguna(x)' <=> EnAlguna(x))
         /\ x \in EnCola(k) /\ UnLugar(x) => ~EnAlguna(x)'
  <1> DEFINE F(m) == IF m >= k THEN m + 1 ELSE m
  <1>1. /\ k \in Nat /\ Len(lista_semaforos) \in Nat
        /\ DOMAIN lista_semaforos = 1..Len(lista_semaforos)
        /\ k \in 1..Len(lista_semaforos)
    <2>1. lista_semaforos \in Seq(Semaforo)
      BY DEF TypeOK
    <2> QED
      BY <2>1, LenProperties
  <1>2. \A m, j \in Nat : Esta(x, m, j)' <=> Esta(x, F(m), j)
    <2> TAKE m, j \in Nat
    <2>1. /\ m \in DOMAIN lista_semaforos' <=> F(m) \in DOMAIN lista_semaforos
          /\ m \in DOMAIN lista_semaforos' =>
               lista_semaforos'[m] = lista_semaforos[F(m)]
      BY <1>1
    <2> HIDE DEF F
    <2> QED
      BY <2>1 DEF Esta
  <1>3. /\ \A m \in Nat : F(m) \in Nat /\ F(m) # k
        /\ \A m, n \in Nat : F(m) = F(n) => m = n
    BY <1>1
  <1>4. \A m \in Nat \ {k} : \E n \in Nat : F(n) = m
    <2> TAKE m \in Nat \ {k}
    <2>1. CASE m > k
      <3>1. m - 1 \in Nat /\ F(m - 1) = m
        BY <1>1, <2>1
      <3> QED
        BY <3>1
    <2>2. CASE m < k
      <3>1. F(m) = m
        BY <1>1, <2>2
      <3> QED
        BY <3>1
    <2>3. m > k \/ m < k
      BY <1>1
    <2> QED
      BY <2>1, <2>2, <2>3
  <1> HIDE DEF F
  <1>5. x \in EnCola(k) <=> \E j \in Nat : Esta(x, k, j)
    <2>1. \A j \in DOMAIN lista_semaforos[k].solicitantes : j \in Nat
      BY TiposDeListas
    <2> QED
      BY <2>1 DEF Esta, EnCola
  <1>6. UnLugar(x) => UnLugar(x)'
    <2> SUFFICES ASSUME UnLugar(x), NEW a \in Nat, NEW b \in Nat,
                        NEW m \in Nat, NEW j \in Nat,
                        Esta(x, a, b)', Esta(x, m, j)'
                 PROVE  a = m /\ b = j
      BY DEF UnLugar
    <2>1. Esta(x, F(a), b) /\ Esta(x, F(m), j)
      BY <1>2
    <2>2. F(a) = F(m) /\ b = j
      BY <1>3, <2>1 DEF UnLugar
    <2> QED
      BY <1>3, <2>2
  <1>7. ASSUME x \notin EnCola(k) PROVE EnAlguna(x)' <=> EnAlguna(x)
    <2>1. EnAlguna(x)' => EnAlguna(x)
      BY <1>2, <1>3 DEF EnAlguna
    <2>2. ASSUME NEW m \in Nat, NEW j \in Nat, Esta(x, m, j)
          PROVE  EnAlguna(x)'
      <3>1. m # k
        BY <1>5, <1>7, <2>2
      <3>2. PICK n \in Nat : F(n) = m
        BY <1>4, <3>1
      <3> QED
        BY <1>2, <2>2, <3>2 DEF EnAlguna
    <2> QED
      BY <2>1, <2>2 DEF EnAlguna
  <1>8. ASSUME x \in EnCola(k), UnLugar(x) PROVE ~EnAlguna(x)'
    <2>1. PICK i \in Nat : Esta(x, k, i)
      BY <1>5, <1>8
    <2>2. ASSUME NEW m \in Nat, NEW j \in Nat, Esta(x, m, j)'
          PROVE  FALSE
      <3>1. Esta(x, F(m), j) /\ F(m) \in Nat /\ F(m) # k
        BY <1>2, <1>3, <2>2
      <3> QED
        BY <1>1, <1>8, <2>1, <3>1 DEF UnLugar
    <2> QED
      BY <2>2 DEF EnAlguna
  <1> QED
    BY <1>6, <1>7, <1>8

\* A post takes at most the first of a queue out, and wakes it up.
LEMMA PosteaColas ==
  ASSUME TypeOK, ValorYSolicitantes, ColasExactas, caido = "no",
         sin_semaforo' = sin_semaforo,
         NEW recursos \in Seq(Recurso), NEW n \in Nombres \cup {Colgado},
         NEW nombre \in Nombres \cup {Colgado}, NEW id \in Procesos,
         Postear(recursos, n, nombre, id)
  PROVE  /\ ColasExactas'
         /\ \A p \in Procesos : estado'[p] # estado[p] =>
              /\ estado[p] = "bloqueado" /\ estado'[p] = "corre"
              /\ p \notin sin_semaforo
  <1>t. estado \in [Procesos -> {"corre", "bloqueado", "fuera"}]
    BY DEF TypeOK
  <1>c. \A p \in Procesos : estado[p] # "fuera" =>
          /\ UnLugar(p)
          /\ EnAlguna(p) <=> (estado[p] = "bloqueado" /\ p \notin sin_semaforo)
    BY DEF ColasExactas
  <1>1. CASE PosteNulo(n)
    <2>1. UNCHANGED <<lista_semaforos, estado>>
      BY <1>1 DEF PosteNulo
    <2>2. \A p \in Procesos : /\ UnLugar(p)' <=> UnLugar(p)
                              /\ EnAlguna(p)' <=> EnAlguna(p)
      BY <2>1, MismasColas
    <2> QED
      BY <1>c, <2>1, <2>2 DEF ColasExactas
  <1>2. ASSUME NEW k \in DOMAIN lista_semaforos, PosteSuma(k, n, id)
        PROVE  ColasExactas' /\ estado' = estado
    <2> DEFINE v == lista_semaforos[k].value
    <2>1. v \in Int /\ v >= 0 /\ lista_semaforos[k].solicitantes = <<>>
      BY <1>2, TiposDeListas DEF PosteSuma
    <2>2. <<>> \in Seq(Procesos) /\ Len(<<>>) = 0
      BY EmptySeq
    <2>3. v + 1 \in Int /\ Len(<<>>) = IF v + 1 < 0 THEN -(v + 1) ELSE 0
      BY <2>1, <2>2
    <2>4. lista_semaforos' = [lista_semaforos EXCEPT
            ![k].value = v + 1, ![k].solicitantes = <<>>]
      BY <1>2 DEF PosteSuma
    <2> HIDE DEF v
    <2>5. /\ DOMAIN lista_semaforos' = DOMAIN lista_semaforos
          /\ \A m \in DOMAIN lista_semaforos : lista_semaforos'[m] =
               IF m = k THEN [nombre |-> lista_semaforos[k].nombre,
                              value |-> v + 1, solicitantes |-> <<>>]
               ELSE lista_semaforos[m]
      <3>1. lista_semaforos[k] \in Semaforo
        BY TiposDeListas
      <3> DEFINE nuevo == [nombre |-> lista_semaforos[k].nombre,
                           value |-> v + 1, solicitantes |-> <<>>]
                 uno == [lista_semaforos EXCEPT ![k].value = v + 1]
                 dos == [uno EXCEPT ![k].solicitantes = <<>>]
      <3>2. uno[k] = [lista_semaforos[k] EXCEPT !.value = v + 1]
        OBVIOUS
      <3>3. dos[k] = [uno[k] EXCEPT !.solicitantes = <<>>]
        OBVIOUS
      <3>4. dos[k] = nuevo
        BY <3>1, <3>2, <3>3 DEF Semaforo
      <3>5. DOMAIN dos = DOMAIN lista_semaforos
        OBVIOUS
      <3>6. \A m \in DOMAIN lista_semaforos \ {k} :
              dos[m] = lista_semaforos[m]
        OBVIOUS
      <3>7. lista_semaforos' = dos
        BY <2>4
      <3> HIDE DEF uno, dos, nuevo
      <3>8. \A m \in DOMAIN lista_semaforos :
              dos[m] = IF m = k THEN nuevo ELSE lista_semaforos[m]
        BY <3>4, <3>6
      <3> QED
        BY <3>5, <3>7, <3>8 DEF nuevo
    <2>6. \A m \in DOMAIN lista_semaforos :
            lista_semaforos'[m].solicitantes = lista_semaforos[m].solicitantes
      BY <2>1, <2>5
    <2>7. \A p \in Procesos : /\ UnLugar(p)' <=> UnLugar(p)
                              /\ EnAlguna(p)' <=> EnAlguna(p)
      BY <2>5, <2>6, MismasColas
    <2>8. estado' = estado
      BY <1>2 DEF PosteSuma
    <2> QED
      BY <1>c, <2>7, <2>8 DEF ColasExactas
  <1>3. ASSUME NEW k \in DOMAIN lista_semaforos, NEW q \in Procesos,
               PosteEntrega(k, n, id, q)
        PROVE  /\ ColasExactas'
               /\ \/ estado' = estado
                  \/ /\ estado[q] = "bloqueado" /\ q \notin sin_semaforo
                     /\ estado' = [estado EXCEPT ![q] = "corre"]
    <2>1. CASE /\ caido' = "traer_proceso_bloqueado"
               /\ UNCHANGED <<estado, tiene>>
      BY <2>1 DEF ColasExactas
    <2>2. CASE /\ estado[q] = "bloqueado"
               /\ estado' = [estado EXCEPT ![q] = "corre"]
      <3> DEFINE v == lista_semaforos[k].value
                 c == lista_semaforos[k].solicitantes
                 d == Tail(c)
      <3>1. /\ v \in Int /\ v < 0 /\ c \in Seq(Procesos) /\ c # <<>>
            /\ q = c[1] /\ Len(c) = -v /\ Len(c) \in Nat
            /\ DOMAIN c = 1..Len(c)
        BY <1>3, TiposDeListas DEF PosteEntrega, ValorYSolicitantes
      <3>2. /\ d \in Seq(Procesos) /\ Len(d) = Len(c) - 1
            /\ \A j \in 1..Len(d) : d[j] = c[j + 1]
        BY <3>1, HeadTailProperties
      <3>3. lista_semaforos' = [lista_semaforos EXCEPT
              ![k].value = v + 1, ![k].solicitantes = d]
        BY <1>3 DEF PosteEntrega
      <3>4. lista_semaforos[k] \in Semaforo
        BY TiposDeListas
      <3>5. 1 \in DOMAIN c
        <4> HIDE DEF v, c, d
        <4> QED
          BY <3>1
      <3> HIDE DEF d, v
      <3>6. DOMAIN lista_semaforos' = DOMAIN lista_semaforos
        BY <3>3
      <3>7. \A m \in DOMAIN lista_semaforos :
              lista_semaforos'[m].solicitantes =
                IF m = k THEN d ELSE lista_semaforos[m].solicitantes
        BY <3>3, <3>4 DEF Semaforo
      <3>8. \A j \in 1..Len(d) : d[j] = IF j < 1 THEN c[j] ELSE c[j + 1]
        BY <3>2
      <3>9. \A x \in Procesos :
              /\ UnLugar(x) => UnLugar(x)'
              /\ x # c[1] => (EnAlguna(x)' <=> EnAlguna(x))
              /\ x = c[1] /\ UnLugar(x) => ~EnAlguna(x)'
        BY <3>2, <3>5, <3>6, <3>7, <3>8, QuitaDeCola
      <3>10. EnAlguna(q)
        <4>1. k \in Nat
          BY TiposDeListas
        <4> QED
          BY <3>1, <3>5, <4>1 DEF EnAlguna, Esta
      <3>11. UnLugar(q) /\ q \notin sin_semaforo
        BY <1>c, <2>2, <3>10
      <3> HIDE DEF c
      <3>12. ASSUME NEW p \in Procesos, estado'[p] # "fuera"
             PROVE  /\ UnLugar(p)'
                    /\ EnAlguna(p)' <=> (/\ estado'[p] = "bloqueado"
                                         /\ p \notin sin_semaforo)
        <4>1. CASE p = q
          <5>1. estado'[p] = "corre"
            BY <1>t, <2>2, <4>1
          <5> QED
            BY <3>1, <3>9, <3>11, <4>1, <5>1
        <4>2. CASE p # q
          <5>1. estado'[p] = estado[p]
            BY <1>t, <2>2, <4>2
          <5> QED
            BY <1>c, <3>1, <3>9, <3>12, <4>2, <5>1
        <4> QED
          BY <4>1, <4>2
      <3>13. ColasExactas'
        BY <3>12 DEF ColasExactas
      <3> QED
        BY <2>2, <3>11, <3>13
    <2> QED
      BY <1>3, <2>1, <2>2 DEF PosteEntrega
  <1>4. \/ PosteNulo(n)
        \/ \E k \in DOMAIN lista_semaforos :
             \/ PosteSuma(k, n, id)
             \/ \E q \in Procesos : PosteEntrega(k, n, id, q)
    BY PosteaEfecto
  <1>5. ColasExactas'
    BY <1>1, <1>2, <1>3, <1>4
  <1>6. \/ estado' = estado
        \/ \E q \in Procesos :
             /\ estado[q] = "bloqueado" /\ q \notin sin_semaforo
             /\ estado' = [estado EXCEPT ![q] = "corre"]
    <2>1. CASE PosteNulo(n)
      BY <2>1 DEF PosteNulo
    <2> QED
      BY <1>2, <1>3, <1>4, <2>1
  <1> QED
    BY <1>t, <1>5, <1>6
-----------------------------------------------------------------------------
(* The queues *)

LEMMA ColasInductivas == IInv /\ [Next]_vars => ColasExactas'
  <1> SUFFICES ASSUME IInv, [Next]_vars PROVE ColasExactas'
    OBVIOUS
  <1>t. TypeOK /\ ValorYSolicitantes /\ escenario \in Escenarios
        /\ ColasExactas /\ TareasYEstados /\ SalidaEnCurso
    BY DEF IInv
  <1>e. estado \in [Procesos -> {"corre", "bloqueado", "fuera"}]
        /\ lista_recursos_asignados \in Seq(Recurso)
    BY <1>t DEF TypeOK
  <1>c. caido = "no" => \A p \in Procesos : estado[p] # "fuera" =>
          /\ UnLugar(p)
          /\ EnAlguna(p) <=> (estado[p] = "bloqueado" /\ p \notin sin_semaforo)
    BY <1>t DEF ColasExactas
  <1>m. ASSUME lista_semaforos' = lista_semaforos, NEW p \in Procesos
        PROVE  /\ UnLugar(p)' <=> UnLugar(p)
               /\ EnAlguna(p)' <=> EnAlguna(p)
    BY <1>m, MismasColas
  <1>u. ASSUME UNCHANGED <<lista_semaforos, estado, sin_semaforo>>,
               caido = "no"
        PROVE  ColasExactas'
    BY <1>c, <1>m, <1>u DEF ColasExactas
  <1>1. ASSUME NEW p \in Procesos,
               \/ \E t \in Tareas : TomaTarea(p, t)
               \/ IniciaConsulta(p)
               \/ TomaMutexSemaforos(p) \/ TomaMutexRecursos(p)
        PROVE  ColasExactas'
    BY <1>1, <1>u DEF TomaTarea, IniciaConsulta, TomaMutexSemaforos,
                      TomaMutexRecursos, listas
  <1>2. ASSUME NEW p \in Procesos, IniciaAgrega(p) PROVE ColasExactas'
    <2>1. /\ tarea[p].nombre \in Nombres /\ tarea[p].value \in Nat
          /\ lista_semaforos' = Append(lista_semaforos,
                SemaforoNuevo(tarea[p].nombre, tarea[p].value))
          /\ UNCHANGED <<estado, sin_semaforo>> /\ caido = "no"
      BY <1>2, <1>t, TiposDeTarea DEF IniciaAgrega
    <2>2. /\ DOMAIN lista_semaforos' = 1..(Len(lista_semaforos) + 1)
          /\ \A m \in DOMAIN lista_semaforos :
               lista_semaforos'[m] = lista_semaforos[m]
          /\ lista_semaforos'[Len(lista_semaforos) + 1]
               = SemaforoNuevo(tarea[p].nombre, tarea[p].value)
      BY <1>t, <2>1, AgregaSemaforo
    <2>3. /\ Len(lista_semaforos) \in Nat
          /\ DOMAIN lista_semaforos = 1..Len(lista_semaforos)
      BY <1>t, LenProperties DEF TypeOK
    <2>4. \A m \in DOMAIN lista_semaforos : m \in DOMAIN lista_semaforos'
      BY <2>2, <2>3
    <2>5. \A m \in DOMAIN lista_semaforos' \ DOMAIN lista_semaforos :
            lista_semaforos'[m].solicitantes = <<>>
      <3>1. \A m \in DOMAIN lista_semaforos' \ DOMAIN lista_semaforos :
              m = Len(lista_semaforos) + 1
        BY <2>2, <2>3
      <3> QED
        BY <2>2, <3>1 DEF SemaforoNuevo
    <2>6. \A q \in Procesos : /\ UnLugar(q)' <=> UnLugar(q)
                              /\ EnAlguna(q)' <=> EnAlguna(q)
      BY <2>2, <2>4, <2>5, MismasColas
    <2> QED
      BY <1>c, <2>1, <2>6 DEF ColasExactas
  <1>3. ASSUME NEW p \in Procesos, Solicita(p) PROVE ColasExactas'
    <2>1. /\ caido = "no" /\ tarea[p].op = "wait"
          /\ estado[p] \in {"corre", "fuera"}
          /\ p \in sin_semaforo => estado[p] = "fuera"
      <3>1. caido = "no" /\ tarea[p].op = "wait"
        BY <1>3 DEF Solicita, EnSeccion
      <3>2. tarea[p] # Ninguna
        BY <3>1 DEF Ninguna
      <3> QED
        BY <1>t, <1>e, <3>1, <3>2 DEF TareasYEstados
    <2>2. /\ Bloqueado(p)[p] = IF estado[p] = "corre" THEN "bloqueado"
                               ELSE "fuera"
          /\ \A q \in Procesos \ {p} : Bloqueado(p)[q] = estado[q]
      BY <1>e, <2>1 DEF Bloqueado
    <2>3. CASE /\ estado' = Bloqueado(p)
               /\ sin_semaforo' = sin_semaforo \cup {p}
               /\ UNCHANGED listas
      <3>1. \A q \in Procesos : /\ UnLugar(q)' <=> UnLugar(q)
                                /\ EnAlguna(q)' <=> EnAlguna(q)
        BY <1>m, <2>3 DEF listas
      <3>2. ASSUME NEW q \in Procesos, estado'[q] # "fuera"
            PROVE  /\ UnLugar(q)'
                   /\ EnAlguna(q)' <=> (/\ estado'[q] = "bloqueado"
                                        /\ q \notin sin_semaforo')
        <4>1. CASE q = p
          BY <1>c, <2>1, <2>2, <2>3, <3>1, <3>2, <4>1
        <4>2. CASE q # p
          <5>1. estado'[q] = estado[q]
            BY <2>2, <2>3, <4>2
          <5> QED
            BY <1>c, <2>1, <2>3, <3>1, <3>2, <4>2, <5>1
        <4> QED
          BY <4>1, <4>2
      <3> QED
        BY <3>2 DEF ColasExactas
    <2>4. ASSUME NEW k \in DOMAIN lista_semaforos,
                 lista_semaforos' =
                   [lista_semaforos EXCEPT ![k].value = @ - 1],
                 UNCHANGED <<estado, sin_semaforo>>
          PROVE  ColasExactas'
      <3>1. lista_semaforos[k] \in Semaforo
        BY <1>t, TiposDeListas
      <3>2. /\ DOMAIN lista_semaforos' = DOMAIN lista_semaforos
            /\ \A m \in DOMAIN lista_semaforos :
                 lista_semaforos'[m].solicitantes
                   = lista_semaforos[m].solicitantes
        BY <2>4, <3>1 DEF Semaforo
      <3>3. \A q \in Procesos : /\ UnLugar(q)' <=> UnLugar(q)
                                /\ EnAlguna(q)' <=> EnAlguna(q)
        BY <3>2, MismasColas
      <3> QED
        BY <1>c, <2>1, <2>4, <3>3 DEF ColasExactas
    <2>5. ASSUME NEW k \in DOMAIN lista_semaforos,
                 lista_semaforos' = [lista_semaforos EXCEPT
                   ![k].value = @ - 1, ![k].solicitantes = Append(@, p)],
                 estado' = Bloqueado(p),
                 sin_semaforo' = sin_semaforo
          PROVE  ColasExactas'
      <3>1. lista_semaforos[k] \in Semaforo
        BY <1>t, TiposDeListas
      <3>2. /\ DOMAIN lista_semaforos' = DOMAIN lista_semaforos
            /\ \A m \in DOMAIN lista_semaforos :
                 lista_semaforos'[m].solicitantes =
                   IF m = k THEN Append(lista_semaforos[k].solicitantes, p)
                   ELSE lista_semaforos[m].solicitantes
        BY <2>5, <3>1 DEF Semaforo
      <3>3. \A q \in Procesos :
              /\ q # p => /\ UnLugar(q)' <=> UnLugar(q)
                          /\ EnAlguna(q)' <=> EnAlguna(q)
              /\ q = p /\ ~EnAlguna(q) => UnLugar(q)' /\ EnAlguna(q)'
        BY <1>t, <3>2, SumaACola
      <3>4. ASSUME NEW q \in Procesos, estado'[q] # "fuera"
            PROVE  /\ UnLugar(q)'
                   /\ EnAlguna(q)' <=> (/\ estado'[q] = "bloqueado"
                                        /\ q \notin sin_semaforo')
        <4>1. CASE q = p
          <5>1. /\ estado[q] = "corre" /\ estado'[q] = "bloqueado"
                /\ q \notin sin_semaforo
            BY <2>1, <2>2, <2>5, <3>4, <4>1
          <5>2. ~EnAlguna(q)
            BY <1>c, <2>1, <5>1
          <5> QED
            BY <2>5, <3>3, <4>1, <5>1, <5>2
        <4>2. CASE q # p
          <5>1. estado'[q] = estado[q]
            BY <2>2, <2>5, <4>2
          <5> QED
            BY <1>c, <2>1, <2>5, <3>3, <3>4, <4>2, <5>1
        <4> QED
          BY <4>1, <4>2
      <3> QED
        BY <3>4 DEF ColasExactas
    <2>6. \A k \in Indices : k # 0 => k \in DOMAIN lista_semaforos
      BY <1>t, LenProperties DEF TypeOK, Indices
    <2> QED
      BY <1>3, <2>3, <2>4, <2>5, <2>6 DEF Solicita
  <1>4. ASSUME NEW p \in Procesos, Postea(p) PROVE ColasExactas'
    <2>1. tarea[p].op = "post" /\ caido = "no"
          /\ sin_semaforo' = sin_semaforo
          /\ Postear(lista_recursos_asignados, tarea[p].nombre, Colgado, p)
      BY <1>4 DEF Postea, EnSeccion
    <2>2. tarea[p].nombre \in Nombres \cup {Colgado}
          /\ Colgado \in Nombres \cup {Colgado}
      BY <1>t, <2>1, TiposDeTarea
    <2> QED
      BY <1>t, <1>e, <2>1, <2>2, PosteaColas
  <1>5. ASSUME NEW p \in Procesos, Destruye(p) PROVE ColasExactas'
    <2>1. CASE caido' # "no"
      BY <2>1 DEF ColasExactas
    <2>2. ASSUME NEW k \in DOMAIN lista_semaforos,
                 \A q \in EnCola(k) : estado[q] = "bloqueado",
                 lista_semaforos' = RemoveAt(lista_semaforos, k),
                 estado' = [q \in Procesos |-> IF q \in EnCola(k) THEN "corre"
                                               ELSE estado[q]]
          PROVE  ColasExactas'
      <3>1. /\ DOMAIN lista_semaforos' = 1..(Len(lista_semaforos) - 1)
            /\ \A m \in 1..(Len(lista_semaforos) - 1) :
                 lista_semaforos'[m] = IF m < k THEN lista_semaforos[m]
                                       ELSE lista_semaforos[m + 1]
        BY <1>t, <2>2, QuitaSemaforo
      <3>2. \A q \in Procesos :
              /\ UnLugar(q) => UnLugar(q)'
              /\ q \notin EnCola(k) => (EnAlguna(q)' <=> EnAlguna(q))
              /\ q \in EnCola(k) /\ UnLugar(q) => ~EnAlguna(q)'
        BY <1>t, <3>1, QuitaCola
      <3>3. sin_semaforo' = sin_semaforo /\ caido = "no"
        BY <1>5 DEF Destruye, EnSeccion
      <3>4. ASSUME NEW q \in Procesos, estado'[q] # "fuera"
            PROVE  /\ UnLugar(q)'
                   /\ EnAlguna(q)' <=> (/\ estado'[q] = "bloqueado"
                                        /\ q \notin sin_semaforo')
        <4>1. CASE q \in EnCola(k)
          <5>1. estado[q] = "bloqueado" /\ estado'[q] = "corre"
            BY <2>2, <4>1
          <5> QED
            BY <1>c, <3>2, <3>3, <4>1, <5>1
        <4>2. CASE q \notin EnCola(k)
          <5>1. estado'[q] = estado[q]
            BY <2>2, <4>2
          <5> QED
            BY <1>c, <3>2, <3>3, <3>4, <4>2, <5>1
        <4> QED
          BY <4>1, <4>2
      <3> QED
        BY <3>4 DEF ColasExactas
    <2>3. \A k \in Indices : k # 0 => k \in DOMAIN lista_semaforos
      BY <1>t, LenProperties DEF TypeOK, Indices
    <2> QED
      BY <1>5, <2>1, <2>2, <2>3 DEF Destruye
  <1>6. CASE SalidaTomaRecursos
    BY <1>6, <1>u DEF SalidaTomaRecursos, listas
  <1>7. ASSUME NEW p \in Procesos, SalidaTomaSemaforos(p) PROVE ColasExactas'
    <2>1. /\ UNCHANGED <<lista_semaforos, sin_semaforo>> /\ caido = "no"
          /\ estado' = [estado EXCEPT ![p] = "fuera"]
      BY <1>7 DEF SalidaTomaSemaforos, listas
    <2>2. \A q \in Procesos : estado'[q] # "fuera" => estado'[q] = estado[q]
      BY <1>e, <2>1
    <2> QED
      BY <1>c, <1>m, <2>1, <2>2 DEF ColasExactas
  <1>8. CASE SalidaSolicitud
    <2>1. salida \in [pc : {"solicitudes"}, id : Procesos, index : Nat,
                      index2 : Nat]
      BY <1>8, <1>t, TiposDeSalida DEF SalidaSolicitud
    <2>2. /\ salida.index >= 1 /\ salida.index2 >= 1
          /\ estado[salida.id] = "fuera"
      BY <1>8, <1>t DEF SalidaEnCurso, SalidaSolicitud
    <2>3. UNCHANGED <<estado, sin_semaforo>> /\ caido = "no"
      BY <1>8 DEF SalidaSolicitud
    <2>4. CASE lista_semaforos' = lista_semaforos
      BY <1>u, <2>3, <2>4
    <2>5. ASSUME NEW k \in Nat, k = salida.index, NEW i \in Nat,
                 i = salida.index2, k <= Len(lista_semaforos),
                 i <= Len(lista_semaforos[k].solicitantes),
                 lista_semaforos[k].solicitantes[i] = salida.id,
                 lista_semaforos' = SinSolicitud(k, i)
          PROVE  ColasExactas'
      <3> DEFINE c == lista_semaforos[k].solicitantes
                 d == RemoveAt(c, i)
      <3>1. k \in DOMAIN lista_semaforos
        BY <1>t, <2>2, <2>5, LenProperties DEF TypeOK
      <3>2. /\ lista_semaforos[k] \in Semaforo
            /\ c \in Seq(Procesos) /\ DOMAIN c = 1..Len(c) /\ Len(c) \in Nat
        BY <1>t, <3>1, TiposDeListas
      <3>3. i \in DOMAIN c
        BY <2>2, <2>5, <3>2
      <3>4. /\ d \in Seq(Procesos) /\ Len(d) = Len(c) - 1
            /\ \A j \in 1..Len(d) : d[j] = IF j < i THEN c[j] ELSE c[j + 1]
        <4> HIDE DEF c
        <4> QED
          BY <3>2, <3>3, QuitarUno
      <3>5. /\ DOMAIN lista_semaforos' = DOMAIN lista_semaforos
            /\ \A m \in DOMAIN lista_semaforos :
                 lista_semaforos'[m].solicitantes =
                   IF m = k THEN d ELSE lista_semaforos[m].solicitantes
        BY <2>5, <3>1, <3>2 DEF SinSolicitud, Semaforo
      <3> HIDE DEF d
      <3>6. \A x \in Procesos :
              /\ UnLugar(x) => UnLugar(x)'
              /\ x # c[i] => (EnAlguna(x)' <=> EnAlguna(x))
        BY <1>t, <3>1, <3>3, <3>4, <3>5, QuitaDeCola
      <3> QED
        BY <1>c, <2>2, <2>3, <2>5, <3>6 DEF ColasExactas
    <2> QED
      BY <1>8, <2>1, <2>4, <2>5 DEF SalidaSolicitud
  <1>9. CASE SalidaRecurso
    <2>1. salida \in [pc : {"recursos"}, id : Procesos, index : Nat]
      BY <1>9, <1>t, TiposDeSalida DEF SalidaRecurso
    <2>2. salida.index >= 1 /\ salida.id \in Procesos /\ salida.index \in Nat
      BY <1>9, <1>t, <2>1 DEF SalidaEnCurso, SalidaRecurso
    <2>3. sin_semaforo' = sin_semaforo /\ caido = "no"
      BY <1>9 DEF SalidaRecurso
    <2>4. CASE UNCHANGED <<listas, estado, caido, tiene>>
      BY <1>u, <2>3, <2>4 DEF listas
    <2>5. ASSUME salida.index <= Len(lista_recursos_asignados),
                 NEW n \in Nombres \cup {Colgado},
                 Postear(RemoveAt(lista_recursos_asignados, salida.index), n,
                   lista_recursos_asignados[salida.index].nombre_recurso,
                   salida.id)
          PROVE  ColasExactas'
      <3>1. salida.index \in DOMAIN lista_recursos_asignados
        BY <1>e, <2>2, <2>5, LenProperties
      <3>2. /\ RemoveAt(lista_recursos_asignados, salida.index)
                 \in Seq(Recurso)
            /\ lista_recursos_asignados[salida.index] \in Recurso
        BY <1>e, <3>1, QuitarUno
      <3>3. lista_recursos_asignados[salida.index].nombre_recurso
              \in Nombres \cup {Colgado}
        BY <3>2 DEF Recurso
      <3> QED
        BY <1>t, <2>2, <2>3, <2>5, <3>2, <3>3, PosteaColas
    <2> QED
      BY <1>9, <2>4, <2>5 DEF SalidaRecurso
  <1>10. CASE UNCHANGED vars
    <2>1. UNCHANGED <<lista_semaforos, estado, sin_semaforo, caido>>
      BY <1>10 DEF vars, cambian, listas
    <2>2. caido # "no" => ColasExactas'
      BY <2>1 DEF ColasExactas
    <2> QED
      BY <1>u, <2>1, <2>2
  <1> QED
    BY <1>1, <1>2, <1>3, <1>4, <1>5, <1>6, <1>7, <1>8, <1>9, <1>10
    DEF Next, Paso, Ejecuta

\* Who is blocked has no task; the exit goes on with one that is out.
LEMMA TareasInductivas ==
  IInv /\ [Next]_vars => TareasYEstados' /\ SalidaEnCurso'
  <1> SUFFICES ASSUME IInv, [Next]_vars
               PROVE  TareasYEstados' /\ SalidaEnCurso'
    OBVIOUS
  <1>t. TypeOK /\ ValorYSolicitantes /\ escenario \in Escenarios
        /\ ColasExactas /\ TareasYEstados /\ SalidaEnCurso
    BY DEF IInv
  <1>e. /\ estado \in [Procesos -> {"corre", "bloqueado", "fuera"}]
        /\ lista_recursos_asignados \in Seq(Recurso)
        /\ DOMAIN tarea = Procesos
    BY <1>t DEF TypeOK
  <1>a. \A p \in Procesos : /\ estado[p] = "bloqueado" => tarea[p] = Ninguna
                            /\ p \in sin_semaforo => estado[p] # "corre"
    BY <1>t DEF TareasYEstados
  \* a step that leaves the tasks of the blocked ones as they are or takes
  \* them away
  <1>p. ASSUME sin_semaforo' = sin_semaforo,
               \A p \in Procesos : tarea'[p] \in {tarea[p], Ninguna},
               \A p \in Procesos : estado'[p] # estado[p] =>
                 \/ estado'[p] = "fuera"
                 \/ estado'[p] = "corre" /\ p \notin sin_semaforo
        PROVE  TareasYEstados'
    <2> SUFFICES ASSUME NEW p \in Procesos
                 PROVE  /\ estado'[p] = "bloqueado" => tarea'[p] = Ninguna
                        /\ p \in sin_semaforo' => estado'[p] # "corre"
      BY DEF TareasYEstados
    <2>1. CASE estado'[p] = estado[p]
      BY <1>a, <1>p, <2>1
    <2>2. CASE estado'[p] # estado[p]
      BY <1>p, <2>2
    <2> QED
      BY <2>1, <2>2
  <1>s. ASSUME salida' = salida,
               \A p \in Procesos : estado[p] = "fuera" => estado'[p] = "fuera"
        PROVE  SalidaEnCurso'
    BY <1>s, <1>t, TiposDeSalida DEF SalidaEnCurso
  <1>1. ASSUME NEW p \in Procesos, NEW t \in Tareas, TomaTarea(p, t)
        PROVE  TareasYEstados' /\ SalidaEnCurso'
    <2>1. /\ UNCHANGED <<estado, sin_semaforo, salida>> /\ estado[p] = "corre"
          /\ tarea' = [tarea EXCEPT ![p] = t]
      BY <1>1 DEF TomaTarea
    <2>2. \A q \in Procesos : estado[q] = "bloqueado" => tarea'[q] = tarea[q]
      BY <2>1
    <2> QED
      BY <1>a, <1>s, <2>1, <2>2 DEF TareasYEstados
  <1>2. ASSUME NEW p \in Procesos, IniciaConsulta(p)
        PROVE  TareasYEstados' /\ SalidaEnCurso'
    <2>1. /\ UNCHANGED <<estado, sin_semaforo, salida>>
          /\ tarea[p].op = "init"
          /\ \A q \in Procesos \ {p} : tarea'[q] = tarea[q]
      BY <1>2, <1>e DEF IniciaConsulta
    <2>2. estado[p] # "bloqueado"
      BY <1>a, <2>1 DEF Ninguna
    <2> QED
      BY <1>a, <1>s, <2>1, <2>2 DEF TareasYEstados
  <1>3. ASSUME NEW p \in Procesos, IniciaAgrega(p)
        PROVE  TareasYEstados' /\ SalidaEnCurso'
    BY <1>3, <1>e, <1>p, <1>s DEF IniciaAgrega
  <1>4. ASSUME NEW p \in Procesos, TomaMutexSemaforos(p) \/ TomaMutexRecursos(p)
        PROVE  TareasYEstados' /\ SalidaEnCurso'
    BY <1>4, <1>p, <1>s DEF TomaMutexSemaforos, TomaMutexRecursos
  <1>5. ASSUME NEW p \in Procesos, NEW op, EnSeccion(p, op)
        PROVE  /\ \A q \in Procesos : tarea'[q] \in {tarea[q], Ninguna}
               /\ tarea'[p] = Ninguna /\ salida' = salida
    BY <1>5, <1>e DEF EnSeccion
  <1>6. ASSUME NEW p \in Procesos, Solicita(p)
        PROVE  TareasYEstados' /\ SalidaEnCurso'
    <2>1. /\ \A q \in Procesos : tarea'[q] \in {tarea[q], Ninguna}
          /\ tarea'[p] = Ninguna /\ salida' = salida
      BY <1>5, <1>6 DEF Solicita
    <2>2. /\ \/ estado' = estado
             \/ estado' = Bloqueado(p)
          /\ \/ sin_semaforo' = sin_semaforo
             \/ estado' = Bloqueado(p) /\ sin_semaforo' = sin_semaforo \cup {p}
      BY <1>6 DEF Solicita
    <2>3. /\ Bloqueado(p)[p] # "corre"
          /\ \A q \in Procesos \ {p} : Bloqueado(p)[q] = estado[q]
          /\ \A q \in Procesos :
               estado[q] = "fuera" => Bloqueado(p)[q] = "fuera"
      BY <1>e DEF Bloqueado
    <2>4. SalidaEnCurso'
      BY <1>s, <2>1, <2>2, <2>3
    <2>5. ASSUME NEW q \in Procesos
          PROVE  /\ estado'[q] = "bloqueado" => tarea'[q] = Ninguna
                 /\ q \in sin_semaforo' => estado'[q] # "corre"
      <3>1. CASE q = p
        BY <1>a, <2>1, <2>2, <2>3, <3>1
      <3>2. CASE q # p
        BY <1>a, <2>1, <2>2, <2>3, <3>2
      <3> QED
        BY <3>1, <3>2
    <2> QED
      BY <2>4, <2>5 DEF TareasYEstados
  <1>7. ASSUME NEW p \in Procesos, Postea(p)
        PROVE  TareasYEstados' /\ SalidaEnCurso'
    <2>1. /\ \A q \in Procesos : tarea'[q] \in {tarea[q], Ninguna}
          /\ tarea'[p] = Ninguna /\ salida' = salida
      BY <1>5, <1>7 DEF Postea
    <2>2. tarea[p].op = "post" /\ caido = "no"
          /\ sin_semaforo' = sin_semaforo
          /\ Postear(lista_recursos_asignados, tarea[p].nombre, Colgado, p)
      BY <1>7 DEF Postea, EnSeccion
    <2>3. tarea[p].nombre \in Nombres \cup {Colgado}
          /\ Colgado \in Nombres \cup {Colgado}
      BY <1>t, <2>2, TiposDeTarea
    <2>4. \A q \in Procesos : estado'[q] # estado[q] =>
            /\ estado[q] = "bloqueado" /\ estado'[q] = "corre"
            /\ q \notin sin_semaforo
      BY <1>t, <1>e, <2>2, <2>3, PosteaColas
    <2> QED
      BY <1>p, <1>s, <2>1, <2>2, <2>4
  <1>8. ASSUME NEW p \in Procesos, Destruye(p)
        PROVE  TareasYEstados' /\ SalidaEnCurso'
    <2>1. /\ \A q \in Procesos : tarea'[q] \in {tarea[q], Ninguna}
          /\ tarea'[p] = Ninguna /\ salida' = salida
          /\ sin_semaforo' = sin_semaforo /\ caido = "no"
      BY <1>5, <1>8 DEF Destruye, EnSeccion
    <2>2. \/ estado' = estado
          \/ \E k \in Indices :
               /\ k # 0 /\ \A q \in EnCola(k) : estado[q] = "bloqueado"
               /\ estado' = [q \in Procesos |->
                               IF q \in EnCola(k) THEN "corre" ELSE estado[q]]
      BY <1>8 DEF Destruye
    <2>3. ASSUME NEW k \in Indices, k # 0, NEW q \in EnCola(k),
                 q \in Procesos, estado[q] = "bloqueado"
          PROVE  q \notin sin_semaforo
      <3>1. k \in DOMAIN lista_semaforos
        BY <1>t, <2>3, LenProperties DEF TypeOK, Indices
      <3>2. k \in Nat /\ \A i \in DOMAIN lista_semaforos[k].solicitantes :
                           i \in Nat
        BY <1>t, <3>1, TiposDeListas
      <3>3. EnAlguna(q)
        BY <2>3, <3>1, <3>2 DEF EnCola, EnAlguna, Esta
      <3> QED
        BY <1>t, <2>1, <2>3, <3>3 DEF ColasExactas
    <2>4. \A q \in Procesos : estado'[q] # estado[q] =>
            /\ estado[q] = "bloqueado" /\ estado'[q] = "corre"
            /\ q \notin sin_semaforo
      BY <2>2, <2>3
    <2> QED
      BY <1>p, <1>s, <2>1, <2>4
  <1>9. CASE SalidaTomaRecursos
    <2>1. salida' = [pc |-> "toma_semaforos"]
          /\ UNCHANGED <<estado, tarea, sin_semaforo>>
      BY <1>9 DEF SalidaTomaRecursos
    <2> QED
      BY <1>p, <2>1 DEF SalidaEnCurso
  <1>10. ASSUME NEW p \in Procesos, SalidaTomaSemaforos(p)
         PROVE  TareasYEstados' /\ SalidaEnCurso'
    <2>1. /\ salida' = [pc |-> "solicitudes", id |-> p, index |-> 1,
                        index2 |-> 1]
          /\ estado' = [estado EXCEPT ![p] = "fuera"]
          /\ UNCHANGED <<tarea, sin_semaforo>>
      BY <1>10 DEF SalidaTomaSemaforos
    <2>2. /\ estado'[p] = "fuera"
          /\ \A q \in Procesos : estado'[q] # estado[q] => estado'[q] = "fuera"
      BY <1>e, <2>1
    <2> QED
      BY <1>p, <2>1, <2>2 DEF SalidaEnCurso
  <1>11. CASE SalidaSolicitud
    <2>1. salida \in [pc : {"solicitudes"}, id : Procesos, index : Nat,
                      index2 : Nat]
      BY <1>11, <1>t, TiposDeSalida DEF SalidaSolicitud
    <2>2. /\ salida.index >= 1 /\ salida.index2 >= 1
          /\ estado[salida.id] = "fuera"
      BY <1>11, <1>t DEF SalidaEnCurso, SalidaSolicitud
    <2>3. UNCHANGED <<estado, tarea, sin_semaforo>>
      BY <1>11 DEF SalidaSolicitud
    <2>4. \/ salida' = [pc |-> "recursos", id |-> salida.id, index |-> 1]
          \/ salida' = [salida EXCEPT !.index = @ + 1]
          \/ salida' = [salida EXCEPT !.index2 = @ + 1]
      BY <1>11 DEF SalidaSolicitud
    <2>5. SalidaEnCurso'
      BY <2>1, <2>2, <2>3, <2>4 DEF SalidaEnCurso
    <2> QED
      BY <1>p, <2>3, <2>5
  <1>12. CASE SalidaRecurso
    <2>1. salida \in [pc : {"recursos"}, id : Procesos, index : Nat]
      BY <1>12, <1>t, TiposDeSalida DEF SalidaRecurso
    <2>2. /\ salida.index >= 1 /\ salida.id \in Procesos
          /\ salida.index \in Nat /\ estado[salida.id] = "fuera"
      BY <1>12, <1>t, <2>1 DEF SalidaEnCurso, SalidaRecurso
    <2>3. UNCHANGED <<tarea, sin_semaforo>> /\ caido = "no"
      BY <1>12 DEF SalidaRecurso
    <2>4. \/ salida' = Quieta
          \/ salida' = [salida EXCEPT !.index = @ + 1]
      BY <1>12 DEF SalidaRecurso
    <2>5. ASSUME salida.index <= Len(lista_recursos_asignados),
                 NEW n \in Nombres \cup {Colgado},
                 Postear(RemoveAt(lista_recursos_asignados, salida.index), n,
                   lista_recursos_asignados[salida.index].nombre_recurso,
                   salida.id)
          PROVE  \A q \in Procesos : estado'[q] # estado[q] =>
                   /\ estado[q] = "bloqueado" /\ estado'[q] = "corre"
                   /\ q \notin sin_semaforo
      <3>1. salida.index \in DOMAIN lista_recursos_asignados
        BY <1>e, <2>2, <2>5, LenProperties
      <3>2. /\ RemoveAt(lista_recursos_asignados, salida.index)
                 \in Seq(Recurso)
            /\ lista_recursos_asignados[salida.index] \in Recurso
        BY <1>e, <3>1, QuitarUno
      <3>3. lista_recursos_asignados[salida.index].nombre_recurso
              \in Nombres \cup {Colgado}
        BY <3>2 DEF Recurso
      <3> QED
        BY <1>t, <2>2, <2>3, <2>5, <3>2, <3>3, PosteaColas
    <2>6. \A q \in Procesos : estado'[q] # estado[q] =>
            /\ estado[q] = "bloqueado" /\ estado'[q] = "corre"
            /\ q \notin sin_semaforo
      BY <1>12, <2>5 DEF SalidaRecurso
    <2>7. TareasYEstados'
      BY <1>p, <2>3, <2>6
    <2>8. estado'[salida.id] = "fuera"
      BY <2>2, <2>6
    <2>9. SalidaEnCurso'
      BY <2>1, <2>2, <2>4, <2>8 DEF SalidaEnCurso, Quieta
    <2> QED
      BY <2>7, <2>9
  <1>13. CASE UNCHANGED vars
    <2>1. UNCHANGED <<estado, tarea, sin_semaforo, salida>>
      BY <1>13 DEF vars, cambian
    <2> QED
      BY <1>p, <1>s, <2>1
  <1> QED
    BY <1>1, <1>2, <1>3, <1>4, <1>6, <1>7, <1>8, <1>9, <1>10, <1>11, <1>12,
       <1>13
    DEF Next, Paso, Ejecuta
-----------------------------------------------------------------------------
(* A semaphore used as a mutex *)

\* Until somebody leaves ...
NadieSalio == \A p \in Procesos : estado[p] # "fuera"

\* ... who has a post in its hands holds the unit, who has a wait does not,
\* and what is added has one unit ...
TareasEnOrden ==
  \A p \in Procesos :
    /\ tarea[p].op = "post" => tarea[p].nombre \in tiene[p]
    /\ tarea[p].op = "wait" => tarea[p].nombre \notin tiene[p]
    /\ tarea[p].op = "agrega" => tarea[p].value = 1

\* ... who waits for a unit does not hold it ...
EsperanSinTener ==
  \A p \in Procesos, k, i \in Nat :
    Esta(p, k, i) => lista_semaforos[k].nombre \notin tiene[p]

\* ... and the unit of n is free or one carpincho has it, if there is one
UnidadDe(n) ==
  \/ /\ \A k \in DOMAIN lista_semaforos : lista_semaforos[k].nombre # n
     /\ \A p \in Procesos : n \notin tiene[p]
  \/ \E k \in DOMAIN lista_semaforos :
       /\ EsIndice(k, n) /\ k # 0
       /\ \/ /\ lista_semaforos[k].value = 1
             /\ \A p \in Procesos : n \notin tiene[p]
          \/ /\ lista_semaforos[k].value <= 0
             /\ \E p \in Procesos : \A q \in Procesos :
                  n \in tiene[q] <=> q = p

InvMutex ==
  ComoMutex /\ NadieSalio =>
    TareasEnOrden /\ EsperanSinTener /\ \A n \in Nombres : UnidadDe(n)

\* The first semaphore of a name is one.
LEMMA UnSoloIndice ==
  ASSUME TypeOK, NEW n, NEW k \in DOMAIN lista_semaforos,
         NEW j \in DOMAIN lista_semaforos, EsIndice(k, n), EsIndice(j, n)
  PROVE  k = j
  <1>1. k \in Nat /\ j \in Nat /\ k # 0 /\ j # 0
    <2>1. k \in 1..Len(lista_semaforos) /\ j \in 1..Len(lista_semaforos)
          /\ Len(lista_semaforos) \in Nat
      BY TiposDeListas
    <2> QED
      BY <2>1
  <1> QED
    BY <1>1 DEF EsIndice

\* Values and queues may change without changing who is the first of a name.
LEMMA MismosIndices ==
  ASSUME DOMAIN lista_semaforos' = DOMAIN lista_semaforos,
         \A m \in DOMAIN lista_semaforos :
           lista_semaforos'[m].nombre = lista_semaforos[m].nombre,
         NEW n, NEW k \in DOMAIN lista_semaforos
  PROVE  EsIndice(k, n)' <=> EsIndice(k, n)
  BY DEF EsIndice

\* The unit of a name that a step has nothing to do with.
LEMMA UnidadAjena ==
  ASSUME DOMAIN lista_semaforos' = DOMAIN lista_semaforos,
         \A m \in DOMAIN lista_semaforos :
           lista_semaforos'[m].nombre = lista_semaforos[m].nombre,
         NEW n, UnidadDe(n),
         \A m \in DOMAIN lista_semaforos : lista_semaforos[m].nombre = n =>
           lista_semaforos'[m].value = lista_semaforos[m].value,
         \A p \in Procesos : n \in tiene'[p] <=> n \in tiene[p]
  PROVE  UnidadDe(n)'
  <1>1. CASE /\ \A k \in DOMAIN lista_semaforos :
                  lista_semaforos[k].nombre # n
             /\ \A p \in Procesos : n \notin tiene[p]
    BY <1>1 DEF UnidadDe
  <1>2. ASSUME NEW k \in DOMAIN lista_semaforos,
               EsIndice(k, n), k # 0,
               \/ /\ lista_semaforos[k].value = 1
                  /\ \A p \in Procesos : n \notin tiene[p]
               \/ /\ lista_semaforos[k].value <= 0
                  /\ \E p \in Procesos : \A q \in Procesos :
                       n \in tiene[q] <=> q = p
        PROVE  UnidadDe(n)'
    <2>1. EsIndice(k, n)'
      BY <1>2, MismosIndices
    <2>2. lista_semaforos'[k].value = lista_semaforos[k].value
      BY <1>2 DEF EsIndice
    <2> QED
      BY <1>2, <2>1, <2>2 DEF UnidadDe
  <1> QED
    BY <1>1, <1>2 DEF UnidadDe

LEMMA MutexInicial == Init => InvMutex
  <1> SUFFICES ASSUME Init, ComoMutex
               PROVE  /\ TareasEnOrden /\ EsperanSinTener
                      /\ \A n \in Nombres : UnidadDe(n)
    BY DEF InvMutex
  <1>0. IInv
    BY InvInicial
  <1>1. TareasEnOrden
    BY DEF Init, TareasEnOrden, Ninguna
  <1>2. EsperanSinTener
    BY DEF Init, EsperanSinTener
  <1>3. ASSUME NEW n \in Nombres PROVE UnidadDe(n)
    <2>1. \A p \in Procesos : n \notin tiene[p]
      BY DEF Init
    <2>2. \A k \in DOMAIN lista_semaforos : lista_semaforos[k].value = 1
      BY DEF Init, SemaforoNuevo, ComoMutex
    <2> DEFINE suyos == {k \in DOMAIN lista_semaforos :
                           lista_semaforos[k].nombre = n}
    <2>3. CASE suyos = {}
      BY <2>1, <2>3 DEF UnidadDe
    <2>4. CASE suyos # {}
      <3>1. Len(lista_semaforos) \in Nat
            /\ DOMAIN lista_semaforos = 1..Len(lista_semaforos)
        BY <1>0, LenProperties DEF IInv, TypeOK
      <3>2. suyos \in SUBSET (1..Len(lista_semaforos))
        BY <3>1
      <3> HIDE DEF suyos
      <3>3. /\ Primero(suyos) \in suyos
            /\ \A j \in suyos : Primero(suyos) <= j
            /\ Primero(suyos) # 0
        BY <2>4, <3>1, <3>2, PrimeroEsMinimo
      <3>4. PICK k \in suyos : k # 0 /\ \A j \in suyos : k <= j
        BY <3>3
      <3>5. k \in DOMAIN lista_semaforos /\ EsIndice(k, n)
        BY <3>4 DEF EsIndice, suyos
      <3> QED
        BY <2>1, <2>2, <3>4, <3>5 DEF UnidadDe
    <2> QED
      BY <2>3, <2>4
  <1> QED
    BY <1>1, <1>2, <1>3

\* Nobody destroys, and what is created has one unit.
LEMMA TareasDeMutex ==
  ASSUME TypeOK, escenario \in Escenarios, ComoMutex, NEW p \in Procesos
  PROVE  /\ tarea[p].op # "destroy"
         /\ tarea[p].op = "init" => tarea[p].value = 1
  <1>1. escenario.operaciones \subseteq {"init", "wait", "post"}
    BY ConstantesOK DEF ComoMutex
  <1>2. \/ tarea[p] = Ninguna
        \/ tarea[p] \in [op : {"init"}, nombre : Nombres, value : {1}]
        \/ tarea[p] \in [op : {"wait", "post"}, nombre : Nombres]
        \/ tarea[p] \in [op : {"agrega"}, nombre : Nombres, value : Nat]
    BY <1>1 DEF TypeOK, Tareas, ComoMutex
  <1> QED
    BY <1>2 DEF Ninguna

\* Who left does not come back.
LEMMA QuienSaleNoVuelve ==
  ASSUME IInv, [Next]_vars, NEW q \in Procesos, estado[q] = "fuera"
  PROVE  estado'[q] = "fuera"
  <1>t. /\ TypeOK /\ ValorYSolicitantes /\ escenario \in Escenarios
        /\ estado \in [Procesos -> {"corre", "bloqueado", "fuera"}]
        /\ lista_recursos_asignados \in Seq(Recurso)
    BY DEF IInv, TypeOK
  \* a post changes the state of who is blocked only
  <1>p. ASSUME NEW recursos \in Seq(Recurso), NEW n \in Nombres \cup {Colgado},
               NEW nombre \in Nombres \cup {Colgado}, NEW id \in Procesos,
               Postear(recursos, n, nombre, id)
        PROVE  estado'[q] = "fuera"
    <2>1. \/ PosteNulo(n)
          \/ \E k \in DOMAIN lista_semaforos :
               \/ PosteSuma(k, n, id)
               \/ \E x \in Procesos : PosteEntrega(k, n, id, x)
      BY <1>p, <1>t, PosteaEfecto
    <2> QED
      BY <1>t, <2>1 DEF PosteNulo, PosteSuma, PosteEntrega
  <1>1. ASSUME NEW p \in Procesos, Postea(p) PROVE estado'[q] = "fuera"
    <2>1. /\ tarea[p].op = "post"
          /\ Postear(lista_recursos_asignados, tarea[p].nombre, Colgado, p)
      BY <1>1 DEF Postea, EnSeccion
    <2>2. tarea[p].nombre \in Nombres \cup {Colgado}
          /\ Colgado \in Nombres \cup {Colgado}
      BY <1>t, <2>1, TiposDeTarea
    <2> QED
      BY <1>p, <1>t, <2>1, <2>2
  <1>2. CASE SalidaRecurso
    <2>1. salida.index \in Nat /\ salida.index >= 1 /\ salida.id \in Procesos
      BY <1>2, <1>t, TiposDeSalida DEF SalidaRecurso, IInv, SalidaEnCurso
    <2>2. ASSUME salida.index <= Len(lista_recursos_asignados),
                 NEW n \in Nombres \cup {Colgado},
                 Postear(RemoveAt(lista_recursos_asignados, salida.index), n,
                   lista_recursos_asignados[salida.index].nombre_recurso,
                   salida.id)
          PROVE  estado'[q] = "fuera"
      <3>1. salida.index \in DOMAIN lista_recursos_asignados
        BY <1>t, <2>1, <2>2, LenProperties
      <3>2. /\ RemoveAt(lista_recursos_asignados, salida.index)
                 \in Seq(Recurso)
            /\ lista_recursos_asignados[salida.index] \in Recurso
        BY <1>t, <3>1, QuitarUno
      <3>3. lista_recursos_asignados[salida.index].nombre_recurso
              \in Nombres \cup {Colgado}
        BY <3>2 DEF Recurso
      <3> QED
        BY <1>p, <2>1, <2>2, <3>2, <3>3
    <2> QED
      BY <1>2, <2>2 DEF SalidaRecurso
  <1>3. ASSUME NEW p \in Procesos,
               \/ IniciaConsulta(p) \/ IniciaAgrega(p) \/ TomaMutexSemaforos(p)
               \/ TomaMutexRecursos(p) \/ SalidaTomaSemaforos(p)
               \/ SalidaTomaRecursos \/ SalidaSolicitud \/ UNCHANGED vars
        PROVE  estado'[q] = "fuera"
    BY <1>3, <1>t DEF IniciaConsulta, IniciaAgrega, TomaMutexSemaforos,
       TomaMutexRecursos, SalidaTomaSemaforos, SalidaTomaRecursos,
       SalidaSolicitud, vars, cambian
  <1>4. ASSUME NEW p \in Procesos, NEW t \in Tareas, TomaTarea(p, t)
        PROVE  estado'[q] = "fuera"
    BY <1>4 DEF TomaTarea
  <1>5. ASSUME NEW p \in Procesos, Solicita(p) PROVE estado'[q] = "fuera"
    <2>1. estado' = estado \/ estado' = Bloqueado(p)
      BY <1>5 DEF Solicita
    <2> QED
      BY <1>t, <2>1 DEF Bloqueado
  <1>6. ASSUME NEW p \in Procesos, Destruye(p) PROVE estado'[q] = "fuera"
    BY <1>6, <1>t DEF Destruye
  <1> QED
    BY <1>1, <1>2, <1>3, <1>4, <1>5, <1>6 DEF Next, Paso, Ejecuta

LEMMA MutexInductivo == IInv /\ InvMutex /\ [Next]_vars => InvMutex'
  <1>e. [Next]_vars => escenario' = escenario
    BY DEF Next, vars
  <1> SUFFICES ASSUME IInv, InvMutex, [Next]_vars, ComoMutex, NadieSalio'
               PROVE  /\ TareasEnOrden' /\ EsperanSinTener'
                      /\ \A n \in Nombres : UnidadDe(n)'
    BY <1>e DEF InvMutex, ComoMutex
  <1>f. NadieSalio
    BY QuienSaleNoVuelve DEF NadieSalio
  <1>t. /\ TypeOK /\ ValorYSolicitantes /\ escenario \in Escenarios
        /\ ColasExactas /\ TareasYEstados
        /\ NadieSalio /\ TareasEnOrden /\ EsperanSinTener
        /\ \A n \in Nombres : UnidadDe(n)
        /\ SalidaEnCurso
    BY <1>f DEF IInv, InvMutex
  <1>d. /\ estado \in [Procesos -> {"corre", "bloqueado", "fuera"}]
        /\ tiene \in [Procesos -> SUBSET Nombres]
        /\ DOMAIN tarea = Procesos
        /\ lista_semaforos \in Seq(Semaforo)
        /\ lista_recursos_asignados \in Seq(Recurso)
    BY <1>t DEF TypeOK
  \* a step that leaves the semaphores and their owners alone
  <1>q. ASSUME UNCHANGED <<lista_semaforos, tiene>>
        PROVE  EsperanSinTener' /\ \A n \in Nombres : UnidadDe(n)'
    <2>1. EsperanSinTener'
      BY <1>q, <1>t DEF EsperanSinTener, Esta
    <2>2. \A n \in Nombres : UnidadDe(n)'
      BY <1>q, <1>t, UnidadAjena
    <2> QED
      BY <2>1, <2>2
  <1>1. ASSUME NEW p \in Procesos, NEW t \in Tareas, TomaTarea(p, t)
        PROVE  /\ TareasEnOrden' /\ EsperanSinTener'
               /\ \A n \in Nombres : UnidadDe(n)'
    <2>1. UNCHANGED <<lista_semaforos, estado, salida, tiene>>
          /\ tarea' = [tarea EXCEPT ![p] = t]
      BY <1>1 DEF TomaTarea, listas
    <2>2. /\ t.op = "wait" => t.nombre \notin tiene[p]
          /\ t.op = "post" => t.nombre \in tiene[p]
      BY <1>1 DEF TomaTarea, ComoMutex
    <2>3. t.op # "agrega"
      BY <1>t, ConstantesOK DEF Tareas
    <2>4. TareasEnOrden'
      BY <1>t, <1>d, <2>1, <2>2, <2>3 DEF TareasEnOrden
    <2> QED
      BY <1>q, <2>1, <2>4
  <1>2. ASSUME NEW p \in Procesos, IniciaConsulta(p)
        PROVE  /\ TareasEnOrden' /\ EsperanSinTener'
               /\ \A n \in Nombres : UnidadDe(n)'
    <2>1. UNCHANGED <<lista_semaforos, estado, salida, tiene>>
          /\ tarea[p].op = "init"
          /\ tarea'[p] \in {Ninguna, [tarea[p] EXCEPT !.op = "agrega"]}
          /\ \A q \in Procesos \ {p} : tarea'[q] = tarea[q]
      BY <1>2, <1>d DEF IniciaConsulta, listas
    <2>2. /\ tarea[p].value = 1
          /\ tarea[p] \in [op : {"init", "agrega"}, nombre : Nombres,
                           value : Nat]
      BY <1>t, <2>1, TareasDeMutex, TiposDeTarea
    <2>3. /\ [tarea[p] EXCEPT !.op = "agrega"].op = "agrega"
          /\ [tarea[p] EXCEPT !.op = "agrega"].value = 1
      BY <2>2
    <2> DEFINE agrega == [tarea[p] EXCEPT !.op = "agrega"]
    <2>4. agrega.op = "agrega" /\ agrega.value = 1 /\ Ninguna.op = "ninguna"
          /\ tarea'[p] \in {Ninguna, agrega}
      BY <2>1, <2>3 DEF Ninguna
    <2> HIDE DEF agrega
    <2>5. TareasEnOrden'
      BY <1>t, <2>1, <2>4 DEF TareasEnOrden
    <2> QED
      BY <1>q, <2>1, <2>5
  \* the task of p is done
  <1>3. ASSUME NEW p \in Procesos, tarea' = [tarea EXCEPT ![p] = Ninguna],
               \A q \in Procesos : tarea[q].op \in {"wait", "post"} =>
                 tiene'[q] = tiene[q] \/ q = p
        PROVE  TareasEnOrden'
    <2> SUFFICES ASSUME NEW q \in Procesos
                 PROVE  /\ tarea'[q].op = "post" => tarea'[q].nombre \in tiene'[q]
                        /\ tarea'[q].op = "wait" =>
                             tarea'[q].nombre \notin tiene'[q]
                        /\ tarea'[q].op = "agrega" => tarea'[q].value = 1
      BY DEF TareasEnOrden
    <2>1. CASE q = p
      BY <1>3, <1>d, <2>1 DEF Ninguna
    <2>2. CASE q # p
      BY <1>3, <1>t, <1>d, <2>2 DEF TareasEnOrden
    <2> QED
      BY <2>1, <2>2
  <1>4. ASSUME NEW p \in Procesos, IniciaAgrega(p)
        PROVE  /\ TareasEnOrden' /\ EsperanSinTener'
               /\ \A n \in Nombres : UnidadDe(n)'
    <2> DEFINE L == Len(lista_semaforos)
               nuevo == SemaforoNuevo(tarea[p].nombre, tarea[p].value)
    <2>1. /\ UNCHANGED <<estado, salida, tiene>> /\ tarea[p].op = "agrega"
          /\ tarea' = [tarea EXCEPT ![p] = Ninguna]
          /\ lista_semaforos' = Append(lista_semaforos, nuevo)
      BY <1>4 DEF IniciaAgrega
    <2>2. tarea[p].nombre \in Nombres /\ tarea[p].value = 1
      BY <1>t, <2>1, TiposDeTarea DEF TareasEnOrden
    <2>3. L \in Nat /\ DOMAIN lista_semaforos = 1..L
      BY <1>d, LenProperties
    <2>4. /\ DOMAIN lista_semaforos' = 1..(L + 1)
          /\ \A m \in DOMAIN lista_semaforos :
               lista_semaforos'[m] = lista_semaforos[m]
          /\ lista_semaforos'[L + 1] = nuevo
      <3>1. 1 \in Nat
        OBVIOUS
      <3> QED
        BY <1>t, <2>1, <2>2, <3>1, AgregaSemaforo
    <2>5. /\ nuevo.nombre = tarea[p].nombre /\ nuevo.value = 1
          /\ nuevo.solicitantes = <<>>
      BY <2>2 DEF SemaforoNuevo
    <2> HIDE DEF nuevo, L
    <2>6. \A q \in Procesos, k, i \in Nat :
            Esta(q, k, i)' => Esta(q, k, i) /\ k \in DOMAIN lista_semaforos
      <3>1. DOMAIN <<>> = {}
        OBVIOUS
      <3>2. \A k \in DOMAIN lista_semaforos' :
              k \in DOMAIN lista_semaforos \/ k = L + 1
        BY <2>3, <2>4
      <3> QED
        BY <2>4, <2>5, <3>1, <3>2 DEF Esta
    <2>7. EsperanSinTener'
      BY <1>t, <2>1, <2>4, <2>6 DEF EsperanSinTener
    <2>8. ASSUME NEW n \in Nombres, NEW k \in DOMAIN lista_semaforos,
                 EsIndice(k, n), k # 0
          PROVE  EsIndice(k, n)' /\ k \in DOMAIN lista_semaforos'
      <3>1. k \in DOMAIN lista_semaforos' /\ k <= L + 1
        BY <2>3, <2>4
      <3>2. \A j \in DOMAIN lista_semaforos' :
              j \in DOMAIN lista_semaforos \/ j = L + 1
        BY <2>3, <2>4
      <3> QED
        BY <2>4, <2>8, <3>1, <3>2 DEF EsIndice
    <2>9. ASSUME NEW n \in Nombres PROVE UnidadDe(n)'
      <3>1. CASE \E k \in DOMAIN lista_semaforos : EsIndice(k, n) /\ k # 0
        <4>1. ~(\A k \in DOMAIN lista_semaforos : lista_semaforos[k].nombre # n)
          BY <3>1 DEF EsIndice
        <4>2. PICK k \in DOMAIN lista_semaforos :
                /\ EsIndice(k, n) /\ k # 0
                /\ \/ /\ lista_semaforos[k].value = 1
                      /\ \A q \in Procesos : n \notin tiene[q]
                   \/ /\ lista_semaforos[k].value <= 0
                      /\ \E o \in Procesos : \A q \in Procesos :
                           n \in tiene[q] <=> q = o
          BY <1>t, <4>1 DEF UnidadDe
        <4>3. EsIndice(k, n)' /\ k \in DOMAIN lista_semaforos'
              /\ lista_semaforos'[k] = lista_semaforos[k]
          BY <2>4, <2>8, <4>2
        <4> QED
          BY <2>1, <4>2, <4>3 DEF UnidadDe
      <3>2. CASE ~\E k \in DOMAIN lista_semaforos : EsIndice(k, n) /\ k # 0
        <4>1. /\ \A k \in DOMAIN lista_semaforos : lista_semaforos[k].nombre # n
              /\ \A q \in Procesos : n \notin tiene[q]
          BY <1>t, <3>2 DEF UnidadDe
        <4>2. CASE n = tarea[p].nombre
          <5>1. L + 1 \in DOMAIN lista_semaforos' /\ L + 1 # 0
                /\ \A j \in DOMAIN lista_semaforos' \ {L + 1} :
                     j \in DOMAIN lista_semaforos
            BY <2>3, <2>4
          <5>2. /\ lista_semaforos'[L + 1].nombre = n
                /\ lista_semaforos'[L + 1].value = 1
            BY <2>4, <2>5, <4>2
          <5>3. \A j \in DOMAIN lista_semaforos' :
                  lista_semaforos'[j].nombre = n => j = L + 1
            BY <2>4, <4>1, <5>1
          <5>4. PICK k \in DOMAIN lista_semaforos' : k = L + 1
            BY <5>1
          <5>5. k \in Nat /\ k # 0
            BY <2>3, <5>1, <5>4
          <5>6. EsIndice(k, n)'
            BY <5>2, <5>3, <5>4, <5>5 DEF EsIndice
          <5> QED
            BY <2>1, <4>1, <5>2, <5>4, <5>5, <5>6 DEF UnidadDe
        <4>3. CASE n # tarea[p].nombre
          <5>1. \A j \in DOMAIN lista_semaforos' :
                  j \in DOMAIN lista_semaforos \/ j = L + 1
            BY <2>3, <2>4
          <5>2. \A j \in DOMAIN lista_semaforos' :
                  lista_semaforos'[j].nombre # n
            BY <2>4, <2>5, <4>1, <4>3, <5>1
          <5> QED
            BY <2>1, <4>1, <5>2 DEF UnidadDe
        <4> QED
          BY <4>2, <4>3
      <3> QED
        BY <3>1, <3>2
    <2>10. TareasEnOrden'
      BY <1>3, <2>1
    <2> QED
      BY <2>7, <2>9, <2>10
  \* the first of p's name, and that p waits nowhere
  <1>5. ASSUME NEW p \in Procesos, tarea[p].op \in {"wait", "post"},
               caido = "no"
        PROVE  /\ tarea[p].nombre \in Nombres
               /\ estado[p] = "corre" /\ ~EnAlguna(p)
    <2>1. tarea[p] # Ninguna /\ tarea[p].op # "ninguna"
      BY <1>5 DEF Ninguna
    <2> QED
      BY <1>t, <1>d, <1>5, <2>1, TiposDeTarea
      DEF TareasYEstados, NadieSalio, ColasExactas
  <1>6. ASSUME NEW p \in Procesos, Solicita(p)
        PROVE  /\ TareasEnOrden' /\ EsperanSinTener'
               /\ \A n \in Nombres : UnidadDe(n)'
    <2>1. /\ tarea[p].op = "wait" /\ caido = "no" /\ salida' = salida
          /\ tarea' = [tarea EXCEPT ![p] = Ninguna]
      BY <1>6 DEF Solicita, EnSeccion
    <2>n. PICK n \in Nombres : n = tarea[p].nombre
      BY <1>5, <2>1
    <2>2. /\ estado[p] = "corre" /\ ~EnAlguna(p)
          /\ n \notin tiene[p]
      BY <1>5, <1>t, <2>1, <2>n DEF TareasEnOrden
    <2>5. \A k \in Indices : k # 0 => k \in DOMAIN lista_semaforos
      BY <1>d, LenProperties DEF Indices
    <2>6. CASE UNCHANGED <<listas, tiene>>
      BY <1>q, <1>3, <2>1, <2>6 DEF listas
    <2>7. ASSUME NEW k \in DOMAIN lista_semaforos, EsIndice(k, n),
                 lista_semaforos[k].value > 0,
                 lista_semaforos' =
                   [lista_semaforos EXCEPT ![k].value = @ - 1],
                 tiene' = [tiene EXCEPT ![p] = @ \cup {n}]
          PROVE  /\ TareasEnOrden' /\ EsperanSinTener'
                 /\ \A m \in Nombres : UnidadDe(m)'
      <3>1. /\ lista_semaforos[k] \in Semaforo /\ k # 0
            /\ lista_semaforos[k].value \in Int
        BY <1>t, TiposDeListas
      <3>2. /\ DOMAIN lista_semaforos' = DOMAIN lista_semaforos
            /\ \A m \in DOMAIN lista_semaforos :
                 /\ lista_semaforos'[m].nombre = lista_semaforos[m].nombre
                 /\ lista_semaforos'[m].solicitantes
                      = lista_semaforos[m].solicitantes
                 /\ lista_semaforos'[m].value =
                      IF m = k THEN lista_semaforos[k].value - 1
                      ELSE lista_semaforos[m].value
        BY <2>7, <3>1 DEF Semaforo
      <3>3. /\ n \in tiene'[p]
            /\ \A q \in Procesos \ {p} : tiene'[q] = tiene[q]
            /\ \A q \in Procesos, m \in Nombres \ {n} :
                 m \in tiene'[q] <=> m \in tiene[q]
        BY <1>d, <2>7
      <3>4. TareasEnOrden'
        BY <1>3, <2>1, <3>3
      <3>5. EsperanSinTener'
        <4>1. \A q \in Procesos, m, i \in Nat :
                Esta(q, m, i)' <=> Esta(q, m, i)
          BY <3>2 DEF Esta
        <4>2. \A q \in Procesos, m, i \in Nat :
                Esta(q, m, i)' => /\ m \in DOMAIN lista_semaforos
                                  /\ q # p
          BY <2>2, <4>1 DEF EnAlguna, Esta
        <4> QED
          BY <1>t, <3>2, <3>3, <4>1, <4>2 DEF EsperanSinTener
      <3>6. UnidadDe(n)'
        <4>1. lista_semaforos[k].nombre = n
          BY <2>7, <3>1 DEF EsIndice
        <4>2. PICK j \in DOMAIN lista_semaforos :
                /\ EsIndice(j, n)
                /\ \/ /\ lista_semaforos[j].value = 1
                      /\ \A q \in Procesos : n \notin tiene[q]
                   \/ lista_semaforos[j].value <= 0
          BY <1>t, <2>2, <4>1 DEF UnidadDe
        <4>3. j = k
          BY <1>t, <2>7, <4>2, UnSoloIndice
        <4>4. /\ lista_semaforos[k].value = 1
              /\ \A q \in Procesos : n \notin tiene[q]
          BY <2>7, <3>1, <4>2, <4>3
        <4>5. /\ lista_semaforos'[k].value <= 0
              /\ \A q \in Procesos : n \in tiene'[q] <=> q = p
          BY <3>2, <3>3, <4>4
        <4>6. EsIndice(k, n)'
          BY <2>7, <3>2, MismosIndices
        <4> QED
          BY <3>1, <3>2, <4>5, <4>6 DEF UnidadDe
      <3>7. ASSUME NEW m \in Nombres, m # n PROVE UnidadDe(m)'
        <4>1. \A j \in DOMAIN lista_semaforos :
                lista_semaforos[j].nombre = m =>
                  lista_semaforos'[j].value = lista_semaforos[j].value
          BY <2>7, <3>1, <3>2, <3>7 DEF EsIndice
        <4>2. \A q \in Procesos : m \in tiene'[q] <=> m \in tiene[q]
          BY <3>3, <3>7
        <4> QED
          BY <1>t, <3>2, <4>1, <4>2, UnidadAjena
      <3> QED
        BY <3>4, <3>5, <3>6, <3>7
    <2>8. ASSUME NEW k \in DOMAIN lista_semaforos, EsIndice(k, n),
                 lista_semaforos[k].value <= 0,
                 lista_semaforos' = [lista_semaforos EXCEPT
                   ![k].value = @ - 1, ![k].solicitantes = Append(@, p)],
                 tiene' = tiene
          PROVE  /\ TareasEnOrden' /\ EsperanSinTener'
                 /\ \A m \in Nombres : UnidadDe(m)'
      <3>1. /\ lista_semaforos[k] \in Semaforo /\ k # 0 /\ k \in Nat
            /\ lista_semaforos[k].value \in Int
            /\ lista_semaforos[k].nombre = n
            /\ lista_semaforos[k].solicitantes \in Seq(Procesos)
            /\ Len(lista_semaforos[k].solicitantes) \in Nat
        <4>1. /\ k \in Nat /\ k \in 1..Len(lista_semaforos)
              /\ Len(lista_semaforos) \in Nat
          BY <1>t, TiposDeListas
        <4>2. k # 0
          BY <4>1
        <4> QED
          BY <1>t, <2>8, <4>1, <4>2, TiposDeListas DEF EsIndice
      <3>2. /\ DOMAIN lista_semaforos' = DOMAIN lista_semaforos
            /\ \A m \in DOMAIN lista_semaforos :
                 /\ lista_semaforos'[m].nombre = lista_semaforos[m].nombre
                 /\ lista_semaforos'[m].solicitantes =
                      IF m = k THEN Append(lista_semaforos[k].solicitantes, p)
                      ELSE lista_semaforos[m].solicitantes
                 /\ lista_semaforos'[m].value =
                      IF m = k THEN lista_semaforos[k].value - 1
                      ELSE lista_semaforos[m].value
        BY <2>8, <3>1 DEF Semaforo
      <3>3. TareasEnOrden'
        BY <1>3, <2>1, <2>8
      <3>4. EsperanSinTener'
        <4>1. ASSUME NEW q \in Procesos, NEW m \in Nat, NEW i \in Nat,
                     Esta(q, m, i)'
              PROVE  /\ m \in DOMAIN lista_semaforos
                     /\ Esta(q, m, i) \/ (q = p /\ m = k)
          <5>1. m \in DOMAIN lista_semaforos
            BY <3>2, <4>1 DEF Esta
          <5>2. CASE m # k
            BY <3>2, <4>1, <5>1, <5>2 DEF Esta
          <5>3. CASE m = k
            <6> DEFINE c == lista_semaforos[k].solicitantes
            <6>1. /\ i \in DOMAIN Append(c, p) /\ Append(c, p)[i] = q
              BY <3>2, <4>1, <5>1, <5>3 DEF Esta
            <6>2. c \in Seq(Procesos)
              BY <3>1
            <6>3. Esta(q, m, i) <=> i \in DOMAIN c /\ c[i] = q
              BY <5>3 DEF Esta
            <6> HIDE DEF c
            <6>4. q = p \/ (i \in DOMAIN c /\ c[i] = q)
              BY <6>1, <6>2
            <6> QED
              BY <5>1, <5>3, <6>3, <6>4
          <5> QED
            BY <5>2, <5>3
        <4> QED
          BY <1>t, <2>2, <2>8, <3>1, <3>2, <4>1 DEF EsperanSinTener
      <3>5. UnidadDe(n)'
        <4>1. PICK j \in DOMAIN lista_semaforos :
                /\ EsIndice(j, n)
                /\ \/ /\ lista_semaforos[j].value = 1
                      /\ \A q \in Procesos : n \notin tiene[q]
                   \/ /\ lista_semaforos[j].value <= 0
                      /\ \E o \in Procesos : \A q \in Procesos :
                           n \in tiene[q] <=> q = o
          BY <1>t, <3>1 DEF UnidadDe
        <4>2. j = k
          BY <1>t, <2>8, <4>1, UnSoloIndice
        <4>3. \E o \in Procesos : \A q \in Procesos :
                n \in tiene'[q] <=> q = o
          BY <2>8, <4>1, <4>2
        <4>4. lista_semaforos'[k].value <= 0
          <5>1. lista_semaforos'[k].value = lista_semaforos[k].value - 1
            BY <3>2
          <5>2. lista_semaforos[k].value <= 0
            BY <2>8
          <5> QED
            BY <3>1, <5>1, <5>2
        <4>5. EsIndice(k, n)'
          BY <2>8, <3>2, MismosIndices
        <4> QED
          BY <3>1, <3>2, <4>3, <4>4, <4>5 DEF UnidadDe
      <3>6. ASSUME NEW m \in Nombres, m # n PROVE UnidadDe(m)'
        <4>1. \A j \in DOMAIN lista_semaforos :
                lista_semaforos[j].nombre = m =>
                  lista_semaforos'[j].value = lista_semaforos[j].value
          BY <3>1, <3>2, <3>6
        <4> QED
          BY <1>t, <2>8, <3>2, <4>1, UnidadAjena
      <3> QED
        BY <3>3, <3>4, <3>5, <3>6
    <2> QED
      BY <1>6, <2>5, <2>6, <2>7, <2>8, <2>n DEF Solicita
  <1>7. ASSUME NEW p \in Procesos, Postea(p)
        PROVE  /\ TareasEnOrden' /\ EsperanSinTener'
               /\ \A n \in Nombres : UnidadDe(n)'
    <2>1. /\ tarea[p].op = "post" /\ caido = "no" /\ salida' = salida
          /\ tarea' = [tarea EXCEPT ![p] = Ninguna]
          /\ Postear(lista_recursos_asignados, tarea[p].nombre, Colgado, p)
      BY <1>7 DEF Postea, EnSeccion
    <2>2. PICK n \in Nombres : n = tarea[p].nombre
      BY <1>5, <2>1
    <2>3. estado[p] = "corre" /\ ~EnAlguna(p) /\ n \in tiene[p]
      BY <1>5, <1>t, <2>1, <2>2 DEF TareasEnOrden
    <2>4. PICK k \in DOMAIN lista_semaforos :
            /\ EsIndice(k, n) /\ k # 0 /\ lista_semaforos[k].value <= 0
            /\ \A q \in Procesos : n \in tiene[q] <=> q = p
      BY <1>t, <2>3 DEF UnidadDe
    <2>5. /\ lista_semaforos[k] \in Semaforo /\ k \in Nat
          /\ lista_semaforos[k].value \in Int
          /\ lista_semaforos[k].nombre = n
          /\ lista_semaforos[k].solicitantes \in Seq(Procesos)
      BY <1>t, <2>4, TiposDeListas DEF EsIndice
    \* what a post leaves to the other names
    <2>6. ASSUME NEW v \in Int, NEW d,
                 lista_semaforos' = [lista_semaforos EXCEPT
                   ![k].value = v, ![k].solicitantes = d],
                 \A q \in Procesos, m \in Nombres \ {n} :
                   m \in tiene'[q] <=> m \in tiene[q]
          PROVE  /\ DOMAIN lista_semaforos' = DOMAIN lista_semaforos
                 /\ \A m \in DOMAIN lista_semaforos :
                      /\ lista_semaforos'[m].nombre = lista_semaforos[m].nombre
                      /\ lista_semaforos'[m].solicitantes =
                           IF m = k THEN d ELSE lista_semaforos[m].solicitantes
                      /\ lista_semaforos'[m].value =
                           IF m = k THEN v ELSE lista_semaforos[m].value
                 /\ EsIndice(k, n)'
                 /\ \A m \in Nombres \ {n} : UnidadDe(m)'
      <3>1. /\ DOMAIN lista_semaforos' = DOMAIN lista_semaforos
            /\ \A m \in DOMAIN lista_semaforos :
                 /\ lista_semaforos'[m].nombre = lista_semaforos[m].nombre
                 /\ lista_semaforos'[m].solicitantes =
                      IF m = k THEN d ELSE lista_semaforos[m].solicitantes
                 /\ lista_semaforos'[m].value =
                      IF m = k THEN v ELSE lista_semaforos[m].value
        BY <2>5, <2>6 DEF Semaforo
      <3>2. EsIndice(k, n)'
        BY <2>4, <3>1, MismosIndices
      <3>3. ASSUME NEW m \in Nombres, m # n PROVE UnidadDe(m)'
        <4>1. \A j \in DOMAIN lista_semaforos :
                lista_semaforos[j].nombre = m =>
                  lista_semaforos'[j].value = lista_semaforos[j].value
          BY <2>5, <3>1, <3>3
        <4> QED
          BY <1>t, <2>6, <3>1, <3>3, <4>1, UnidadAjena
      <3> QED
        BY <3>1, <3>2, <3>3
    <2>7. CASE PosteNulo(n)
      BY <2>5, <2>7 DEF PosteNulo
    <2>8. CASE PosteSuma(k, n, p)
      <3> DEFINE v == lista_semaforos[k].value
      <3>1. /\ v = 0 /\ lista_semaforos[k].solicitantes = <<>>
            /\ UNCHANGED <<estado, caido>>
            /\ tiene' = [tiene EXCEPT ![p] = @ \ {n}]
            /\ lista_semaforos' = [lista_semaforos EXCEPT
                 ![k].value = v + 1, ![k].solicitantes = <<>>]
        BY <2>4, <2>5, <2>8 DEF PosteSuma
      <3>2. lista_semaforos' = [lista_semaforos EXCEPT
                 ![k].value = 1, ![k].solicitantes = <<>>]
        BY <3>1
      <3>3. /\ \A q \in Procesos : n \notin tiene'[q]
            /\ \A q \in Procesos \ {p} : tiene'[q] = tiene[q]
            /\ \A q \in Procesos, m \in Nombres \ {n} :
                 m \in tiene'[q] <=> m \in tiene[q]
        BY <1>d, <2>4, <3>1
      <3> HIDE DEF v
      <3>4. /\ DOMAIN lista_semaforos' = DOMAIN lista_semaforos
            /\ \A m \in DOMAIN lista_semaforos :
                 /\ lista_semaforos'[m].nombre = lista_semaforos[m].nombre
                 /\ lista_semaforos'[m].solicitantes =
                      IF m = k THEN <<>> ELSE lista_semaforos[m].solicitantes
                 /\ lista_semaforos'[m].value =
                      IF m = k THEN 1 ELSE lista_semaforos[m].value
            /\ EsIndice(k, n)'
            /\ \A m \in Nombres \ {n} : UnidadDe(m)'
        <4>1. 1 \in Int
          OBVIOUS
        <4> QED
          BY <2>6, <3>2, <3>3, <4>1
      <3>5. UnidadDe(n)'
        BY <2>4, <3>3, <3>4 DEF UnidadDe
      <3>6. EsperanSinTener'
        <4>1. \A m \in DOMAIN lista_semaforos :
                lista_semaforos'[m].solicitantes
                  = lista_semaforos[m].solicitantes
          BY <3>1, <3>4
        <4>2. \A q \in Procesos, m, i \in Nat :
                Esta(q, m, i)' <=> Esta(q, m, i)
          BY <3>4, <4>1 DEF Esta
        <4>3. \A q \in Procesos, m, i \in Nat :
                Esta(q, m, i) => m \in DOMAIN lista_semaforos
          BY DEF Esta
        <4>4. \A q \in Procesos : tiene'[q] \subseteq tiene[q]
          BY <1>d, <3>1
        <4> QED
          BY <1>t, <3>4, <4>2, <4>3, <4>4 DEF EsperanSinTener
      <3>7. TareasEnOrden'
        BY <1>3, <2>1, <3>1, <3>3
      <3> QED
        BY <3>4, <3>5, <3>6, <3>7
    <2>9. ASSUME NEW q \in Procesos, PosteEntrega(k, n, p, q)
          PROVE  /\ TareasEnOrden' /\ EsperanSinTener'
                 /\ \A m \in Nombres : UnidadDe(m)'
      <3> DEFINE v == lista_semaforos[k].value
                 c == lista_semaforos[k].solicitantes
                 d == Tail(c)
      <3>1. /\ v \in Int /\ v < 0 /\ c \in Seq(Procesos) /\ c # <<>>
            /\ q = c[1] /\ Len(c) \in Nat /\ DOMAIN c = 1..Len(c)
            /\ 1 \in DOMAIN c
        <4>1. /\ v \in Int /\ v < 0 /\ c \in Seq(Procesos) /\ c # <<>>
              /\ q = c[1] /\ Len(c) \in Nat /\ DOMAIN c = 1..Len(c)
          BY <1>t, <2>9, TiposDeListas DEF PosteEntrega
        <4> HIDE DEF v, c, d
        <4>2. Len(c) # 0
          BY <4>1, EmptySeq
        <4>3. 1 \in DOMAIN c
          BY <4>1, <4>2
        <4> QED
          BY <4>1, <4>3
      <3>2. /\ d \in Seq(Procesos) /\ Len(d) = Len(c) - 1
            /\ \A j \in 1..Len(d) : d[j] = IF j < 1 THEN c[j] ELSE c[j + 1]
        <4> HIDE DEF c, v
        <4> QED
          BY <3>1, HeadTailProperties
      <3>3. EnAlguna(q)
        BY <2>5, <3>1 DEF EnAlguna, Esta
      <3>4. estado[q] = "bloqueado" /\ UnLugar(q) /\ q # p
        BY <1>t, <2>1, <2>3, <3>3 DEF ColasExactas, NadieSalio
      <3>5. /\ estado' = [estado EXCEPT ![q] = "corre"]
            /\ tiene' = [tiene EXCEPT ![p] = @ \ {n}, ![q] = @ \cup {n}]
            /\ lista_semaforos' = [lista_semaforos EXCEPT
                 ![k].value = v + 1, ![k].solicitantes = d]
        BY <2>9, <3>4 DEF PosteEntrega
      <3>6. /\ \A o \in Procesos : n \in tiene'[o] <=> o = q
            /\ \A o \in Procesos \ {p, q} : tiene'[o] = tiene[o]
            /\ \A o \in Procesos, m \in Nombres \ {n} :
                 m \in tiene'[o] <=> m \in tiene[o]
        BY <1>d, <2>4, <3>4, <3>5
      <3>7. v + 1 \in Int /\ v + 1 <= 0
        <4> HIDE DEF v
        <4> QED
          BY <3>1
      <3> HIDE DEF v, d
      <3>8. /\ DOMAIN lista_semaforos' = DOMAIN lista_semaforos
            /\ \A m \in DOMAIN lista_semaforos :
                 /\ lista_semaforos'[m].nombre = lista_semaforos[m].nombre
                 /\ lista_semaforos'[m].solicitantes =
                      IF m = k THEN d ELSE lista_semaforos[m].solicitantes
                 /\ lista_semaforos'[m].value =
                      IF m = k THEN v + 1 ELSE lista_semaforos[m].value
            /\ EsIndice(k, n)'
            /\ \A m \in Nombres \ {n} : UnidadDe(m)'
        BY <2>6, <3>5, <3>6, <3>7
      <3>9. UnidadDe(n)'
        BY <2>4, <3>6, <3>7, <3>8 DEF UnidadDe
      <3>10. EsperanSinTener'
        <4>1. \A x \in Procesos :
                /\ x # q => (EnAlguna(x)' <=> EnAlguna(x))
                /\ x = q => ~EnAlguna(x)'
          <5>1. \A x \in Procesos :
                  /\ x # c[1] => (EnAlguna(x)' <=> EnAlguna(x))
                  /\ x = c[1] /\ UnLugar(x) => ~EnAlguna(x)'
            BY <1>t, <3>1, <3>2, <3>8, QuitaDeCola
          <5> HIDE DEF c
          <5> QED
            BY <3>1, <3>4, <5>1
        <4>2. ASSUME NEW x \in Procesos, NEW m \in Nat, NEW i \in Nat,
                     Esta(x, m, i)'
              PROVE  /\ x # q /\ x # p /\ m \in DOMAIN lista_semaforos
                     /\ \E j \in Nat : Esta(x, m, j)
          <5>1. EnAlguna(x)'
            BY <4>2 DEF EnAlguna
          <5>2. x # q /\ x # p
            BY <2>3, <3>4, <4>1, <5>1
          <5>3. m \in DOMAIN lista_semaforos
            BY <3>8, <4>2 DEF Esta
          <5>4. CASE m # k
            BY <3>8, <4>2, <5>2, <5>3, <5>4 DEF Esta
          <5>5. CASE m = k
            <6>1. i \in DOMAIN d /\ d[i] = x
              BY <3>8, <4>2, <5>3, <5>5 DEF Esta
            <6>2. Esta(x, m, i + 1) <=> i + 1 \in DOMAIN c /\ c[i + 1] = x
              BY <5>5 DEF Esta
            <6> HIDE DEF c
            <6>3. i \in 1..Len(d) /\ i \in Nat
              BY <3>2, <6>1, LenProperties
            <6>4. d[i] = c[i + 1] /\ i + 1 \in DOMAIN c /\ i + 1 \in Nat
              BY <3>1, <3>2, <6>3
            <6> QED
              BY <5>2, <5>3, <6>1, <6>2, <6>4
          <5> QED
            BY <5>4, <5>5
        <4> QED
          BY <1>t, <3>6, <3>8, <4>2 DEF EsperanSinTener
      <3>11. TareasEnOrden'
        <4>1. tarea[q] = Ninguna /\ Ninguna.op = "ninguna"
          BY <1>t, <3>4 DEF TareasYEstados, Ninguna
        <4> QED
          BY <1>3, <2>1, <3>6, <4>1
      <3> QED
        BY <3>8, <3>9, <3>10, <3>11
    <2> QED
      <3>1. n \in Nombres \cup {Colgado} /\ Colgado \in Nombres \cup {Colgado}
        OBVIOUS
      <3>2. \/ PosteNulo(n)
            \/ \E j \in DOMAIN lista_semaforos :
                 \/ PosteSuma(j, n, p)
                 \/ \E q \in Procesos : PosteEntrega(j, n, p, q)
        BY <1>t, <1>d, <2>1, <2>2, <3>1, PosteaEfecto
      <3>3. \A j \in DOMAIN lista_semaforos : EsIndice(j, n) => j = k
        BY <1>t, <2>4, UnSoloIndice
      <3>4. \/ PosteNulo(n) \/ PosteSuma(k, n, p)
            \/ \E q \in Procesos : PosteEntrega(k, n, p, q)
        BY <3>2, <3>3 DEF PosteSuma, PosteEntrega
      <3> QED
        BY <2>7, <2>8, <2>9, <3>4
  <1>8. ASSUME NEW p \in Procesos, TomaMutexSemaforos(p) \/ TomaMutexRecursos(p)
        PROVE  /\ TareasEnOrden' /\ EsperanSinTener'
               /\ \A n \in Nombres : UnidadDe(n)'
    <2>1. UNCHANGED <<lista_semaforos, estado, salida, tiene, tarea>>
      BY <1>8 DEF TomaMutexSemaforos, TomaMutexRecursos, listas
    <2> QED
      BY <1>q, <1>t, <2>1 DEF TareasEnOrden
  <1>9. ASSUME NEW p \in Procesos, Destruye(p) PROVE FALSE
    BY <1>9, <1>t, TareasDeMutex DEF Destruye, EnSeccion
  <1>10. CASE SalidaTomaRecursos
    <2>1. UNCHANGED <<lista_semaforos, tiene, tarea>>
      BY <1>10 DEF SalidaTomaRecursos, listas
    <2> QED
      BY <1>q, <1>t, <2>1 DEF TareasEnOrden
  <1>11. ASSUME NEW p \in Procesos, SalidaTomaSemaforos(p) PROVE FALSE
    <2>1. estado'[p] = "fuera"
      BY <1>11, <1>d DEF SalidaTomaSemaforos
    <2> QED
      BY <2>1 DEF NadieSalio
  <1>13. ~SalidaSolicitud /\ ~SalidaRecurso
    <2> SUFFICES ASSUME SalidaSolicitud \/ SalidaRecurso PROVE FALSE
      OBVIOUS
    <2>1. salida.id \in Procesos
      BY <1>t, TiposDeSalida DEF SalidaSolicitud, SalidaRecurso
    <2>2. estado[salida.id] = "fuera"
      BY <1>t DEF SalidaEnCurso, SalidaSolicitud, SalidaRecurso
    <2> QED
      BY <1>t, <2>1, <2>2 DEF NadieSalio
  <1>12. CASE UNCHANGED vars
    <2>1. UNCHANGED <<lista_semaforos, estado, salida, tiene, tarea>>
      BY <1>12 DEF vars, cambian, listas
    <2> QED
      BY <1>q, <1>t, <2>1 DEF TareasEnOrden
  <1> QED
    BY <1>1, <1>2, <1>4, <1>6, <1>7, <1>8, <1>9, <1>10, <1>11, <1>12, <1>13
    DEF Next, Paso, Ejecuta
-----------------------------------------------------------------------------
(* The theorems *)

\* The places of a carpincho counted.
LEMMA LugaresContados ==
  ASSUME TypeOK, NEW p \in Procesos, UnLugar(p)
  PROVE  Cardinality(Lugares(p)) = IF EnAlguna(p) THEN 1 ELSE 0
  <1>1. \A k \in DOMAIN lista_semaforos :
          k \in Nat /\ \A i \in DOMAIN lista_semaforos[k].solicitantes : i \in Nat
    BY TiposDeListas
  <1>2. \A x : x \in Lugares(p) <=>
                 \E k, i \in Nat : Esta(p, k, i) /\ x = <<k, i>>
    BY <1>1 DEF Lugares, Esta
  <1>3. CASE EnAlguna(p)
    <2>1. PICK k \in Nat, i \in Nat : Esta(p, k, i)
      BY <1>3 DEF EnAlguna
    <2>2. Lugares(p) = {<<k, i>>}
      BY <1>2, <2>1 DEF UnLugar
    <2> QED
      BY <1>3, <2>2, FS_Singleton
  <1>4. CASE ~EnAlguna(p)
    <2>1. Lugares(p) = {}
      BY <1>2, <1>4 DEF EnAlguna
    <2> QED
      BY <1>4, <2>1, FS_EmptySet
  <1> QED
    BY <1>3, <1>4

LEMMA Inductivo == Spec => [](IInv /\ InvMutex)
  <1>1. Init => IInv /\ InvMutex
    BY InvInicial, MutexInicial
  <1>2. IInv /\ InvMutex /\ [Next]_vars => (IInv /\ InvMutex)'
    <2>1. [Next]_vars => escenario' = escenario
      BY DEF Next, vars
    <2> QED
      BY <2>1, TipoInductivo, ColasInductivas, TareasInductivas,
         MutexInductivo
      DEF IInv
  <1> QED
    BY <1>1, <1>2, PTL DEF Spec

\* The types of the module, for any carpinchos, names and scenario.
THEOREM TipoCorrecto == Spec => []TypeOK
  <1>1. IInv => TypeOK
    BY DEF IInv
  <1> QED
    BY <1>1, Inductivo, PTL

\* A negative value is always the number of carpinchos in the queue: a post
\* that finds one has somebody to wake up, and one that does not finds the
\* queue empty.
THEOREM ValoresYColas == Spec => []ValorYSolicitantes
  <1>1. IInv => ValorYSolicitantes
    BY DEF IInv
  <1> QED
    BY <1>1, Inductivo, PTL

\* No wake-up is lost and none is made twice: who is blocked for a semaphore
\* is in one queue, once, and who runs is in none, also with exits that take
\* requests out of the middle of the queues and with destructions.
THEOREM BloqueadosEnUnaCola == Spec => []BloqueadoEnUnaCola
  <1>1. IInv => BloqueadoEnUnaCola
    <2> SUFFICES ASSUME IInv, caido = "no", NEW p \in Procesos,
                        estado[p] # "fuera"
                 PROVE  Cardinality(Lugares(p)) =
                          IF estado[p] = "bloqueado" /\ p \notin sin_semaforo
                          THEN 1 ELSE 0
      BY DEF BloqueadoEnUnaCola, Fuera
    <2>1. /\ UnLugar(p)
          /\ EnAlguna(p) <=> (estado[p] = "bloqueado" /\ p \notin sin_semaforo)
      BY DEF IInv, ColasExactas
    <2>2. Cardinality(Lugares(p)) = IF EnAlguna(p) THEN 1 ELSE 0
      BY <2>1, LugaresContados DEF IInv
    <2> QED
      BY <2>1, <2>2
  <1> QED
    BY <1>1, Inductivo, PTL

\* The unit of a semaphore that is used as a mutex is in one place.
THEOREM UnaSolaUnidad == Spec => []UnaUnidad
  <1>1. IInv /\ InvMutex => UnaUnidad
    <2> SUFFICES ASSUME IInv, InvMutex, ComoMutex, Fuera = {},
                        NEW n \in Nombres, NEW k \in Indices, EsIndice(k, n), k # 0
                 PROVE  Cardinality(Tienen(n)) +
                          (IF lista_semaforos[k].value > 0
                           THEN lista_semaforos[k].value ELSE 0) = 1
      BY DEF UnaUnidad
    <2>1. TypeOK /\ UnidadDe(n)
      BY DEF IInv, InvMutex, Fuera, NadieSalio
    <2>2. k \in DOMAIN lista_semaforos
      BY <2>1, LenProperties DEF TypeOK, Indices
    <2>3. PICK j \in DOMAIN lista_semaforos :
            /\ EsIndice(j, n)
            /\ \/ /\ lista_semaforos[j].value = 1
                  /\ \A p \in Procesos : n \notin tiene[p]
               \/ /\ lista_semaforos[j].value <= 0
                  /\ \E p \in Procesos : \A q \in Procesos :
                       n \in tiene[q] <=> q = p
      BY <2>1, <2>2 DEF UnidadDe, EsIndice
    <2>4. j = k
      BY <2>1, <2>2, <2>3, UnSoloIndice
    <2>5. lista_semaforos[k].value \in Int
      BY <2>1, <2>2, TiposDeListas
    <2>6. CASE /\ lista_semaforos[k].value = 1
               /\ \A p \in Procesos : n \notin tiene[p]
      <3>1. Tienen(n) = {}
        BY <2>6 DEF Tienen
      <3> QED
        BY <2>6, <3>1, FS_EmptySet
    <2>7. ASSUME lista_semaforos[k].value <= 0, NEW p \in Procesos,
                 \A q \in Procesos : n \in tiene[q] <=> q = p
          PROVE  Cardinality(Tienen(n)) +
                          (IF lista_semaforos[k].value > 0
                           THEN lista_semaforos[k].value ELSE 0) = 1
      <3>1. Tienen(n) = {p}
        BY <2>7 DEF Tienen
      <3>2. Cardinality(Tienen(n)) = 1
        BY <3>1, FS_Singleton
      <3> QED
        BY <2>5, <2>7, <3>2
    <2> QED
      BY <2>3, <2>4, <2>6, <2>7
  <1> QED
    BY <1>1, Inductivo, PTL
-----------------------------------------------------------------------------
(* The search of the detector *)

\* CHOOSE among one.
LEMMA UnicoEsEl == ASSUME NEW x PROVE Unico({x}) = x
  BY DEF Unico

\* The first semaphore in whose queue q is.
LEMMA EsperaEnUna ==
  ASSUME TypeOK, NEW q
  PROVE  /\ EsperaEn(q) \in 0..Len(lista_semaforos)
         /\ EsperaEn(q) # 0 => EsperaEn(q) \in DOMAIN lista_semaforos
         /\ EsperaEn(q) # 0 =>
              \E i \in DOMAIN lista_semaforos[EsperaEn(q)].solicitantes :
                lista_semaforos[EsperaEn(q)].solicitantes[i] = q
         /\ EsperaEn(q) = 0 =>
              \A k \in DOMAIN lista_semaforos :
                \A i \in DOMAIN lista_semaforos[k].solicitantes :
                  lista_semaforos[k].solicitantes[i] # q
  <1> DEFINE L == Len(lista_semaforos)
             S == {k \in 1..L : q \in Range(lista_semaforos[k].solicitantes)}
  <1>1. L \in Nat /\ DOMAIN lista_semaforos = 1..L
    BY LenProperties DEF TypeOK
  <1>2. EsperaEn(q) = IF S # {} THEN Min(S) ELSE 0
    BY DEF EsperaEn, SelectInSeq
  <1>3. S \in SUBSET (1..L)
    OBVIOUS
  <1>4. S # {} => Min(S) \in S
    <2>1. S # {} => \E i \in S : \A j \in S : i <= j
      <3> HIDE DEF S, L
      <3>1. IsFiniteSet(1..L) /\ 1..L \subseteq Int
        BY <1>1, FS_Interval
      <3>2. IsFiniteSet(S)
        BY <1>3, <3>1, FS_Subset
      <3>3. S \in SUBSET Int
        BY <1>3, <3>1
      <3> QED
        BY <3>2, <3>3, MinimoExiste
    <2> HIDE DEF S
    <2> QED
      BY <2>1 DEF Min
  <1>5. \A k \in 1..L : q \in Range(lista_semaforos[k].solicitantes) <=>
          \E i \in DOMAIN lista_semaforos[k].solicitantes :
                lista_semaforos[k].solicitantes[i] = q
    BY DEF Range
  <1>6. \A k \in 1..L : k \in S <=>
          q \in Range(lista_semaforos[k].solicitantes)
    OBVIOUS
  <1> HIDE DEF S
  <1>7. CASE S = {}
    BY <1>1, <1>2, <1>5, <1>6, <1>7
  <1>8. CASE S # {}
    <2>1. EsperaEn(q) \in S /\ EsperaEn(q) \in 1..L
      BY <1>2, <1>3, <1>4, <1>8
    <2>2. EsperaEn(q) # 0 /\ EsperaEn(q) \in 0..L
      BY <1>1, <2>1
    <2> QED
      BY <1>1, <1>5, <1>6, <2>1, <2>2
  <1> QED
    BY <1>7, <1>8

\* The calls of proceso_en_deadlock one after the other
Llamadas(L, b, f) ==
  f = [n \in 0..(Cardinality(Procesos) + 1) |->
         IF n = 0 THEN b ELSE UnaLlamada(L, f[n - 1])]

LEMMA LlamadasExisten ==
  ASSUME NEW L, NEW b
  PROVE  \E f : /\ Llamadas(L, b, f)
                /\ ProcesoEnDeadlock(L, b) = f[Cardinality(Procesos) + 1]
  <1> DEFINE K == Cardinality(Procesos) + 1
             U(x) == UnaLlamada(L, x)
             Hasta(m, g) == g = [n \in 0..m |-> IF n = 0 THEN b
                                                ELSE U(g[n - 1])]
  <1>1. K \in Nat
    BY ProcesosFinitos, FS_CardinalityType
  <1>2. \A x : Unico({UnaLlamada(L, c) : c \in {x}}) = U(x)
    <2> TAKE x
    <2>1. {UnaLlamada(L, c) : c \in {x}} = {U(x)}
      OBVIOUS
    <2> QED
      BY <2>1, UnicoEsEl
  <1>3. ProcesoEnDeadlock(L, b) = (CHOOSE f : Llamadas(L, b, f))[K]
    BY <1>2 DEF ProcesoEnDeadlock, Llamadas
  <1>4. \A m \in 0..K : \E g : Hasta(m, g)
    <2> HIDE DEF U, K
    <2> DEFINE S == {m \in 0..K : ~\E g : Hasta(m, g)}
    <2> SUFFICES ASSUME S # {} PROVE FALSE
      OBVIOUS
    <2>1. PICK m \in S : \A j \in S : m <= j
      <3>1. IsFiniteSet(0..K)
        BY <1>1, FS_Interval
      <3>2. S \in SUBSET (0..K)
        OBVIOUS
      <3> HIDE DEF S
      <3>3. 0..K \subseteq Int
        BY <1>1
      <3>4. IsFiniteSet(S) /\ S \in SUBSET Int
        BY <3>1, <3>2, <3>3, FS_Subset
      <3> QED
        BY <3>4, MinimoExiste
    <2>2. m \in 0..K /\ ~\E g : Hasta(m, g)
      BY <2>1
    <2>3. CASE m = 0
      <3>1. Hasta(0, [n \in 0..0 |-> b])
        OBVIOUS
      <3> QED
        BY <2>2, <2>3, <3>1
    <2>4. CASE m # 0
      <3>1. m - 1 \in 0..K /\ m - 1 \notin S
        BY <1>1, <2>1, <2>2, <2>4
      <3>2. PICK g : Hasta(m - 1, g)
        BY <3>1
      <3> DEFINE h == [n \in 0..m |-> IF n = m THEN U(g[m - 1]) ELSE g[n]]
      <3>3. \A n \in 0..m : h[n] = IF n = 0 THEN b ELSE U(h[n - 1])
        <4> TAKE n \in 0..m
        <4>1. CASE n = m
          BY <1>1, <2>2, <2>4, <4>1
        <4>2. CASE n # m
          <5>1. n \in 0..(m - 1) /\ h[n] = g[n]
            BY <1>1, <2>2, <4>2
          <5>2. g[n] = IF n = 0 THEN b ELSE U(g[n - 1])
            BY <3>2, <5>1
          <5>3. n # 0 => h[n - 1] = g[n - 1]
            BY <1>1, <2>2, <5>1
          <5> QED
            BY <5>1, <5>2, <5>3
        <4> QED
          BY <4>1, <4>2
      <3>4. Hasta(m, h)
        BY <3>3
      <3> QED
        BY <2>2, <3>4
    <2> QED
      BY <2>3, <2>4
  <1>5. \E f : Llamadas(L, b, f)
    BY <1>1, <1>4 DEF Llamadas
  <1> QED
    BY <1>3, <1>5

-----------------------------------------------------------------------------
(* The semaphores beside the detector *)

\* What lista_recursos_asignados says is who has what, each thing once.
Entradas ==
  /\ \A i \in DOMAIN lista_recursos_asignados :
       lista_recursos_asignados[i].nombre_recurso
         \in tiene[lista_recursos_asignados[i].id_asignado]
  /\ \A p \in Procesos : \A n \in tiene[p] :
       \E i \in DOMAIN lista_recursos_asignados :
         lista_recursos_asignados[i] = Asignado(n, p)
  /\ Unica(lista_recursos_asignados)

\* the time of which the theorems on the search speak
Tranquilo == caido = "no" /\ colgo = 0 /\ ComoMutex /\ NadieSalio

\* what they need of it
Ordenado == Tranquilo /\ IInv /\ InvMutex /\ Entradas

\* A semaphore has one holder at most.
LEMMA UnDueno ==
  ASSUME Ordenado, NEW n \in Nombres, NEW p \in Procesos, n \in tiene[p]
  PROVE  Tienen(n) = {p}
  <1>1. UnidadDe(n)
    BY DEF Ordenado, InvMutex, Tranquilo
  <1>2. \A q \in Procesos : n \in tiene[q] => q = p
    BY <1>1 DEF UnidadDe
  <1> QED
    BY <1>2 DEF Tienen

\* Who is in a queue is blocked, and waits for its semaphore alone.
LEMMA EsperaUna ==
  ASSUME Ordenado, NEW q \in Procesos, NEW k \in DOMAIN lista_semaforos,
         NEW i \in DOMAIN lista_semaforos[k].solicitantes,
         lista_semaforos[k].solicitantes[i] = q
  PROVE  /\ estado[q] = "bloqueado"
         /\ Espera(q) = {lista_semaforos[k].nombre}
         /\ lista_semaforos[k].nombre \in Nombres
  <1>1. /\ TypeOK /\ caido = "no" /\ estado[q] # "fuera" /\ ColasExactas
    BY DEF Ordenado, IInv, Tranquilo, NadieSalio
  <1>2. \A m \in DOMAIN lista_semaforos :
          /\ m \in Nat /\ lista_semaforos[m].nombre \in Nombres
          /\ \A j \in DOMAIN lista_semaforos[m].solicitantes : j \in Nat
    BY <1>1, TiposDeListas
  <1>3. k \in Nat /\ i \in Nat /\ Esta(q, k, i)
    BY <1>2 DEF Esta
  <1>4. EnAlguna(q)
    BY <1>3 DEF EnAlguna
  <1>5. estado[q] = "bloqueado" /\ UnLugar(q)
    BY <1>1, <1>4 DEF ColasExactas
  <1>6. \A x : x \in Lugares(q) <=> x = <<k, i>>
    <2>1. \A x : x \in Lugares(q) <=>
                   \E m, j \in Nat : Esta(q, m, j) /\ x = <<m, j>>
      BY <1>2 DEF Lugares, Esta
    <2> QED
      BY <1>3, <1>5, <2>1 DEF UnLugar
  <1>7. Lugares(q) = {<<k, i>>}
    BY <1>6
  <1>8. Espera(q) = {lista_semaforos[k].nombre}
    BY <1>7 DEF Espera
  <1> QED
    BY <1>2, <1>5, <1>8

LEMMA EsperaDeQuien ==
  ASSUME Ordenado, NEW q \in Procesos, EsperaEn(q) # 0
  PROVE  /\ estado[q] = "bloqueado"
         /\ Espera(q) = {lista_semaforos[EsperaEn(q)].nombre}
         /\ lista_semaforos[EsperaEn(q)].nombre \in Nombres
  <1>1. TypeOK
    BY DEF Ordenado, IInv
  <1> QED
    BY <1>1, EsperaEnUna, EsperaUna

\* A pass reads the names as they are, and finds the one holder.
LEMMA UnaArista ==
  ASSUME Ordenado, NEW L \in Lecturas, NEW n \in Nombres, NEW q \in Procesos
  PROVE  /\ SusRecursos(L, q) = tiene[q]
         /\ Retiene(L, n, q) # {} =>
              LET h == lista_recursos_asignados[Primero(Retiene(L, n, q))]
                         .id_asignado
              IN  h \in Procesos /\ h # q /\ Tienen(n) = {h}
         /\ Retiene(L, n, q) = {} => Tienen(n) \subseteq {q}
  <1> DEFINE r == lista_recursos_asignados
  <1>1. /\ r \in Seq(Recurso) /\ tiene \in [Procesos -> SUBSET Nombres]
        /\ Entradas
    BY DEF Ordenado, IInv, TypeOK
  <1>2. Len(r) \in Nat /\ DOMAIN r = 1..Len(r) /\ \A i \in DOMAIN r : r[i] \in Recurso
    BY <1>1, LenProperties, ElementOfSeq
  <1>3. \A i \in DOMAIN r :
          /\ r[i].id_asignado \in Procesos
          /\ r[i].nombre_recurso \in tiene[r[i].id_asignado]
          /\ r[i].nombre_recurso \in Nombres /\ r[i].nombre_recurso # Colgado
    <2> TAKE i \in DOMAIN r
    <2>1. r[i].id_asignado \in Procesos
      BY <1>2 DEF Recurso
    <2>2. r[i].nombre_recurso \in tiene[r[i].id_asignado]
      BY <1>1 DEF Entradas
    <2>3. r[i].nombre_recurso \in Nombres
      BY <1>1, <2>1, <2>2
    <2> QED
      BY <2>1, <2>2, <2>3, ConstantesOK
  <1>4. DOMAIN L = {}
    <2>1. {i \in Recursos : r[i].nombre_recurso = Colgado} = {}
      BY <1>3 DEF Recursos
    <2> QED
      BY <2>1 DEF Lecturas
  <1>5. \A i \in DOMAIN r : Nombre(L, i) = r[i].nombre_recurso
    BY <1>4 DEF Nombre
  <1>6. SusRecursos(L, q) = tiene[q]
    <2>1. ASSUME NEW m \in SusRecursos(L, q) PROVE m \in tiene[q]
      BY <1>3, <1>5, <2>1 DEF SusRecursos, Recursos
    <2>2. ASSUME NEW m \in tiene[q] PROVE m \in SusRecursos(L, q)
      <3>1. PICK i \in DOMAIN r : r[i] = Asignado(m, q)
        BY <1>1 DEF Entradas
      <3> QED
        BY <1>5, <3>1 DEF SusRecursos, Recursos, Asignado
    <2> QED
      BY <2>1, <2>2
  <1> DEFINE S == Retiene(L, n, q)
  <1>7. \A i : i \in S <=> /\ i \in DOMAIN r /\ r[i].nombre_recurso = n
                           /\ r[i].id_asignado # q
    BY <1>5 DEF Retiene, Recursos
  <1>8. S \in SUBSET (1..Len(r))
    BY <1>2, <1>7
  <1>9. ASSUME S # {}
        PROVE  LET h == r[Primero(S)].id_asignado
               IN  h \in Procesos /\ h # q /\ Tienen(n) = {h}
    <2>1. Primero(S) \in S
      <3> HIDE DEF S
      <3> QED
        BY <1>2, <1>8, <1>9, PrimeroEsMinimo
    <2>2. PICK i \in S : i = Primero(S)
      BY <2>1
    <2>3. /\ r[i].id_asignado \in Procesos /\ r[i].id_asignado # q
          /\ n \in tiene[r[i].id_asignado]
      BY <1>3, <1>7
    <2>4. Tienen(n) = {r[i].id_asignado}
      BY <2>3, UnDueno
    <2> QED
      BY <2>2, <2>3, <2>4
  <1>10. ASSUME S = {}, NEW p \in Tienen(n) PROVE p = q
    <2>1. p \in Procesos /\ n \in tiene[p]
      BY <1>10 DEF Tienen
    <2>2. PICK i \in DOMAIN r : r[i] = Asignado(n, p)
      BY <1>1, <2>1 DEF Entradas
    <2> QED
      BY <1>7, <1>10, <2>2 DEF Asignado
  <1> QED
    BY <1>6, <1>9, <1>10
-----------------------------------------------------------------------------
(* What a search sees *)

\* All that have what p waits for are in D, and there is one.
Cerrado(p, D) ==
  /\ Espera(p) # {}
  /\ \A n \in Espera(p) : Tienen(n) # {} /\ Tienen(n) \subseteq D

Busqueda == [hallado : BOOLEAN, sigue : BOOLEAN, quien : Procesos,
             por : Nombres, recursos : SUBSET Nombres,
             procesos : SUBSET Procesos]

\* While it goes on, those that it saw wait for each other, all but the last;
\* and what it takes for seen one of them has.  When it found something, they
\* all do.
Cadena(c) ==
  /\ c \in Busqueda
  /\ \A p \in c.procesos : estado[p] = "bloqueado"
  /\ c.sigue =>
       /\ ~c.hallado /\ c.quien \in c.procesos /\ Espera(c.quien) = {c.por}
       /\ \A p \in c.procesos : p # c.quien => Cerrado(p, c.procesos)
       /\ \A n \in c.recursos : \E p \in c.procesos : n \in tiene[p]
  /\ c.hallado =>
       c.procesos # {} /\ \A p \in c.procesos : Cerrado(p, c.procesos)

LEMMA CadenaInductiva ==
  ASSUME Ordenado, NEW L \in Lecturas, NEW c, Cadena(c)
  PROVE  Cadena(UnaLlamada(L, c))
  <1> DEFINE recursos == c.recursos \cup SusRecursos(L, c.quien)
             retienen == Retiene(L, c.por, c.quien)
             q == lista_recursos_asignados[Primero(retienen)].id_asignado
             k == EsperaEn(q)
             n == lista_semaforos[k].nombre
             d == [hallado |-> n \in recursos, sigue |-> n \notin recursos,
                   quien |-> q, por |-> n, recursos |-> recursos,
                   procesos |-> c.procesos \cup {q}]
  <1>1. c \in Busqueda /\ c.quien \in Procesos /\ c.por \in Nombres
        /\ c.procesos \in SUBSET Procesos
    BY DEF Cadena, Busqueda
  <1>2. CASE ~c.sigue
    BY <1>2 DEF UnaLlamada
  <1>3. SusRecursos(L, c.quien) = tiene[c.quien]
        /\ tiene[c.quien] \in SUBSET Nombres
    BY <1>1, UnaArista DEF Ordenado, IInv, TypeOK
  <1>4. recursos \in SUBSET Nombres
    BY <1>1, <1>3 DEF Busqueda
  <1>5. CASE c.sigue /\ (retienen = {} \/ k = 0)
    <2>1. UnaLlamada(L, c) = [c EXCEPT !.recursos = recursos, !.sigue = FALSE]
      BY <1>5 DEF UnaLlamada
    <2> DEFINE e == [c EXCEPT !.recursos = recursos, !.sigue = FALSE]
    <2> HIDE DEF recursos, retienen, k
    <2>2. e \in Busqueda /\ e.sigue = FALSE /\ e.hallado = c.hallado
          /\ e.procesos = c.procesos
      BY <1>1, <1>4 DEF Busqueda
    <2> HIDE DEF e
    <2>3. Cadena(e)
      BY <1>5, <2>2 DEF Cadena
    <2> QED
      BY <2>1, <2>3 DEF e
  <1>6. CASE c.sigue /\ retienen # {} /\ k # 0
    <2>1. UnaLlamada(L, c) = d
      BY <1>6 DEF UnaLlamada
    <2>2. q \in Procesos /\ Tienen(c.por) = {q}
      BY <1>1, <1>6, UnaArista
    <2>3. estado[q] = "bloqueado" /\ Espera(q) = {n} /\ n \in Nombres
      BY <1>6, <2>2, EsperaDeQuien
    <2>4. /\ c.quien \in c.procesos /\ Espera(c.quien) = {c.por}
          /\ \A p \in c.procesos : p # c.quien => Cerrado(p, c.procesos)
          /\ \A m \in c.recursos : \E p \in c.procesos : m \in tiene[p]
      BY <1>6 DEF Cadena
    <2>5. \A m \in recursos : \E p \in c.procesos : m \in tiene[p]
      BY <1>3, <2>4
    <2> HIDE DEF recursos, retienen, q, k, n
    <2> DEFINE D == c.procesos \cup {q}
    <2>6. D \in SUBSET Procesos
      BY <1>1, <2>2
    <2>7. \A p \in c.procesos : Cerrado(p, D)
      <3> TAKE p \in c.procesos
      <3>1. CASE p = c.quien
        BY <2>2, <2>4, <3>1 DEF Cerrado
      <3>2. CASE p # c.quien
        BY <2>4, <3>2 DEF Cerrado
      <3> QED
        BY <3>1, <3>2
    <2>8. n \in recursos => Cerrado(q, D)
      <3> SUFFICES ASSUME n \in recursos PROVE Cerrado(q, D)
        OBVIOUS
      <3>1. PICK p \in c.procesos : n \in tiene[p]
        BY <2>5
      <3>2. Tienen(n) = {p}
        BY <1>1, <2>3, <3>1, UnDueno
      <3> QED
        BY <2>3, <3>2 DEF Cerrado
    <2>9. /\ d.hallado = (n \in recursos) /\ d.sigue = (n \notin recursos)
          /\ d.quien = q /\ d.por = n /\ d.recursos = recursos
          /\ d.procesos = D
      OBVIOUS
    <2>10. d \in Busqueda
      BY <1>4, <2>2, <2>3, <2>6 DEF Busqueda
    <2> HIDE DEF d
    <2>11. \A p \in d.procesos : estado[p] = "bloqueado"
      BY <2>3, <2>9 DEF Cadena
    <2>12. d.sigue =>
             /\ ~d.hallado /\ d.quien \in d.procesos /\ Espera(d.quien) = {d.por}
             /\ \A p \in d.procesos : p # d.quien => Cerrado(p, d.procesos)
             /\ \A m \in d.recursos : \E p \in d.procesos : m \in tiene[p]
      BY <2>3, <2>5, <2>7, <2>9
    <2>13. d.hallado =>
             d.procesos # {} /\ \A p \in d.procesos : Cerrado(p, d.procesos)
      BY <2>7, <2>8, <2>9
    <2>14. Cadena(d)
      BY <2>10, <2>11, <2>12, <2>13 DEF Cadena
    <2> QED
      BY <2>1, <2>14
  <1> QED
    BY <1>2, <1>5, <1>6

\* So it goes to the end of the search.
LEMMA BusquedaEncadena ==
  ASSUME Ordenado, NEW L \in Lecturas, NEW b, Cadena(b)
  PROVE  Cadena(ProcesoEnDeadlock(L, b))
  <1> DEFINE K == Cardinality(Procesos) + 1
  <1>1. K \in Nat
    BY ProcesosFinitos, FS_CardinalityType
  <1>2. PICK f : Llamadas(L, b, f) /\ ProcesoEnDeadlock(L, b) = f[K]
    BY LlamadasExisten
  <1>3. \A n \in 0..K : f[n] = IF n = 0 THEN b ELSE UnaLlamada(L, f[n - 1])
    BY <1>2 DEF Llamadas
  <1> HIDE DEF K
  <1> DEFINE S == {n \in 0..K : ~Cadena(f[n])}
  <1>4. S = {}
    <2> SUFFICES ASSUME S # {} PROVE FALSE
      OBVIOUS
    <2>1. PICK m \in S : \A j \in S : m <= j
      <3>1. IsFiniteSet(0..K) /\ 0..K \subseteq Int
        BY <1>1, FS_Interval
      <3>2. S \in SUBSET (0..K)
        OBVIOUS
      <3> HIDE DEF S
      <3>3. IsFiniteSet(S) /\ S \in SUBSET Int
        BY <3>1, <3>2, FS_Subset
      <3> QED
        BY <3>3, MinimoExiste
    <2>2. m \in 0..K /\ ~Cadena(f[m])
      BY <2>1
    <2>3. m # 0
      BY <1>3, <2>2
    <2>4. m - 1 \in 0..K /\ m - 1 \notin S
      BY <1>1, <2>1, <2>2, <2>3
    <2>5. Cadena(f[m - 1])
      BY <2>4
    <2>6. f[m] = UnaLlamada(L, f[m - 1])
      BY <1>3, <2>2, <2>3
    <2> QED
      BY <2>2, <2>5, <2>6, CadenaInductiva
  <1>5. K \in 0..K /\ K \notin S
    BY <1>1, <1>4
  <1> QED
    BY <1>2, <1>5

LEMMA BusquedaBien ==
  ASSUME Ordenado
  PROVE  BusquedaCierta
  <1> SUFFICES ASSUME NEW L \in Lecturas, NEW k \in DOMAIN lista_semaforos,
                      NEW q \in Range(lista_semaforos[k].solicitantes),
                      BuscaDesde(L, NadaVisto, q, lista_semaforos[k].nombre)
                        .hallado
               PROVE  /\ Abrazados # {}
                      /\ BuscaDesde(L, NadaVisto, q, lista_semaforos[k].nombre)
                           .procesos \ Fuera \subseteq Abrazados
    BY DEF BusquedaCierta
  <1> DEFINE n == lista_semaforos[k].nombre
             b == [hallado |-> FALSE, sigue |-> TRUE, quien |-> q, por |-> n,
                   recursos |-> {}, procesos |-> {q}]
             c == BuscaDesde(L, NadaVisto, q, n)
  <1>1. PICK i \in DOMAIN lista_semaforos[k].solicitantes :
               lista_semaforos[k].solicitantes[i] = q
    BY DEF Range
  <1>2. q \in Procesos
    <2>1. lista_semaforos[k].solicitantes \in Seq(Procesos)
      BY TiposDeListas DEF Ordenado, IInv
    <2> QED
      BY <1>1, <2>1, ElementOfSeq, LenProperties
  <1>3. estado[q] = "bloqueado" /\ Espera(q) = {n} /\ n \in Nombres
    BY <1>1, <1>2, EsperaUna
  <1>5. Cadena(b)
    <2> HIDE DEF n
    <2> QED
      BY <1>2, <1>3 DEF Cadena, Busqueda
  <1>6. c = ProcesoEnDeadlock(L, b)
    <2>1. NadaVisto.recursos = {} /\ NadaVisto.procesos \cup {q} = {q}
      BY DEF NadaVisto
    <2> QED
      BY <2>1 DEF BuscaDesde
  <1>7. Cadena(c) /\ c.hallado
    <2> HIDE DEF b
    <2> QED
      BY <1>5, <1>6, BusquedaEncadena
  <1> HIDE DEF c
  <1> DEFINE D == c.procesos
  <1>8. /\ D \in SUBSET {p \in Procesos : estado[p] = "bloqueado"}
        /\ D # {} /\ \A p \in D : Cerrado(p, D)
    BY <1>7 DEF Cadena, Busqueda
  <1>9. D \subseteq Abrazados
    BY <1>8 DEF Abrazados, Cerrado
  <1> QED
    BY <1>8, <1>9 DEF c
-----------------------------------------------------------------------------
(* What a pass finds *)

\* The searches of the loop over the queue of a semaphore, one after the other
Vistos(L, k, f) ==
  f = [i \in 0..Len(Cola(k)) |->
         IF i = 0 THEN NadaVisto ELSE AnalizaUno(L, k, f[i - 1], i)]

LEMMA VistosExisten ==
  ASSUME NEW L, NEW k, Len(Cola(k)) \in Nat
  PROVE  \E f : Vistos(L, k, f) /\ AnalizaCola(L, k) = f[Len(Cola(k))]
  <1> DEFINE K == Len(Cola(k))
             U(x, i) == AnalizaUno(L, k, x, i)
             Hasta(m, g) == g = [i \in 0..m |-> IF i = 0 THEN NadaVisto
                                                ELSE U(g[i - 1], i)]
  <1>2. AnalizaCola(L, k) = (CHOOSE f : Vistos(L, k, f))[K]
    BY DEF AnalizaCola, Vistos
  <1>3. \A m \in 0..K : \E g : Hasta(m, g)
    <2> HIDE DEF U, K
    <2> DEFINE S == {m \in 0..K : ~\E g : Hasta(m, g)}
    <2> SUFFICES ASSUME S # {} PROVE FALSE
      OBVIOUS
    <2>0. K \in Nat
      BY DEF K
    <2>1. PICK m \in S : \A j \in S : m <= j
      <3>1. IsFiniteSet(0..K) /\ 0..K \subseteq Int
        BY <2>0, FS_Interval
      <3>2. S \in SUBSET (0..K)
        OBVIOUS
      <3> HIDE DEF S
      <3>3. IsFiniteSet(S) /\ S \in SUBSET Int
        BY <3>1, <3>2, FS_Subset
      <3> QED
        BY <3>3, MinimoExiste
    <2>2. m \in 0..K /\ ~\E g : Hasta(m, g)
      BY <2>1
    <2>3. CASE m = 0
      <3>1. Hasta(0, [i \in 0..0 |-> NadaVisto])
        OBVIOUS
      <3> QED
        BY <2>2, <2>3, <3>1
    <2>4. CASE m # 0
      <3>1. m - 1 \in 0..K /\ m - 1 \notin S
        BY <2>0, <2>1, <2>2, <2>4
      <3>2. PICK g : Hasta(m - 1, g)
        BY <3>1
      <3> DEFINE h == [i \in 0..m |-> IF i = m THEN U(g[m - 1], m) ELSE g[i]]
      <3>3. \A i \in 0..m : h[i] = IF i = 0 THEN NadaVisto ELSE U(h[i - 1], i)
        <4> TAKE i \in 0..m
        <4>1. CASE i = m
          BY <2>0, <2>2, <2>4, <4>1
        <4>2. CASE i # m
          <5>1. i \in 0..(m - 1) /\ h[i] = g[i]
            BY <2>0, <2>2, <4>2
          <5>2. g[i] = IF i = 0 THEN NadaVisto ELSE U(g[i - 1], i)
            BY <3>2, <5>1
          <5>3. i # 0 => h[i - 1] = g[i - 1]
            BY <2>0, <2>2, <5>1
          <5> QED
            BY <5>1, <5>2, <5>3
        <4> QED
          BY <4>1, <4>2
      <3>4. Hasta(m, h)
        BY <3>3
      <3> QED
        BY <2>2, <3>4
    <2> QED
      BY <2>3, <2>4
  <1>4. \E f : Vistos(L, k, f)
    BY <1>3 DEF Vistos
  <1> QED
    BY <1>2, <1>4
-----------------------------------------------------------------------------
\* Those of D all wait, in a queue, for something that others of D have.
Enredados(D) ==
  D \in SUBSET Procesos /\ \A p \in D : Cerrado(p, D)

\* Who is looked at is one of them, and nobody who was before has what it
\* waits for: the (n + 1)-th is another one.
Avanza(c, D, n) ==
  /\ c.sigue =>
       /\ c.quien \in D /\ Espera(c.quien) = {c.por} /\ c.por \in Nombres
       /\ \E A \in SUBSET Procesos :
            /\ Cardinality(A) = n + 1
            /\ \A p \in A : c.por \notin tiene[p]
            /\ \A p \in A : p # c.quien => tiene[p] \subseteq c.recursos
  /\ ~c.sigue => c.hallado

\* Nobody has what it waits for.
LEMMA NoTieneLoQueEspera ==
  ASSUME Ordenado, NEW q \in Procesos, NEW n \in Espera(q)
  PROVE  /\ n \notin tiene[q] /\ Espera(q) = {n} /\ n \in Nombres
         /\ EsperaEn(q) # 0
  <1>1. TypeOK /\ EsperanSinTener
    BY DEF Ordenado, IInv, InvMutex, Tranquilo
  <1>2. PICK e \in Lugares(q) : n = lista_semaforos[e[1]].nombre
    BY DEF Espera
  <1>3. PICK k \in DOMAIN lista_semaforos :
          \E i \in DOMAIN lista_semaforos[k].solicitantes :
            e = <<k, i>> /\ lista_semaforos[k].solicitantes[i] = q
    BY <1>2 DEF Lugares
  <1>4. PICK i \in DOMAIN lista_semaforos[k].solicitantes :
            e = <<k, i>> /\ lista_semaforos[k].solicitantes[i] = q
    BY <1>3
  <1>5. e[1] = k
    BY <1>4
  <1>6. k \in Nat /\ i \in Nat
    BY <1>1, TiposDeListas
  <1>7. Esta(q, k, i) /\ n = lista_semaforos[k].nombre
    BY <1>2, <1>4, <1>5 DEF Esta
  <1>8. n \notin tiene[q]
    BY <1>1, <1>6, <1>7 DEF EsperanSinTener
  <1>9. Espera(q) = {n} /\ n \in Nombres
    BY <1>4, <1>7, EsperaUna
  <1>10. EsperaEn(q) # 0
    BY <1>1, <1>4, EsperaEnUna
  <1> QED
    BY <1>8, <1>9, <1>10

LEMMA AvanzaUno ==
  ASSUME Ordenado, NEW L \in Lecturas, NEW D, Enredados(D), NEW n \in Nat,
         NEW c, Avanza(c, D, n), c.sigue \in BOOLEAN
  PROVE  /\ Avanza(UnaLlamada(L, c), D, n + 1)
         /\ UnaLlamada(L, c).sigue \in BOOLEAN
  <1>1. CASE ~c.sigue
    BY <1>1 DEF UnaLlamada, Avanza
  <1>2. CASE c.sigue
    <2> DEFINE recursos == c.recursos \cup SusRecursos(L, c.quien)
               retienen == Retiene(L, c.por, c.quien)
               q == lista_recursos_asignados[Primero(retienen)].id_asignado
               k == EsperaEn(q)
               m == lista_semaforos[k].nombre
               d == [hallado |-> m \in recursos, sigue |-> m \notin recursos,
                     quien |-> q, por |-> m, recursos |-> recursos,
                     procesos |-> c.procesos \cup {q}]
    <2>1. /\ c.quien \in D /\ Espera(c.quien) = {c.por} /\ c.por \in Nombres
          /\ D \in SUBSET Procesos /\ c.quien \in Procesos
      BY <1>2 DEF Avanza, Enredados
    <2>2. PICK A \in SUBSET Procesos :
            /\ Cardinality(A) = n + 1
            /\ \A p \in A : c.por \notin tiene[p]
            /\ \A p \in A : p # c.quien => tiene[p] \subseteq c.recursos
      BY <1>2 DEF Avanza
    <2>3. c.por \notin tiene[c.quien]
      BY <2>1, NoTieneLoQueEspera
    <2>4. Tienen(c.por) # {} /\ Tienen(c.por) \subseteq D
      BY <2>1 DEF Enredados, Cerrado
    <2>5. retienen # {}
      <3>1. ~(Tienen(c.por) \subseteq {c.quien})
        BY <2>3, <2>4 DEF Tienen
      <3> QED
        BY <2>1, <3>1, UnaArista
    <2>6. q \in Procesos /\ Tienen(c.por) = {q}
      BY <2>1, <2>5, UnaArista
    <2>7. q \in D /\ c.por \in tiene[q]
      BY <2>4, <2>6 DEF Tienen
    <2>8. SusRecursos(L, c.quien) = tiene[c.quien]
      BY <2>1, UnaArista
    <2>9. PICK o : o \in Espera(q)
      BY <2>7 DEF Enredados, Cerrado
    <2>10. /\ k # 0 /\ Espera(q) = {m} /\ m \in Nombres
           /\ m \notin tiene[q]
      <3>1. /\ o \notin tiene[q] /\ Espera(q) = {o} /\ EsperaEn(q) # 0
        BY <2>6, <2>9, NoTieneLoQueEspera
      <3>2. Espera(q) = {m} /\ m \in Nombres
        BY <2>6, <3>1, EsperaDeQuien
      <3> QED
        BY <3>1, <3>2
    <2>11. UnaLlamada(L, c) = d
      BY <1>2, <2>5, <2>10 DEF UnaLlamada
    <2> HIDE DEF retienen, q, k, m
    <2> DEFINE B == A \cup {q}
    <2>12. B \in SUBSET Procesos /\ Cardinality(B) = n + 2
      <3>1. q \notin A
        BY <2>2, <2>7
      <3>2. IsFiniteSet(A)
        BY ProcesosFinitos, FS_Subset
      <3>3. Cardinality(B) = Cardinality(A) + 1
        BY <3>1, <3>2, FS_AddElement
      <3> QED
        BY <2>2, <2>6, <3>3
    <2>13. \A p \in A : tiene[p] \subseteq recursos
      BY <2>2, <2>8
    <2> HIDE DEF recursos
    <2>14. m \notin recursos =>
             /\ \A p \in B : m \notin tiene[p]
             /\ \A p \in B : p # q => tiene[p] \subseteq recursos
      BY <2>10, <2>13
    <2>15. /\ d.hallado = (m \in recursos) /\ d.sigue = (m \notin recursos)
           /\ d.quien = q /\ d.por = m /\ d.recursos = recursos
      OBVIOUS
    <2> HIDE DEF d, B
    <2>16. Avanza(d, D, n + 1)
      <3>1. (n + 1) + 1 = n + 2
        OBVIOUS
      <3> QED
        BY <2>7, <2>10, <2>12, <2>14, <2>15, <3>1 DEF Avanza
    <2> QED
      BY <2>11, <2>15, <2>16
  <1> QED
    BY <1>1, <1>2

\* There are not so many carpinchos that it could go on for ever.
LEMMA BusquedaHalla ==
  ASSUME Ordenado, NEW L \in Lecturas, NEW D, Enredados(D), NEW b,
         Avanza(b, D, 0), b.sigue \in BOOLEAN
  PROVE  ProcesoEnDeadlock(L, b).hallado
  <1> DEFINE K == Cardinality(Procesos) + 1
  <1>1. K \in Nat
    BY ProcesosFinitos, FS_CardinalityType
  <1>2. PICK f : Llamadas(L, b, f) /\ ProcesoEnDeadlock(L, b) = f[K]
    BY LlamadasExisten
  <1>3. \A n \in 0..K : f[n] = IF n = 0 THEN b ELSE UnaLlamada(L, f[n - 1])
    BY <1>2 DEF Llamadas
  <1> HIDE DEF K
  <1> DEFINE Bien(n) == Avanza(f[n], D, n) /\ f[n].sigue \in BOOLEAN
             S == {n \in 0..K : ~Bien(n)}
  <1>4. S = {}
    <2> HIDE DEF Bien
    <2> SUFFICES ASSUME S # {} PROVE FALSE
      OBVIOUS
    <2>1. PICK m \in S : \A j \in S : m <= j
      <3>1. IsFiniteSet(0..K) /\ 0..K \subseteq Int
        BY <1>1, FS_Interval
      <3>2. S \in SUBSET (0..K)
        OBVIOUS
      <3> HIDE DEF S
      <3>3. IsFiniteSet(S) /\ S \in SUBSET Int
        BY <3>1, <3>2, FS_Subset
      <3> QED
        BY <3>3, MinimoExiste
    <2>2. m \in 0..K /\ ~Bien(m)
      BY <2>1
    <2>3. m # 0
      BY <1>3, <2>2 DEF Bien
    <2>4. m - 1 \in 0..K /\ m - 1 \notin S /\ m - 1 \in Nat
      BY <1>1, <2>1, <2>2, <2>3
    <2>5. Bien(m - 1)
      BY <2>4
    <2>6. f[m] = UnaLlamada(L, f[m - 1])
      BY <1>3, <2>2, <2>3
    <2>7. (m - 1) + 1 = m
      BY <1>1, <2>2
    <2>8. /\ Avanza(UnaLlamada(L, f[m - 1]), D, (m - 1) + 1)
          /\ UnaLlamada(L, f[m - 1]).sigue \in BOOLEAN
      BY <2>4, <2>5, AvanzaUno DEF Bien
    <2> QED
      BY <2>2, <2>6, <2>7, <2>8 DEF Bien
  <1>5. Bien(K)
    <2> HIDE DEF Bien
    <2> QED
      BY <1>1, <1>4
  <1>6. ~f[K].sigue
    <2> SUFFICES ASSUME f[K].sigue PROVE FALSE
      BY <1>5
    <2>1. PICK A \in SUBSET Procesos : Cardinality(A) = K + 1
      BY <1>5 DEF Avanza
    <2>2. Cardinality(A) <= Cardinality(Procesos)
      BY ProcesosFinitos, FS_Subset
    <2> QED
      BY <2>1, <2>2, ProcesosFinitos, FS_CardinalityType DEF K
  <1> QED
    BY <1>2, <1>5, <1>6 DEF Avanza

LEMMA DeteccionTotal ==
  ASSUME Ordenado
  PROVE  DeteccionCompleta
  <1> SUFFICES ASSUME Abrazados # {}, NEW L \in Lecturas
               PROVE  EnDeadlock(L) # {}
    BY DEF DeteccionCompleta
  <1>1. TypeOK /\ ValorYSolicitantes
    BY DEF Ordenado, IInv
  <1>2. PICK D \in SUBSET Procesos : D # {} /\ \A p \in D : Cerrado(p, D)
    BY DEF Abrazados, Cerrado
  <1>3. PICK p \in D : p \in Procesos /\ Cerrado(p, D)
    BY <1>2
  <1>4. PICK e : e \in Lugares(p)
    BY <1>3 DEF Cerrado, Espera
  <1>5. PICK k \in DOMAIN lista_semaforos :
          \E i \in DOMAIN lista_semaforos[k].solicitantes :
             lista_semaforos[k].solicitantes[i] = p
    BY <1>4 DEF Lugares
  <1> DEFINE cola == lista_semaforos[k].solicitantes
             n == lista_semaforos[k].nombre
  <1>6. /\ cola \in Seq(Procesos) /\ Len(cola) \in Nat /\ DOMAIN cola = 1..Len(cola)
        /\ lista_semaforos[k].value \in Int
        /\ Len(cola) = IF lista_semaforos[k].value < 0
                       THEN -lista_semaforos[k].value ELSE 0
    BY <1>1, TiposDeListas DEF ValorYSolicitantes
  <1>7. lista_semaforos[k].value < 0 /\ 1 \in DOMAIN cola
    <2> HIDE DEF cola
    <2>1. PICK i : i \in DOMAIN cola
      BY <1>5 DEF cola
    <2> QED
      BY <1>6, <2>1
  <1>8. PICK q \in Procesos : q = cola[1]
    BY <1>6, <1>7, ElementOfSeq
  <1>9. Espera(q) = {n} /\ Espera(p) = {n} /\ n \in Nombres
    BY <1>3, <1>5, <1>7, <1>8, EsperaUna
  <1> DEFINE E == D \cup {q}
  <1>10. Enredados(E)
    BY <1>2, <1>3, <1>9 DEF Enredados, Cerrado
  <1>11. n \notin tiene[q]
    BY <1>9, NoTieneLoQueEspera
  <1> DEFINE b == [hallado |-> FALSE, sigue |-> TRUE, quien |-> q, por |-> n,
                   recursos |-> {}, procesos |-> {q}]
  <1>12. Avanza(b, E, 0)
    <2> HIDE DEF n
    <2>1. {q} \in SUBSET Procesos /\ Cardinality({q}) = 0 + 1
      <3>1. Cardinality({q}) = 1
        BY FS_Singleton
      <3> HIDE DEF b, E
      <3> QED
        BY <3>1
    <2>2. /\ b.sigue = TRUE /\ b.quien = q /\ b.por = n
          /\ q \in E
      OBVIOUS
    <2> HIDE DEF b, E
    <2>3. \A x \in {q} : n \notin tiene[x]
      BY <1>11
    <2>4. \A x \in {q} : x # q => tiene[x] \subseteq b.recursos
      OBVIOUS
    <2>5. \E A \in SUBSET Procesos :
            /\ Cardinality(A) = 0 + 1
            /\ \A x \in A : n \notin tiene[x]
            /\ \A x \in A : x # q => tiene[x] \subseteq b.recursos
      BY <2>1, <2>3, <2>4
    <2> QED
      BY <1>9, <2>2, <2>5 DEF Avanza
  <1>13. BuscaDesde(L, NadaVisto, q, n).hallado
    <2>1. NadaVisto.recursos = {} /\ NadaVisto.procesos \cup {q} = {q}
      BY DEF NadaVisto
    <2>2. BuscaDesde(L, NadaVisto, q, n) = ProcesoEnDeadlock(L, b)
      BY <2>1 DEF BuscaDesde
    <2>3. b.sigue \in BOOLEAN
      OBVIOUS
    <2> HIDE DEF b, E
    <2> QED
      BY <1>10, <1>12, <2>2, <2>3, BusquedaHalla
  <1>14. PICK f : Vistos(L, k, f) /\ AnalizaCola(L, k) = f[Len(cola)]
    <2>1. Cola(k) = cola
      BY <1>7 DEF Cola
    <2> HIDE DEF cola
    <2> QED
      BY <1>6, <2>1, VistosExisten
  <1>c. Cola(k) = cola
    BY <1>7 DEF Cola
  <1> HIDE DEF cola, n, b, E
  <1>15. \A i \in 0..Len(cola) :
           f[i] = IF i = 0 THEN NadaVisto
                  ELSE IF f[i - 1].hallado THEN f[i - 1]
                  ELSE BuscaDesde(L, f[i - 1], cola[i], n)
    BY <1>14, <1>c DEF Vistos, AnalizaUno, n
  <1> DEFINE S == {i \in 1..Len(cola) : ~f[i].hallado}
  <1>16. S = {}
    <2> SUFFICES ASSUME S # {} PROVE FALSE
      OBVIOUS
    <2>1. PICK m \in S : \A j \in S : m <= j
      <3>0. 1 \in Int /\ Len(cola) \in Int
        BY <1>6
      <3>1. IsFiniteSet(1..Len(cola)) /\ 1..Len(cola) \subseteq Int
        BY <3>0, FS_Interval
      <3>2. S \in SUBSET (1..Len(cola))
        OBVIOUS
      <3> HIDE DEF S
      <3>3. IsFiniteSet(S) /\ S \in SUBSET Int
        BY <3>1, <3>2, FS_Subset
      <3> QED
        BY <3>3, MinimoExiste
    <2>2. m \in 1..Len(cola) /\ ~f[m].hallado
      BY <2>1
    <2>3. m # 1
      <3>0. NadaVisto.hallado = FALSE
        BY DEF NadaVisto
      <3>1. f[0] = NadaVisto /\ ~f[0].hallado
        BY <1>6, <1>15, <3>0
      <3>2. f[1] = BuscaDesde(L, NadaVisto, q, n)
        BY <1>6, <1>7, <1>8, <1>15, <3>1
      <3> QED
        BY <1>13, <2>2, <3>2
    <2>4. m - 1 \in 1..Len(cola) /\ m - 1 \notin S
      BY <1>6, <2>1, <2>2, <2>3
    <2>5. f[m - 1].hallado
      BY <2>4
    <2>6. f[m] = f[m - 1]
      BY <1>6, <1>15, <2>2, <2>5
    <2> QED
      BY <2>2, <2>5, <2>6
  <1>17. f[Len(cola)].hallado
    BY <1>6, <1>7, <1>16
  <1> QED
    BY <1>14, <1>17 DEF EnDeadlock

-----------------------------------------------------------------------------
(* The steps beside the detector *)

\* A step of the detector that does not end the kernel is one of the
\* semaphores, or leaves their lists alone.
LEMMA PasosDelDetector ==
  ASSUME [NextDetector]_todas, caido' = "no"
  PROVE  /\ caido = "no" /\ escenario' = escenario
         /\ [Next]_vars \/ SalidaNadie
  <1>1. CASE UNCHANGED todas
    BY <1>1 DEF todas, hilos, cambian, vars
  <1>2. CASE NextDetector
    <2>0. PasoDetector /\ escenario' = escenario
      BY <1>2 DEF NextDetector
    <2>1. CASE Detecta
      <3>1. caido' = caido
        BY <2>1 DEF Detecta
      <3>2. UNCHANGED vars
        BY <2>0, <2>1, <3>1 DEF Detecta, vars, cambian
      <3> QED
        BY <2>0, <2>1, <3>2 DEF Detecta
    <2>2. ASSUME NEW p \in Procesos, Carpincho(p)
          PROVE  caido = "no" /\ Paso
      <3>1. ASSUME NEW t \in Tareas, TomaTarea(p, t)
            PROVE  caido = "no" /\ Paso
        BY <3>1 DEF TomaTarea, Paso
      <3>2. ASSUME Ejecuta(p) PROVE caido = "no" /\ Paso
        <4>1. Paso
          BY <3>2 DEF Paso
        <4> QED
          BY <3>2, <4>1 DEF Ejecuta, IniciaConsulta, IniciaAgrega,
             TomaMutexRecursos, Solicita, Postea, Destruye, EnSeccion
      <3>3. ASSUME TomaMutexSemaforos(p) PROVE caido = "no" /\ Paso
        BY <3>3 DEF TomaMutexSemaforos, Paso
      <3> QED
        BY <2>2, <3>1, <3>2, <3>3 DEF Carpincho
    <2>3. CASE Salida
      <3>1. CASE SalidaEmpieza
        BY <3>1, <2>0 DEF SalidaEmpieza, SalidaTomaRecursos, Paso, Next
      <3>2. CASE SalidaElige
        <4>1. PICK p \in Procesos : SalidaTomaSemaforos(p)
          BY <3>2 DEF SalidaElige, Marcados
        <4> QED
          BY <4>1, <2>0 DEF SalidaTomaSemaforos, Paso, Next
      <3>3. CASE SalidaNadie
        BY <3>3, <2>0 DEF SalidaNadie
      <3>4. CASE SalidaSolicitud
        BY <3>4, <2>0 DEF SalidaSolicitud, Paso, Next
      <3>5. CASE SalidaRecurso
        <4>1. caido = "no"
          BY <3>5 DEF SalidaRecurso
        <4> QED
          BY <3>5, <4>1, <2>0 DEF Paso, Next
      <3> QED
        BY <2>3, <3>1, <3>2, <3>3, <3>4, <3>5 DEF Salida
    <2> QED
      BY <2>0, <2>1, <2>2, <2>3 DEF PasoDetector, Next
  <1> QED
    BY <1>1, <1>2

\* hilo_salida_a_exit lets go of its mutex: nothing else changes.
LEMMA NadieInductivo ==
  ASSUME IInv, InvMutex, SalidaNadie, escenario' = escenario
  PROVE  IInv' /\ InvMutex'
  <1>1. /\ salida' = Quieta /\ mutex_recursos_asignados' = "libre"
        /\ UNCHANGED <<lista_semaforos, lista_recursos_asignados,
                       mutex_semaforos, estado, tarea, caido, tiene,
                       sin_semaforo>>
    BY DEF SalidaNadie, listas
  <1>2. TypeOK'
    <2>1. TypeOK
      BY DEF IInv
    <2>2. Tareas' = Tareas
      BY DEF Tareas
    <2> QED
      BY <1>1, <2>1, <2>2 DEF TypeOK, Hilos
  <1>3. ValorYSolicitantes' /\ TareasYEstados'
    BY <1>1 DEF IInv, ValorYSolicitantes, TareasYEstados
  <1>4. \A p, k, i : Esta(p, k, i)' <=> Esta(p, k, i)
    BY <1>1 DEF Esta
  <1>5. ColasExactas'
    <2>1. \A p : (UnLugar(p)' <=> UnLugar(p)) /\ (EnAlguna(p)' <=> EnAlguna(p))
      BY <1>4 DEF UnLugar, EnAlguna
    <2> QED
      BY <1>1, <2>1 DEF IInv, ColasExactas
  <1>6. SalidaEnCurso'
    BY <1>1 DEF SalidaEnCurso, Quieta
  <1>7. InvMutex'
    <2>1. /\ ComoMutex' <=> ComoMutex
          /\ NadieSalio' <=> NadieSalio
      BY <1>1 DEF ComoMutex, NadieSalio
    <2>2. TareasEnOrden => TareasEnOrden'
      BY <1>1 DEF TareasEnOrden
    <2>3. EsperanSinTener => EsperanSinTener'
      BY <1>1, <1>4 DEF EsperanSinTener
    <2>4. \A n : UnidadDe(n) => UnidadDe(n)'
      BY <1>1 DEF UnidadDe, EsIndice
    <2> QED
      BY <2>1, <2>2, <2>3, <2>4 DEF InvMutex
  <1> QED
    BY <1>2, <1>3, <1>5, <1>6, <1>7 DEF IInv

\* One entry more, of who is granted a unit it did not have.
LEMMA EntradaNueva ==
  ASSUME TypeOK, Entradas, NEW p \in Procesos, NEW n \in Nombres,
         n \notin tiene[p],
         lista_recursos_asignados' = Append(lista_recursos_asignados,
                                            Asignado(n, p)),
         tiene' = [tiene EXCEPT ![p] = @ \cup {n}]
  PROVE  Entradas'
  <1> DEFINE r == lista_recursos_asignados
             e == Asignado(n, p)
  <1>1. /\ r \in Seq(Recurso) /\ tiene \in [Procesos -> SUBSET Nombres]
        /\ Len(r) \in Nat /\ DOMAIN r = 1..Len(r)
        /\ e \in Recurso /\ e.nombre_recurso = n /\ e.id_asignado = p
    BY LenProperties DEF TypeOK, Asignado, Recurso
  <1>2. \A i \in DOMAIN r : r[i] # e
    BY <1>1 DEF Entradas
  <1>3. \A i \in DOMAIN r : r[i].id_asignado \in Procesos
    <2>1. \A i \in DOMAIN r : r[i] \in Recurso
      BY <1>1, ElementOfSeq
    <2> QED
      BY <2>1 DEF Recurso
  <1>4. /\ \A i \in DOMAIN r :
             r[i].nombre_recurso \in tiene[r[i].id_asignado]
        /\ \A q \in Procesos : \A m \in tiene[q] :
             \E i \in DOMAIN r : r[i] = Asignado(m, q)
        /\ Unica(r)
    BY DEF Entradas
  <1>5. /\ \A q \in Procesos : tiene'[q] = IF q = p THEN tiene[q] \cup {n}
                                           ELSE tiene[q]
        /\ lista_recursos_asignados' = Append(r, e)
    BY <1>1
  <1> HIDE DEF r, e
  <1>6. /\ DOMAIN Append(r, e) = 1..(Len(r) + 1)
        /\ \A i \in DOMAIN r : Append(r, e)[i] = r[i]
        /\ Append(r, e)[Len(r) + 1] = e
    BY <1>1
  <1>7. Unica(Append(r, e))
    BY <1>1, <1>2, <1>4, <1>6 DEF Unica
  <1>8. \A i \in DOMAIN Append(r, e) :
          Append(r, e)[i].nombre_recurso
            \in tiene'[Append(r, e)[i].id_asignado]
    <2> TAKE i \in DOMAIN Append(r, e)
    <2>1. CASE i \in DOMAIN r
      BY <1>3, <1>4, <1>5, <1>6, <2>1
    <2>2. CASE i \notin DOMAIN r
      <3>1. i = Len(r) + 1
        BY <1>1, <1>6, <2>2
      <3> QED
        BY <1>1, <1>5, <1>6, <3>1
    <2> QED
      BY <2>1, <2>2
  <1>9. \A q \in Procesos : \A m \in tiene'[q] :
          \E i \in DOMAIN Append(r, e) : Append(r, e)[i] = Asignado(m, q)
    <2> TAKE q \in Procesos
    <2> TAKE m \in tiene'[q]
    <2>1. CASE m \in tiene[q]
      <3>1. PICK i \in DOMAIN r : r[i] = Asignado(m, q)
        BY <1>4, <2>1
      <3> QED
        BY <1>1, <1>6, <3>1
    <2>2. CASE m \notin tiene[q]
      <3>1. q = p /\ m = n
        BY <1>5, <2>2
      <3>2. Len(r) + 1 \in DOMAIN Append(r, e)
        BY <1>1, <1>6
      <3> QED
        BY <1>6, <3>1, <3>2 DEF e
    <2> QED
      BY <2>1, <2>2
  <1> QED
    BY <1>5, <1>7, <1>8, <1>9 DEF Entradas

\* devolver_recurso takes out the entry of who posts, the only one.
LEMMA EntradaDevuelta ==
  ASSUME TypeOK, Entradas, NEW p \in Procesos, NEW n \in Nombres,
         n \in tiene[p], Devuelve(lista_recursos_asignados, p, n),
         tiene' = [tiene EXCEPT ![p] = @ \ {n}]
  PROVE  Entradas'
  <1> DEFINE r == lista_recursos_asignados
             e == Asignado(n, p)
  <1>1. /\ r \in Seq(Recurso) /\ tiene \in [Procesos -> SUBSET Nombres]
        /\ Len(r) \in Nat /\ DOMAIN r = 1..Len(r)
        /\ \A q \in Procesos : tiene'[q] = IF q = p THEN tiene[q] \ {n}
                                           ELSE tiene[q]
    BY LenProperties DEF TypeOK
  <1>2. \A i \in DOMAIN r : r[i] \in Recurso /\ r[i].id_asignado \in Procesos
    <2>1. \A i \in DOMAIN r : r[i] \in Recurso
      BY <1>1, ElementOfSeq
    <2> QED
      BY <2>1 DEF Recurso
  <1>3. /\ \A i \in DOMAIN r :
             r[i].nombre_recurso \in tiene[r[i].id_asignado]
        /\ \A q \in Procesos : \A m \in tiene[q] :
             \E i \in DOMAIN r : r[i] = Asignado(m, q)
        /\ Unica(r)
    BY DEF Entradas
  <1>4. PICK i \in DOMAIN r :
          /\ r[i].id_asignado = p /\ Lee(r[i].nombre_recurso, n)
          /\ lista_recursos_asignados' = RemoveAt(r, i)
    <2>1. PICK j \in DOMAIN r : r[j] = e
      BY <1>3
    <2>2. r[j].id_asignado = p /\ r[j].nombre_recurso = n
      BY <2>1 DEF Asignado
    <2> QED
      BY <2>2 DEF Devuelve
  <1>5. r[i].nombre_recurso = n
    <2>1. r[i].nombre_recurso \in Nombres
      BY <1>1, <1>3, <1>4
    <2> QED
      BY <1>4, <2>1, ConstantesOK DEF Lee
  <1>6. \A j \in DOMAIN r :
          r[j].nombre_recurso = n /\ r[j].id_asignado = p => j = i
    <2>1. \A x, y \in Recurso :
            x.nombre_recurso = y.nombre_recurso /\ x.id_asignado = y.id_asignado
              => x = y
      <3>1. \A x \in Recurso : x = Asignado(x.nombre_recurso, x.id_asignado)
        BY DEF Recurso, Asignado
      <3> QED
        BY <3>1
    <2>2. \A j \in DOMAIN r : r[j] = r[i] => j = i
      BY <1>3 DEF Unica
    <2> HIDE DEF r
    <2> QED
      BY <1>2, <1>4, <1>5, <2>1, <2>2
  <1> DEFINE s == RemoveAt(r, i)
  <1> HIDE DEF r, s
  <1>7. /\ s \in Seq(Recurso) /\ DOMAIN s = 1..(Len(r) - 1)
        /\ \A j \in 1..(Len(r) - 1) : s[j] = IF j < i THEN r[j] ELSE r[j + 1]
        /\ Unica(s)
    BY <1>1, <1>3, QuitarUno, QuitarDeUnica DEF s
  <1>8. \A j \in DOMAIN s : \E m \in DOMAIN r : m # i /\ s[j] = r[m]
    BY <1>1, <1>7
  <1>9. \A m \in DOMAIN r : m # i => \E j \in DOMAIN s : s[j] = r[m]
    <2> TAKE m \in DOMAIN r
    <2>1. CASE m < i
      BY <1>1, <1>7, <2>1
    <2>2. CASE m > i
      <3>1. m - 1 \in DOMAIN s /\ s[m - 1] = r[m]
        BY <1>1, <1>7, <2>2
      <3> QED
        BY <3>1
    <2> QED
      BY <1>1, <2>1, <2>2
  <1>10. \A j \in DOMAIN s : s[j].nombre_recurso \in tiene'[s[j].id_asignado]
    <2> TAKE j \in DOMAIN s
    <2>1. PICK m \in DOMAIN r : m # i /\ s[j] = r[m]
      BY <1>8
    <2> QED
      BY <1>1, <1>2, <1>3, <1>6, <2>1
  <1>11. \A q \in Procesos : \A m \in tiene'[q] :
           \E j \in DOMAIN s : s[j] = Asignado(m, q)
    <2> TAKE q \in Procesos
    <2> TAKE m \in tiene'[q]
    <2>1. m \in tiene[q] /\ ~(q = p /\ m = n)
      BY <1>1
    <2>2. PICK j \in DOMAIN r : r[j] = Asignado(m, q)
      BY <1>3, <2>1
    <2>3. r[j].nombre_recurso = m /\ r[j].id_asignado = q
      BY <2>2 DEF Asignado
    <2>4. j # i
      BY <1>4, <1>5, <2>1, <2>3
    <2> QED
      BY <1>9, <2>2, <2>4
  <1>12. lista_recursos_asignados' = s
    BY <1>4 DEF s
  <1> QED
    BY <1>7, <1>10, <1>11, <1>12 DEF Entradas

\* A post that hands a unit over leaves an entry of the other carpincho with
\* the name that is freed.
LEMMA EntradaEntregada ==
  ASSUME TypeOK, NEW p \in Procesos, NEW q \in Procesos, p # q, NEW n,
         Devuelve(Append(lista_recursos_asignados, Asignado(Colgado, q)), p, n)
  PROVE  HayColgado'
  <1> DEFINE e == Asignado(Colgado, q)
             r == Append(lista_recursos_asignados, e)
  <1>1. /\ lista_recursos_asignados \in Seq(Recurso)
        /\ Len(lista_recursos_asignados) \in Nat
        /\ e \in Recurso /\ e.nombre_recurso = Colgado /\ e.id_asignado = q
    BY LenProperties DEF TypeOK, Asignado, Recurso
  <1> DEFINE L == Len(lista_recursos_asignados)
  <1> HIDE DEF e
  <1>2. /\ r \in Seq(Recurso) /\ DOMAIN r = 1..(L + 1) /\ Len(r) = L + 1
        /\ r[L + 1] = e
    BY <1>1
  <1>3. CASE lista_recursos_asignados' = r
    <2>1. L + 1 \in DOMAIN r
      BY <1>1, <1>2
    <2> QED
      BY <1>1, <1>2, <1>3, <2>1 DEF HayColgado, Recursos
  <1>4. ASSUME NEW i \in DOMAIN r, r[i].id_asignado = p,
               lista_recursos_asignados' = RemoveAt(r, i)
        PROVE  HayColgado'
    <2>1. i # L + 1
      BY <1>1, <1>2, <1>4
    <2>2. L \in 1..L /\ i \in 1..L
      BY <1>1, <1>2, <2>1
    <2> HIDE DEF r
    <2>3. /\ DOMAIN RemoveAt(r, i) = 1..L
          /\ RemoveAt(r, i)[L] = e
      <3>1. /\ DOMAIN RemoveAt(r, i) = 1..(Len(r) - 1)
            /\ \A j \in 1..(Len(r) - 1) :
                 RemoveAt(r, i)[j] = IF j < i THEN r[j] ELSE r[j + 1]
        BY <1>2, QuitarUno
      <3> HIDE DEF L
      <3>2. Len(r) - 1 = L
        BY <1>1, <1>2, <2>2
      <3>3. ~(L < i)
        BY <2>2
      <3> QED
        BY <1>2, <2>2, <3>1, <3>2, <3>3
    <2> HIDE DEF L
    <2> QED
      BY <1>1, <1>4, <2>2, <2>3 DEF HayColgado, Recursos
  <1>5. \/ lista_recursos_asignados' = r
        \/ \E i \in DOMAIN r : /\ r[i].id_asignado = p
                               /\ lista_recursos_asignados' = RemoveAt(r, i)
    BY DEF Devuelve, e
  <1> QED
    BY <1>3, <1>4, <1>5

\* While it is quiet, no step makes lista_recursos_asignados lie.
LEMMA EntradasInductivas ==
  ASSUME IInv, InvMutex, ComoMutex, NadieSalio', caido = "no", caido' = "no",
         Entradas, ~HayColgado' \/ UNCHANGED <<listas, tiene>>,
         [Next]_vars \/ SalidaNadie
  PROVE  Entradas'
  <1>1. ASSUME UNCHANGED <<lista_recursos_asignados, tiene>>
        PROVE  Entradas'
    BY <1>1 DEF Entradas
  <1>2. CASE SalidaNadie
    BY <1>1, <1>2 DEF SalidaNadie, listas
  <1> SUFFICES ASSUME [Next]_vars, ~UNCHANGED <<lista_recursos_asignados, tiene>>
               PROVE  Entradas'
    BY <1>1, <1>2
  <1>3. ~HayColgado'
    BY DEF listas
  <1>4. /\ TypeOK /\ TareasYEstados /\ SalidaEnCurso /\ ValorYSolicitantes
        /\ escenario \in Escenarios
    BY DEF IInv
  <1>5. NadieSalio /\ TareasEnOrden
    <2>1. NadieSalio
      BY QuienSaleNoVuelve DEF NadieSalio
    <2> QED
      BY <2>1 DEF InvMutex
  <1>6. ASSUME NEW p \in Procesos, Solicita(p) PROVE Entradas'
    <2>1. /\ tarea[p].op = "wait"
          /\ \/ UNCHANGED <<lista_recursos_asignados, tiene>>
             \/ /\ lista_recursos_asignados' =
                     Append(lista_recursos_asignados,
                            Asignado(tarea[p].nombre, p))
                /\ tiene' = [tiene EXCEPT ![p] = @ \cup {tarea[p].nombre}]
      BY <1>6 DEF Solicita, EnSeccion, listas
    <2>2. tarea[p].nombre \in Nombres /\ tarea[p].nombre \notin tiene[p]
      BY <1>4, <1>5, <2>1, TiposDeTarea DEF TareasEnOrden
    <2> QED
      BY <1>1, <1>4, <2>1, <2>2, EntradaNueva
  <1>7. ASSUME NEW p \in Procesos, Postea(p) PROVE Entradas'
    <2> DEFINE n == tarea[p].nombre
               r == lista_recursos_asignados
    <2>1. tarea[p].op = "post" /\ Postear(r, n, Colgado, p)
      BY <1>7 DEF Postea, EnSeccion
    <2>2. n \in Nombres /\ n \in tiene[p]
      BY <1>4, <1>5, <2>1, TiposDeTarea DEF TareasEnOrden
    <2> HIDE DEF n
    <2>3. PICK k \in Indices :
            \/ UNCHANGED <<r, tiene>>
            \/ /\ Devuelve(r, p, n)
               /\ tiene' = [tiene EXCEPT ![p] = @ \ {n}]
            \/ /\ k # 0 /\ lista_semaforos[k].value < 0
               /\ LET q == Head(lista_semaforos[k].solicitantes) IN
                  /\ estado[q] = "bloqueado"
                  /\ Devuelve(Append(r, Asignado(Colgado, q)), p, n)
      BY <2>1 DEF Postear
    <2>4. CASE UNCHANGED <<r, tiene>>
      BY <2>4, <1>1
    <2>5. CASE /\ Devuelve(r, p, n)
               /\ tiene' = [tiene EXCEPT ![p] = @ \ {n}]
      BY <1>4, <2>2, <2>5, EntradaDevuelta
    <2>6. ASSUME k # 0, lista_semaforos[k].value < 0, NEW q,
                 q = Head(lista_semaforos[k].solicitantes),
                 estado[q] = "bloqueado",
                 Devuelve(Append(r, Asignado(Colgado, q)), p, n)
          PROVE  FALSE
      <3>1. k \in DOMAIN lista_semaforos
        BY <1>4, <2>6, LenProperties DEF TypeOK, Indices
      <3>2. /\ lista_semaforos[k].solicitantes \in Seq(Procesos)
            /\ lista_semaforos[k].value \in Int
            /\ Len(lista_semaforos[k].solicitantes) = -lista_semaforos[k].value
        BY <1>4, <2>6, <3>1, TiposDeListas DEF ValorYSolicitantes
      <3>3. lista_semaforos[k].solicitantes # <<>>
        BY <2>6, <3>2
      <3>4. q \in Procesos
        BY <2>6, <3>2, <3>3, HeadTailProperties
      <3>5. q # p
        BY <1>4, <2>1, <2>6 DEF TareasYEstados, Ninguna
      <3> QED
        BY <1>3, <1>4, <2>6, <3>4, <3>5, EntradaEntregada
    <2> QED
      BY <2>3, <2>4, <2>5, <2>6
  <1>8. ASSUME NEW p \in Procesos, Destruye(p) PROVE FALSE
    BY <1>4, <1>8, TareasDeMutex DEF Destruye, EnSeccion
  <1>9. ASSUME NEW p \in Procesos, SalidaTomaSemaforos(p) PROVE FALSE
    <2>1. estado'[p] = "fuera"
      BY <1>4, <1>9 DEF SalidaTomaSemaforos, TypeOK
    <2> QED
      BY <2>1 DEF NadieSalio
  <1>10. ~SalidaSolicitud /\ ~SalidaRecurso
    <2> SUFFICES ASSUME SalidaSolicitud \/ SalidaRecurso PROVE FALSE
      OBVIOUS
    <2>1. salida.id \in Procesos
      BY <1>4, TiposDeSalida DEF SalidaSolicitud, SalidaRecurso
    <2>2. estado[salida.id] = "fuera"
      BY <1>4 DEF SalidaEnCurso, SalidaSolicitud, SalidaRecurso
    <2> QED
      BY <1>5, <2>1, <2>2 DEF NadieSalio
  <1>11. ASSUME NEW p \in Procesos, NEW t \in Tareas, TomaTarea(p, t)
         PROVE  FALSE
    BY <1>11 DEF TomaTarea, listas
  <1>12. ASSUME NEW p \in Procesos,
                \/ IniciaConsulta(p) \/ IniciaAgrega(p)
                \/ TomaMutexSemaforos(p) \/ TomaMutexRecursos(p)
         PROVE  FALSE
    BY <1>12 DEF IniciaConsulta, IniciaAgrega, TomaMutexSemaforos,
       TomaMutexRecursos, listas
  <1>13. ~SalidaTomaRecursos
    BY DEF SalidaTomaRecursos, listas
  <1>14. CASE UNCHANGED vars
    BY <1>14 DEF vars, cambian, listas
  <1> QED
    BY <1>6, <1>7, <1>8, <1>9, <1>10, <1>11, <1>12, <1>13, <1>14
    DEF Next, Paso, Ejecuta
-----------------------------------------------------------------------------
\* The inductive invariant of the semaphores beside the detector
IDet ==
  /\ colgo \in Nat
  /\ caido = "no" => IInv /\ InvMutex
  /\ Tranquilo => Entradas

LEMMA DetInicial == IniciaDetector => IDet
  <1> SUFFICES ASSUME IniciaDetector PROVE IDet
    OBVIOUS
  <1>1. Init /\ colgo = 0
    BY DEF IniciaDetector
  <1>2. IInv /\ InvMutex
    BY <1>1, InvInicial, MutexInicial
  <1>3. lista_recursos_asignados = <<>> /\ \A p \in Procesos : tiene[p] = {}
    BY <1>1 DEF Init
  <1>4. Entradas
    BY <1>3 DEF Entradas, Unica
  <1> QED
    BY <1>1, <1>2, <1>4 DEF IDet

LEMMA DetInductivo == IDet /\ [NextDetector]_todas => IDet'
  <1> SUFFICES ASSUME IDet, [NextDetector]_todas PROVE IDet'
    OBVIOUS
  <1>1. /\ colgo' \in Nat
        /\ colgo' = 0 =>
             colgo = 0 /\ (~HayColgado' \/ UNCHANGED <<listas, tiene>>)
    BY DEF IDet, NextDetector, todas, hilos, cambian, listas
  <1>2. ASSUME caido' = "no" PROVE IInv' /\ InvMutex'
    <2>1. /\ caido = "no" /\ escenario' = escenario
          /\ [Next]_vars \/ SalidaNadie
      BY <1>2, PasosDelDetector
    <2>2. IInv /\ InvMutex
      BY <2>1 DEF IDet
    <2>3. CASE SalidaNadie
      BY <2>1, <2>2, <2>3, NadieInductivo
    <2>4. CASE [Next]_vars
      BY <2>1, <2>2, <2>4, TipoInductivo, ColasInductivas, TareasInductivas,
         MutexInductivo
      DEF IInv
    <2> QED
      BY <2>1, <2>3, <2>4
  <1>3. ASSUME Tranquilo' PROVE Entradas'
    <2>1. caido' = "no" /\ colgo' = 0 /\ ComoMutex' /\ NadieSalio'
      BY <1>3 DEF Tranquilo
    <2>2. /\ caido = "no" /\ escenario' = escenario
          /\ [Next]_vars \/ SalidaNadie
      BY <2>1, PasosDelDetector
    <2>3. IInv /\ InvMutex
      BY <2>2 DEF IDet
    <2>4. ComoMutex
      BY <2>1, <2>2 DEF ComoMutex
    <2>5. NadieSalio
      <3>1. CASE SalidaNadie
        BY <2>1, <3>1 DEF SalidaNadie, NadieSalio
      <3>2. CASE [Next]_vars
        BY <2>1, <2>3, <3>2, QuienSaleNoVuelve DEF NadieSalio
      <3> QED
        BY <2>2, <3>1, <3>2
    <2>6. Entradas
      BY <1>1, <2>1, <2>2, <2>4, <2>5 DEF IDet, Tranquilo
    <2> QED
      BY <1>1, <2>1, <2>2, <2>3, <2>4, <2>6, EntradasInductivas
  <1> QED
    BY <1>1, <1>2, <1>3 DEF IDet

LEMMA DetSiempre ==
  SpecDetector => [](ComoMutex /\ Fuera = {} /\ Quietos /\ colgo = 0 => Ordenado)
  <1>1. IDet => (ComoMutex /\ Fuera = {} /\ Quietos /\ colgo = 0 => Ordenado)
    BY DEF IDet, Fuera, NadieSalio, Quietos, Ordenado, Tranquilo
  <1> QED
    BY <1>1, DetInicial, DetInductivo, PTL DEF SpecDetector

\* While the carpinchos use their semaphores as mutexes, and until the first
\* of them leaves, a search that starts with nothing seen never takes a
\* carpincho that runs, or a chain that ends in one, for a deadlock.
THEOREM BusquedaSiempre ==
  SpecDetector => [](ComoMutex /\ Fuera = {} => BusquedaCierta)
  <1>1. (ComoMutex /\ Fuera = {} /\ Quietos /\ colgo = 0 => Ordenado)
          => (ComoMutex /\ Fuera = {} => BusquedaCierta)
    <2>1. CASE Quietos /\ colgo = 0
      BY <2>1, BusquedaBien
    <2>2. CASE ~(Quietos /\ colgo = 0)
      BY <2>2 DEF BusquedaCierta
    <2> QED
      BY <2>1, <2>2
  <1> QED
    BY <1>1, DetSiempre, PTL

\* And a pass finds every deadlock of theirs, whatever the searches before
\* the one that finds it left in what was seen.
THEOREM DeteccionSiempre ==
  SpecDetector => [](ComoMutex /\ Fuera = {} => DeteccionCompleta)
  <1>1. (ComoMutex /\ Fuera = {} /\ Quietos /\ colgo = 0 => Ordenado)
          => (ComoMutex /\ Fuera = {} => DeteccionCompleta)
    <2>1. CASE Quietos /\ colgo = 0
      BY <2>1, DeteccionTotal
    <2>2. CASE ~(Quietos /\ colgo = 0)
      BY <2>2 DEF DeteccionCompleta
    <2> QED
      BY <2>1, <2>2
  <1> QED
    BY <1>1, DetSiempre, PTL
=============================================================================
