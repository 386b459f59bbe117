------------------------ MODULE Planificacion_proofs ------------------------
(***************************************************************************)
(* Proofs about Planificacion, for any set of carpinchos, any degrees of   *)
(* multiprogramming and multiprocessing and any bounds.                    *)
(***************************************************************************)
EXTENDS Planificacion, Listas_proofs

\* What mover_proceso_de_lista does to the seven lists and the processors.
LEMMA MoverMueveUno ==
  ASSUME listas \in [Listas -> Seq(Procesos)], multiprocesamiento \in Int,
         NEW o \in Listas, NEW d \in Listas, o # d,
         NEW i \in DOMAIN listas[o], Mover(o, d, i)
  PROVE  /\ listas' \in [Listas -> Seq(Procesos)]
         /\ Len(listas'[o]) = Len(listas[o]) - 1
         /\ Len(listas'[d]) = Len(listas[d]) + 1
         /\ \A l \in Listas \ {o, d} : listas'[l] = listas[l]
         /\ listas[o][i] \in Procesos
         /\ multiprocesamiento' = IF d = "blocked" THEN multiprocesamiento + 1
                                  ELSE IF d = "exec" THEN multiprocesamiento - 1
                                  ELSE multiprocesamiento
  <1>1. listas[o] \in Seq(Procesos) /\ listas[d] \in Seq(Procesos)
    OBVIOUS
  <1>2. listas[o][i] \in Procesos
    BY <1>1
  <1>3. /\ RemoveAt(listas[o], i) \in Seq(Procesos)
        /\ Len(RemoveAt(listas[o], i)) = Len(listas[o]) - 1
    BY <1>1, QuitarUno
  <1>4. /\ Append(listas[d], listas[o][i]) \in Seq(Procesos)
        /\ Len(Append(listas[d], listas[o][i])) = Len(listas[d]) + 1
    BY <1>1, <1>2
  <1>5. listas' = [l \in Listas |->
                     IF l = d THEN Append(listas[d], listas[o][i])
                     ELSE IF l = o THEN RemoveAt(listas[o], i)
                     ELSE listas[l]]
    BY DEF Mover
  <1>6. multiprocesamiento' = IF d = "blocked" THEN multiprocesamiento + 1
                              ELSE IF d = "exec" THEN multiprocesamiento - 1
                              ELSE multiprocesamiento
    BY DEF Mover
  <1> QED
    BY <1>2, <1>3, <1>4, <1>5, <1>6

\* A move between two different lists keeps the types of what it changes.
LEMMA MoverTipa ==
  ASSUME TypeOK
  PROVE  \A o \in Listas, d \in Listas : \A i \in DOMAIN listas[o] :
           (o # d /\ Mover(o, d, i)) =>
             /\ listas' \in [Listas -> Seq(Procesos)]
             /\ multiprocesamiento' \in Int
             /\ listas[o][i] \in Procesos
  <1> SUFFICES ASSUME NEW o \in Listas, NEW d \in Listas,
                      NEW i \in DOMAIN listas[o], o # d, Mover(o, d, i)
               PROVE  /\ listas' \in [Listas -> Seq(Procesos)]
                      /\ multiprocesamiento' \in Int
                      /\ listas[o][i] \in Procesos
    OBVIOUS
  <1>1. listas \in [Listas -> Seq(Procesos)] /\ multiprocesamiento \in Int
    BY DEF TypeOK
  <1>2. /\ listas' \in [Listas -> Seq(Procesos)]
        /\ listas[o][i] \in Procesos
        /\ multiprocesamiento' = IF d = "blocked" THEN multiprocesamiento + 1
                                 ELSE IF d = "exec" THEN multiprocesamiento - 1
                                 ELSE multiprocesamiento
    BY <1>1, MoverMueveUno
  <1> QED
    BY <1>1, <1>2

\* The lengths after such a move, and the processors it counts.
LEMMA MoverCuenta ==
  ASSUME TypeOK
  PROVE  \A o \in Listas, d \in Listas : \A i \in DOMAIN listas[o] :
           (o # d /\ Mover(o, d, i)) =>
             /\ Len(listas'[o]) = Len(listas[o]) - 1
             /\ Len(listas'[d]) = Len(listas[d]) + 1
             /\ \A l \in Listas \ {o, d} : listas'[l] = listas[l]
             /\ multiprocesamiento' =
                  IF d = "blocked" THEN multiprocesamiento + 1
                  ELSE IF d = "exec" THEN multiprocesamiento - 1
                  ELSE multiprocesamiento
  <1>1. listas \in [Listas -> Seq(Procesos)] /\ multiprocesamiento \in Int
    BY DEF TypeOK
  <1> QED
    BY <1>1, MoverMueveUno

\* What the types say of the seven lists.
LEMMA LargosDeListas ==
  ASSUME TypeOK
  PROVE  /\ \A l \in Listas : Len(listas[l]) \in Nat
         /\ \A l \in Listas : DOMAIN listas[l] = 1..Len(listas[l])
         /\ multiprocesamiento \in Int
         /\ multiprogramacion_disponible \in Int
         /\ sobrantes \in Nat
         /\ solapada \in BOOLEAN
  BY DEF TypeOK

\* avisar_cambio leaves at least one post for each planner, and no post is
\* taken away.
LEMMA AvisoDejaPost ==
  ASSUME NEW s \in [SemKernel -> Nat], NEW n \in Nat \ {0}
  PROVE  /\ Avisado(s, n) \in [SemKernel -> Nat]
         /\ Avisado(s, n)["cambio_largo"] > 0
         /\ Avisado(s, n)["cambio_corto"] > 0
  BY ConstantesOK DEF Avisado, SemKernel, SemCambio
\* A semaphore is waited for only when it is positive, so the waits, the
\* posts and the notifications keep the kernel semaphores natural numbers.
LEMMA SemaforosNaturales ==
  ASSUME TypeOK
  PROVE  /\ \A x \in SemKernel : sem[x] > 0 =>
              /\ Tomado(x) \in [SemKernel -> Nat]
              /\ Avisado(Tomado(x), 1) \in [SemKernel -> Nat]
         /\ \A x \in SemKernel : Posteado(x) \in [SemKernel -> Nat]
         /\ Avisado(sem, 1) \in [SemKernel -> Nat]
         /\ Avisado(sem, 2) \in [SemKernel -> Nat]
  <1>1. sem \in [SemKernel -> Nat]
    BY DEF TypeOK
  <1>2. ASSUME NEW x \in SemKernel, sem[x] > 0
        PROVE  Tomado(x) \in [SemKernel -> Nat]
    BY <1>1, <1>2 DEF Tomado
  <1>3. \A s \in [SemKernel -> Nat], n \in Nat \ {0} :
           Avisado(s, n) \in [SemKernel -> Nat]
    BY AvisoDejaPost
  <1>4. \A x \in SemKernel : Posteado(x) \in [SemKernel -> Nat]
    BY <1>1 DEF Posteado
  <1> QED
    BY <1>1, <1>2, <1>3, <1>4

-----------------------------------------------------------------------------
(* Types *)

\* Every step keeps the type invariant.
LEMMA TipoInductivo == TypeOK /\ [Next]_vars => TypeOK'
  <1> SUFFICES ASSUME TypeOK, [Next]_vars PROVE TypeOK'
    OBVIOUS
  <1>m. \A o \in Listas, d \in Listas : \A i \in DOMAIN listas[o] :
          (o # d /\ Mover(o, d, i)) =>
             /\ listas' \in [Listas -> Seq(Procesos)]
             /\ multiprocesamiento' \in Int
             /\ listas[o][i] \in Procesos
    BY MoverTipa
  <1>s. /\ \A x \in SemKernel : sem[x] > 0 =>
             /\ Tomado(x) \in [SemKernel -> Nat]
             /\ Avisado(Tomado(x), 1) \in [SemKernel -> Nat]
        /\ \A x \in SemKernel : Posteado(x) \in [SemKernel -> Nat]
        /\ Avisado(sem, 1) \in [SemKernel -> Nat]
        /\ Avisado(sem, 2) \in [SemKernel -> Nat]
    BY SemaforosNaturales
  <1>k. /\ "cambio_largo" \in SemKernel /\ "cambio_corto" \in SemKernel
        /\ "cambio_mediano" \in SemKernel /\ "solicitar_block" \in SemKernel
        /\ "salida_block" \in SemKernel /\ "salida_a_exit" \in SemKernel
    BY DEF SemKernel
  <1>o. \A k \in DOMAIN OrdenDeBusqueda :
          OrdenDeBusqueda[k] \in Listas \ {"exit"}
    BY DEF OrdenDeBusqueda, Listas
  <1> USE DEF TypeOK, banderas, carpincho, contadores, hilos, ajenos, historia,
              Quieto
  <1>a. \A l \in Listas : /\ listas[l] \in Seq(Procesos)
                          /\ Len(listas[l]) \in Nat
                          /\ DOMAIN listas[l] = 1..Len(listas[l])
    OBVIOUS
  <1>b. /\ {"new", "ready", "exec", "blocked", "s_blocked", "s_ready",
            "exit"} = Listas
    BY DEF Listas
  <1>1. ASSUME NEW p \in Procesos, Nuevo(p) PROVE TypeOK'
    <2>1. listas' \in [Listas -> Seq(Procesos)]
      BY <1>1, <1>a, <1>b DEF Nuevo
    <2>2. sem' \in [SemKernel -> Nat]
      BY <1>1, <1>s DEF Nuevo
    <2> QED
      BY <1>1, <2>1, <2>2 DEF Nuevo
  <1>2. ASSUME LargoAdmite PROVE TypeOK'
    <2>1. /\ Tomado("cambio_largo") \in [SemKernel -> Nat]
          /\ Avisado(Tomado("cambio_largo"), 1) \in [SemKernel -> Nat]
      BY <1>2, <1>s, <1>k DEF LargoAdmite
    <2>2. CASE /\ multiprogramacion_disponible # 0
               /\ listas["s_ready"] # <<>> \/ listas["new"] # <<>>
      <3> DEFINE o == IF listas["s_ready"] # <<>> THEN "s_ready" ELSE "new"
      <3>1. o \in Listas /\ o # "ready" /\ 1 \in DOMAIN listas[o]
        BY <2>2, <1>a, <1>b
      <3>2. Mover(o, "ready", 1)
        BY <1>2, <2>2 DEF LargoAdmite
      <3> HIDE DEF o
      <3>3. /\ listas' \in [Listas -> Seq(Procesos)]
            /\ multiprocesamiento' \in Int
        BY <3>1, <3>2, <1>m, <1>b
      <3>4. sem' \in [SemKernel -> Nat]
        BY <1>2, <2>1, <2>2 DEF LargoAdmite
      <3> QED
        BY <1>2, <2>2, <3>3, <3>4 DEF LargoAdmite
    <2>3. CASE ~(/\ multiprogramacion_disponible # 0
                 /\ listas["s_ready"] # <<>> \/ listas["new"] # <<>>)
      BY <1>2, <2>1, <2>3 DEF LargoAdmite
    <2> QED
      BY <2>2, <2>3
  <1>3. ASSUME LargoCarga PROVE TypeOK'
    BY <1>3 DEF LargoCarga
  <1>4. ASSUME LargoGuarda PROVE TypeOK'
    BY <1>4 DEF LargoGuarda
  <1>r. \A x \in SemBandera :
          /\ x \in SemKernel
          /\ [por_llegar EXCEPT ![x] = @ + 1] \in [SemBandera -> Nat]
          /\ por_llegar[x] > 0 =>
               [por_llegar EXCEPT ![x] = @ - 1] \in [SemBandera -> Nat]
    BY <1>k DEF SemBandera
  <1>5. ASSUME NEW p \in Procesos, Desconecta(p) PROVE TypeOK'
    <2>1. por_llegar' \in [SemBandera -> Nat]
      BY <1>5, <1>r DEF Desconecta, SemBandera
    <2> QED
      BY <1>5, <2>1 DEF Desconecta
  <1>6. ASSUME NEW p \in Procesos, EligeVictima(p) PROVE TypeOK'
    <2>1. /\ salida_exit' \subseteq Procesos /\ caido' \in Caidas
          /\ detector' \in {"espera", "postea"}
      BY <1>6 DEF EligeVictima, Caidas
    <2> QED
      BY <1>6, <2>1 DEF EligeVictima
  <1>7. ASSUME SalidaBusca PROVE TypeOK'
    <2>3. /\ salida' \in {[pc |-> "busca_blocked"]}
                \cup [pc : {"mueve"}, de : Listas \ {"exit"}, indice : Nat,
                      aux : Procesos]
          /\ multiprocesamiento' \in Int
      BY <1>7, <1>a, <1>o DEF SalidaBusca
    <2> QED
      BY <1>7, <2>3 DEF SalidaBusca
  <1>8. ASSUME SalidaBuscaBlocked PROVE TypeOK'
    BY SMTT(30), <1>8 DEF SalidaBuscaBlocked, Listas, EsPrimero
  <1>9. ASSUME SalidaMueve PROVE TypeOK'
    <2>1. /\ salida.de \in Listas \ {"exit"}
          /\ salida.indice \in Nat /\ salida.aux \in Procesos
      BY <1>9 DEF SalidaMueve
    <2>2. CASE salida.indice \in DOMAIN listas[salida.de]
      <3>1. /\ listas' \in [Listas -> Seq(Procesos)]
            /\ multiprocesamiento' \in Int
            /\ listas[salida.de][salida.indice] \in Procesos
        BY <1>9, <1>b, <2>1, <2>2, <1>m DEF SalidaMueve
      <3>2. sem' \in [SemKernel -> Nat]
        BY <1>9, <2>2, <1>s DEF SalidaMueve
      <3>3. espera' \in [Procesos -> {"nada", "sem", "io"}]
        BY <1>9, <2>1, <2>2 DEF SalidaMueve
      <3> QED
        BY <1>9, <2>1, <2>2, <3>1, <3>2, <3>3 DEF SalidaMueve
    <2>3. CASE salida.indice \notin DOMAIN listas[salida.de]
      BY <1>9, <2>3 DEF SalidaMueve, Caidas
    <2> QED
      BY <2>2, <2>3
  <1>10. ASSUME SalidaSuma PROVE TypeOK'
    BY <1>10, <1>s DEF SalidaSuma
  <1>11. ASSUME Corto PROVE TypeOK'
    <2>1. /\ Tomado("cambio_corto") \in [SemKernel -> Nat]
          /\ Avisado(Tomado("cambio_corto"), 1) \in [SemKernel -> Nat]
      BY <1>11, <1>s, <1>k DEF Corto
    <2>2. ASSUME NEW i \in DOMAIN listas["ready"],
                 Mover("ready", "exec", i),
                 corriendo' = corriendo \cup {listas["ready"][i]},
                 sem' = Avisado(Tomado("cambio_corto"), 1)
          PROVE  TypeOK'
      <3>1. /\ listas' \in [Listas -> Seq(Procesos)]
            /\ multiprocesamiento' \in Int
            /\ listas["ready"][i] \in Procesos
        BY <1>b, <2>2, <1>m
      <3>2. sem' \in [SemKernel -> Nat]
        BY <2>1, <2>2
      <3> QED
        BY <1>11, <2>2, <3>1, <3>2 DEF Corto
    <2> QED
      BY <1>11, <2>1, <2>2 DEF Corto
  <1>12. ASSUME EsperarBloqueo PROVE TypeOK'
    <2>1. Tomado("solicitar_block") \in [SemKernel -> Nat]
      BY <1>12, <1>s, <1>k DEF EsperarBloqueo
    <2> QED
      BY <1>12, <2>1 DEF EsperarBloqueo
  <1>26. ASSUME BloqueoMueve PROVE TypeOK'
    <2>1. ASSUME NEW i \in DOMAIN listas["exec"],
                 Mover("exec", "blocked", i),
                 block' \subseteq block,
                 sem' = Avisado(sem, 1)
          PROVE  TypeOK'
      <3>1. /\ listas' \in [Listas -> Seq(Procesos)]
            /\ multiprocesamiento' \in Int
        BY <1>b, <2>1, <1>m
      <3>2. sem' \in [SemKernel -> Nat]
        BY <2>1, <1>s
      <3> QED
        BY SMTT(30), <1>26, <2>1, <3>1, <3>2 DEF BloqueoMueve
    <2>2. CASE En("exec") \cap block = {}
      BY <1>26, <2>2 DEF BloqueoMueve
    <2>3. CASE En("exec") \cap block # {}
      BY <1>26, <2>1, <2>3 DEF BloqueoMueve, Apagada
    <2> QED
      BY <2>2, <2>3
  <1>13. ASSUME MedianoLee PROVE TypeOK'
    <2>1. /\ Tomado("cambio_mediano") \in [SemKernel -> Nat]
          /\ Avisado(Tomado("cambio_mediano"), 1) \in [SemKernel -> Nat]
      BY <1>13, <1>s, <1>k DEF MedianoLee
    <2> QED
      BY <1>13, <1>a, <1>b, <2>1 DEF MedianoLee
  <1>14. ASSUME MedianoMueve PROVE TypeOK'
    <2>1. CASE mediano.indice \in DOMAIN listas["blocked"]
      <3>1. /\ listas' \in [Listas -> Seq(Procesos)]
            /\ multiprocesamiento' \in Int
        BY <1>14, <1>b, <2>1, <1>m DEF MedianoMueve
      <3>2. sem' \in [SemKernel -> Nat]
        BY <1>14, <2>1, <1>s DEF MedianoMueve
      <3> QED
        BY <1>14, <2>1, <3>1, <3>2 DEF MedianoMueve
    <2>2. CASE mediano.indice \notin DOMAIN listas["blocked"]
      BY <1>14, <2>2 DEF MedianoMueve, Caidas
    <2> QED
      BY <2>1, <2>2
  <1>15. ASSUME MedianoCarga PROVE TypeOK'
    BY <1>15 DEF MedianoCarga
  <1>16. ASSUME MedianoGuarda PROVE TypeOK'
    BY SMTT(30), <1>16, ConstantesOK
       DEF MedianoGuarda, AvisoDeSuspension, SemKernel
  <1>17. ASSUME DesbloqueoLee PROVE TypeOK'
    <2>1. /\ Tomado("salida_block") \in [SemKernel -> Nat]
          /\ Avisado(Tomado("salida_block"), 1) \in [SemKernel -> Nat]
      BY <1>17, <1>s, <1>k DEF DesbloqueoLee
    <2> QED
      BY <1>17, <1>a, <1>b, <2>1 DEF DesbloqueoLee
  <1>18. ASSUME DesbloqueoBusca PROVE TypeOK'
    <2>1. /\ salida_block' \subseteq Procesos
          /\ caido' \in Caidas
          /\ desbloqueo' \in {Quieto, desbloqueo}
               \cup [pc : {"mueve"}, de : {"blocked", "s_blocked"},
                     indice : Nat]
      BY <1>18, <1>a, <1>b DEF DesbloqueoBusca, Apagada, Caidas
    <2> QED
      BY <1>18, <2>1 DEF DesbloqueoBusca
  <1>19. ASSUME DesbloqueoMueve PROVE TypeOK'
    <2>1. /\ desbloqueo.de \in {"blocked", "s_blocked"}
      BY <1>19 DEF DesbloqueoMueve
    <2>2. CASE desbloqueo.indice \in DOMAIN listas[desbloqueo.de]
      <3> DEFINE d == IF desbloqueo.de = "blocked" THEN "ready" ELSE "s_ready"
      <3>1. Mover(desbloqueo.de, d, desbloqueo.indice)
        BY <1>19, <2>2 DEF DesbloqueoMueve
      <3>2. /\ d \in Listas /\ desbloqueo.de \in Listas
            /\ d # desbloqueo.de
        BY <1>b, <2>1
      <3> HIDE DEF d
      <3>3. /\ listas' \in [Listas -> Seq(Procesos)]
            /\ multiprocesamiento' \in Int
        BY <2>2, <3>1, <3>2, <1>m
      <3>4. sem' \in [SemKernel -> Nat]
        BY <1>19, <2>2, <1>s DEF DesbloqueoMueve
      <3> QED
        BY <1>19, <2>2, <3>3, <3>4 DEF DesbloqueoMueve
    <2>3. CASE desbloqueo.indice \notin DOMAIN listas[desbloqueo.de]
      BY <1>19, <2>3 DEF DesbloqueoMueve, Caidas
    <2> QED
      BY <2>2, <2>3
  <1>20. ASSUME NEW p \in Procesos, NEW motivo \in Motivos,
                MarcaBloqueo(p, motivo)
         PROVE  TypeOK'
    BY <1>20 DEF MarcaBloqueo, Motivos
  <1>21. ASSUME NEW p \in Procesos, PosteaBloqueo(p) PROVE TypeOK'
    <2>1. sem' \in [SemKernel -> Nat]
      BY <1>21, <1>s, <1>k DEF PosteaBloqueo
    <2>2. /\ por_postear' \subseteq Procesos
          /\ procesos_esperando_bloqueo' \in Int
      BY <1>21 DEF PosteaBloqueo
    <2> QED
      BY <1>21, <2>1, <2>2 DEF PosteaBloqueo
  <1>22. ASSUME NEW p \in Procesos, ExecTermina(p) PROVE TypeOK'
    BY <1>22 DEF ExecTermina
  <1>23. ASSUME NEW p \in Procesos, FinIO(p) PROVE TypeOK'
    <2>1. por_llegar' \in [SemBandera -> Nat]
      BY <1>23, <1>r DEF FinIO, SemBandera
    <2> QED
      BY <1>23, <2>1 DEF FinIO
  <1>24. ASSUME NEW p \in Procesos, Postea(p) PROVE TypeOK'
    <2>1. seccion.de \in Procesos
      BY <1>24 DEF Postea
    <2> QED
      BY <1>24, <2>1 DEF Postea
  <1>27. ASSUME NEW p \in Procesos, SeccionEntra(p) PROVE TypeOK'
    BY <1>27 DEF SeccionEntra
  <1>28. ASSUME SeccionTomaRecursos \/ SeccionSale PROVE TypeOK'
    BY <1>28 DEF SeccionTomaRecursos, SeccionSale
  <1>29. ASSUME PosteaTrae PROVE TypeOK'
    <2>1. seccion.de \in Procesos /\ seccion.para \in Procesos
      BY <1>29 DEF PosteaTrae
    <2> QED
      BY <1>29, <2>1 DEF PosteaTrae, Caidas
  <1>30. ASSUME PosteaAvisa PROVE TypeOK'
    <2>1. sem' \in [SemKernel -> Nat]
      BY <1>30, <1>s, <1>k DEF PosteaAvisa
    <2>2. seccion.de \in Procesos /\ seccion \in [pc : {"postea"}, de : Procesos]
      BY <1>30 DEF PosteaAvisa
    <2>3. seccion' \in [pc : {"dentro"}, de : Procesos]
      BY <1>30, <2>2 DEF PosteaAvisa
    <2> QED
      BY <1>30, <2>1, <2>3 DEF PosteaAvisa
  <1>31. ASSUME DetectorPostea PROVE TypeOK'
    <2>1. sem' \in [SemKernel -> Nat]
      BY <1>31, <1>s, <1>k DEF DetectorPostea
    <2> QED
      BY <1>31, <2>1 DEF DetectorPostea
  <1>32. ASSUME NEW x \in SemBandera, LlegaPosteo(x) PROVE TypeOK'
    BY <1>32, <1>r, <1>s DEF LlegaPosteo
  <1>33. ASSUME SalidaEntra PROVE TypeOK'
    <2>1. sem' \in [SemKernel -> Nat]
      BY <1>33, <1>s, <1>k DEF SalidaEntra
    <2> QED
      BY <1>33, <2>1 DEF SalidaEntra
  <1>34. ASSUME SalidaTomaRecursos PROVE TypeOK'
    BY <1>34 DEF SalidaTomaRecursos
  <1>35. ASSUME NEW p \in Procesos, SalidaLibera(p) PROVE TypeOK'
    <2>1. salida.de \in Listas \ {"exit"}
      BY <1>35 DEF SalidaLibera
    <2> QED
      BY <1>35, <2>1 DEF SalidaLibera
  <1>36. ASSUME SalidaDespierta PROVE TypeOK'
    <2>1. salida.de \in Listas \ {"exit"} /\ salida.para \in Procesos
      BY <1>36 DEF SalidaDespierta
    <2>2. Posteado("salida_block") \in [SemKernel -> Nat]
      BY <1>s, <1>k
    <2> QED
      BY <1>36, <2>1, <2>2 DEF SalidaDespierta, Caidas
  <1>25. CASE UNCHANGED vars
    BY <1>25 DEF vars
  <1> QED
    BY <1>1, <1>2, <1>3, <1>4, <1>5, <1>6, <1>7, <1>8, <1>9, <1>10, <1>11,
       <1>12, <1>13, <1>14, <1>15, <1>16, <1>17, <1>18, <1>19, <1>20, <1>21,
       <1>22, <1>23, <1>24, <1>25, <1>26, <1>27, <1>28, <1>29, <1>30, <1>31,
       <1>32, <1>33, <1>34, <1>35, <1>36
    DEF Next

LEMMA TipoInicial == Init => TypeOK
  <1> SUFFICES ASSUME Init PROVE TypeOK
    OBVIOUS
  <1>1. /\ listas \in [Listas -> Seq(Procesos)]
        /\ espera \in [Procesos -> {"nada", "sem", "io"}]
        /\ sem \in [SemKernel -> Nat]
    BY DEF Init
  <1>2. /\ multiprogramacion_disponible \in Int
        /\ multiprocesamiento \in Int
        /\ procesos_esperando_bloqueo \in Int
        /\ suspensiones \in Nat /\ sobrantes \in Nat
        /\ caido \in Caidas
    BY ConstantesOK DEF Init, Caidas
  <1>3. /\ largo = Quieto /\ mediano = Quieto
        /\ desbloqueo = Quieto /\ salida = Quieto
        /\ bloqueo = Quieto /\ seccion = Quieto /\ detector = "espera"
        /\ por_llegar \in [SemBandera -> Nat]
    BY DEF Init
  <1>4. /\ block = {} /\ salida_block = {} /\ salida_exit = {}
        /\ corriendo = {} /\ por_postear = {}
    BY DEF Init
  <1>5. solapada \in BOOLEAN
    BY DEF Init
  <1> QED
    BY <1>1, <1>2, <1>3, <1>4, <1>5 DEF TypeOK

\* The type invariant holds in every state of every behaviour.
THEOREM TipoCorrecto == Spec => []TypeOK
  BY TipoInicial, TipoInductivo, PTL DEF Spec
-----------------------------------------------------------------------------
(* The processors *)

\* The processors that are free and those that run somebody.
Balance == multiprocesamiento + Len(listas["exec"])

\* A move changes the free processors and the carpinchos of lista_exec
\* together, except the move out of lista_exec to another list than
\* lista_blocked, which gives no processor back.
LEMMA BalanceDeMover ==
  ASSUME TypeOK
  PROVE  \A o \in Listas, d \in Listas \ {"blocked"} :
           \A i \in DOMAIN listas[o] :
             (o # d /\ Mover(o, d, i)) =>
               Balance' = Balance - (IF o = "exec" THEN 1 ELSE 0)
  <1> SUFFICES ASSUME NEW o \in Listas, NEW d \in Listas \ {"blocked"},
                      NEW i \in DOMAIN listas[o], o # d, Mover(o, d, i)
               PROVE  Balance' = Balance - (IF o = "exec" THEN 1 ELSE 0)
    OBVIOUS
  <1>1. "exec" \in Listas
    BY DEF Listas
  <1>2. multiprocesamiento \in Int /\ Len(listas["exec"]) \in Nat
    BY <1>1, LargosDeListas
  <1>3. /\ Len(listas'[o]) = Len(listas[o]) - 1
        /\ Len(listas'[d]) = Len(listas[d]) + 1
        /\ \A l \in Listas \ {o, d} : listas'[l] = listas[l]
        /\ multiprocesamiento' = IF d = "exec" THEN multiprocesamiento - 1
                                 ELSE multiprocesamiento
    BY MoverCuenta
  <1>4. CASE d = "exec"
    BY <1>2, <1>3, <1>4 DEF Balance
  <1>5. CASE d # "exec" /\ o = "exec"
    BY <1>2, <1>3, <1>5 DEF Balance
  <1>6. CASE d # "exec" /\ o # "exec"
    BY <1>1, <1>2, <1>3, <1>6 DEF Balance
  <1> QED
    BY <1>4, <1>5, <1>6

\* The move from lista_exec to lista_blocked gives the processor back.
LEMMA BalanceDeBloqueo ==
  ASSUME TypeOK
  PROVE  \A o \in Listas, d \in Listas : \A i \in DOMAIN listas[o] :
           (o = "exec" /\ d = "blocked" /\ Mover(o, d, i)) =>
             Balance' = Balance
  <1> SUFFICES ASSUME NEW o \in Listas, NEW d \in Listas,
                      NEW i \in DOMAIN listas[o], o # d, Mover(o, d, i)
               PROVE  (o = "exec" /\ d = "blocked") => Balance' = Balance
    OBVIOUS
  <1>1. "exec" \in Listas
    BY DEF Listas
  <1>2. multiprocesamiento \in Int /\ Len(listas["exec"]) \in Nat
    BY <1>1, LargosDeListas
  <1>3. Len(listas'[o]) = Len(listas[o]) - 1
    BY MoverCuenta
  <1>4. d = "blocked" => multiprocesamiento' = multiprocesamiento + 1
    BY <1>2 DEF Mover
  <1> QED
    BY <1>2, <1>3, <1>4 DEF Balance

\* Every step keeps the processors exact: the three moves that change
\* lista_exec count them, and the exit gives its processor back one step
\* before it leaves the list.
LEMMA ExactoInductivo ==
  TypeOK /\ MultiprocesamientoExacto /\ [Next]_vars
  => MultiprocesamientoExacto'
  <1> SUFFICES ASSUME TypeOK, MultiprocesamientoExacto, [Next]_vars
               PROVE  MultiprocesamientoExacto'
    OBVIOUS
  <1>1. /\ "new" \in Listas /\ "ready" \in Listas /\ "exec" \in Listas
        /\ "blocked" \in Listas /\ "s_blocked" \in Listas
        /\ "s_ready" \in Listas /\ "exit" \in Listas
    BY DEF Listas
  <1>2. /\ Balance \in Int /\ GradoMultiprocesamiento \in Nat
        /\ Len(listas["exec"]) \in Nat /\ multiprocesamiento \in Int
    BY <1>1, LargosDeListas, ConstantesOK DEF Balance
  <1>3. \A o \in Listas, d \in Listas \ {"blocked"} :
          \A i \in DOMAIN listas[o] :
            (o # d /\ Mover(o, d, i)) =>
               Balance' = Balance - (IF o = "exec" THEN 1 ELSE 0)
    BY BalanceDeMover
  <1>i. Balance = GradoMultiprocesamiento
                  + (IF salida.pc = "mueve"
                     THEN IF salida.de = "exec" THEN 1 ELSE 0 ELSE 0)
    BY DEF MultiprocesamientoExacto, Balance
  <1>q. SUFFICES Balance' = GradoMultiprocesamiento
                            + (IF salida'.pc = "mueve"
                               THEN IF salida'.de = "exec" THEN 1 ELSE 0
                               ELSE 0)
    BY DEF MultiprocesamientoExacto, Balance
  <1>u. (UNCHANGED <<multiprocesamiento, listas>>) => Balance' = Balance
    BY DEF Balance
  <1>4. ASSUME NEW p \in Procesos, Nuevo(p)
        PROVE  Balance' = Balance /\ salida' = salida
    <2>1. listas'["exec"] = listas["exec"]
      BY <1>4 DEF Nuevo, TypeOK
    <2> QED
      BY <1>4, <2>1 DEF Nuevo, hilos, contadores, Balance
  <1>5. ASSUME LargoAdmite PROVE Balance' = Balance /\ salida' = salida
    <2>1. \/ Mover("s_ready", "ready", 1) /\ 1 \in DOMAIN listas["s_ready"]
          \/ Mover("new", "ready", 1) /\ 1 \in DOMAIN listas["new"]
          \/ UNCHANGED <<multiprocesamiento, listas>>
      BY <1>1, <1>5 DEF LargoAdmite, TypeOK
    <2>2. Balance' = Balance
      BY <1>1, <1>2, <1>3, <1>u, <2>1
    <2> QED
      BY <1>5, <2>2 DEF LargoAdmite
  <1>6. ASSUME SalidaBusca
        PROVE  Balance' = GradoMultiprocesamiento
                          + (IF salida'.pc = "mueve"
                             THEN IF salida'.de = "exec" THEN 1 ELSE 0
                             ELSE 0)
    <2>1. salida.pc = "semaforos"
      BY <1>6 DEF SalidaBusca
    <2>2. /\ listas' = listas
          /\ \/ /\ salida'.pc = "mueve"
                /\ multiprocesamiento' = multiprocesamiento
                                         + (IF salida'.de = "exec"
                                            THEN 1 ELSE 0)
             \/ salida'.pc # "mueve" /\ UNCHANGED multiprocesamiento
      BY <1>6 DEF SalidaBusca
    <2> QED
      BY <1>2, <1>i, <2>1, <2>2 DEF Balance
  <1>7. ASSUME SalidaBuscaBlocked
        PROVE  /\ Balance' = Balance /\ salida.pc # "mueve"
               /\ salida'.pc = "mueve" => salida'.de # "exec"
    BY <1>7, <1>u DEF SalidaBuscaBlocked, contadores, Quieto
  <1>8. ASSUME SalidaMueve
        PROVE  \/ /\ Balance' = Balance
                               - (IF salida.de = "exec" THEN 1 ELSE 0)
                  /\ salida.pc = "mueve" /\ salida'.pc = "libera"
               \/ Balance' = Balance /\ salida' = salida
    <2>1. /\ salida.pc = "mueve"
          /\ salida.de \in Listas /\ salida.de # "exit"
      BY <1>8 DEF SalidaMueve, TypeOK, Quieto
    <2>2. CASE salida.indice \in DOMAIN listas[salida.de]
      <3>1. Mover(salida.de, "exit", salida.indice) /\ salida'.pc = "libera"
        BY <1>8, <2>2 DEF SalidaMueve
      <3>2. Balance' = Balance - (IF salida.de = "exec" THEN 1 ELSE 0)
        BY <1>1, <1>3, <2>1, <2>2, <3>1
      <3> QED
        BY <2>1, <3>1, <3>2
    <2>3. CASE salida.indice \notin DOMAIN listas[salida.de]
      BY <1>8, <1>u, <2>3 DEF SalidaMueve
    <2> QED
      BY <2>2, <2>3
  <1>9. ASSUME SalidaSuma
        PROVE  Balance' = Balance /\ salida.pc = "libera" /\ salida' = Quieto
    BY <1>9, <1>u DEF SalidaSuma
  <1>19. ASSUME \/ SalidaEntra \/ SalidaTomaRecursos \/ SalidaDespierta
                \/ \E p \in Procesos : SalidaLibera(p)
         PROVE  /\ Balance' = Balance /\ salida.pc # "mueve"
                /\ salida'.pc # "mueve"
    BY <1>19, <1>u DEF SalidaEntra, SalidaTomaRecursos, SalidaDespierta,
       SalidaLibera, MutexListasLibre, contadores
  <1>10. ASSUME Corto PROVE Balance' = Balance /\ salida' = salida
    <2>1. ASSUME NEW i \in DOMAIN listas["ready"], Mover("ready", "exec", i)
          PROVE  Balance' = Balance
      BY <1>1, <1>2, <1>3, <2>1
    <2>2. \/ \E i \in DOMAIN listas["ready"] : Mover("ready", "exec", i)
          \/ UNCHANGED <<multiprocesamiento, listas>>
      BY <1>10 DEF Corto
    <2> QED
      BY <1>10, <1>u, <2>1, <2>2 DEF Corto, hilos
  <1>11. ASSUME BloqueoMueve PROVE Balance' = Balance /\ salida' = salida
    <2>1. \/ \E i \in DOMAIN listas["exec"] : Mover("exec", "blocked", i)
          \/ UNCHANGED <<multiprocesamiento, listas>>
      BY <1>11 DEF BloqueoMueve
    <2>2. \A o \in Listas, d \in Listas : \A i \in DOMAIN listas[o] :
             (o = "exec" /\ d = "blocked" /\ Mover(o, d, i)) =>
               Balance' = Balance
      BY BalanceDeBloqueo
    <2> QED
      BY <1>1, <1>11, <1>u, <2>1, <2>2 DEF BloqueoMueve, hilos
  <1>12. ASSUME MedianoMueve PROVE Balance' = Balance /\ salida' = salida
    <2>1. \/ \E i \in DOMAIN listas["blocked"] :
               Mover("blocked", "s_blocked", i)
          \/ UNCHANGED <<multiprocesamiento, listas>>
      BY <1>12 DEF MedianoMueve
    <2>2. Balance' = Balance
      BY <1>1, <1>2, <1>3, <1>u, <2>1
    <2> QED
      BY <1>12, <2>2 DEF MedianoMueve
  <1>13. ASSUME DesbloqueoMueve PROVE Balance' = Balance /\ salida' = salida
    <2>1. \/ \E i \in DOMAIN listas["blocked"] : Mover("blocked", "ready", i)
          \/ \E i \in DOMAIN listas["s_blocked"] :
               Mover("s_blocked", "s_ready", i)
          \/ UNCHANGED <<multiprocesamiento, listas>>
      BY <1>13 DEF DesbloqueoMueve, TypeOK, Quieto
    <2>2. Balance' = Balance
      BY <1>1, <1>2, <1>3, <1>u, <2>1
    <2> QED
      BY <1>13, <2>2 DEF DesbloqueoMueve
  \* the actions that move nobody and are not hilo_salida_a_exit
  <1>14. \/ \E p \in Procesos : Nuevo(p)
         \/ LargoAdmite \/ SalidaBusca \/ SalidaBuscaBlocked
         \/ SalidaMueve \/ SalidaSuma \/ Corto \/ BloqueoMueve
         \/ SalidaEntra \/ SalidaTomaRecursos \/ SalidaDespierta
         \/ \E p \in Procesos : SalidaLibera(p)
         \/ MedianoMueve \/ DesbloqueoMueve
         \/ UNCHANGED <<listas, multiprocesamiento, salida>>
    BY DEF Next, vars, LargoCarga, LargoGuarda, MedianoLee, MedianoCarga,
       MedianoGuarda, DesbloqueoLee, DesbloqueoBusca, Desconecta,
       EligeVictima, MarcaBloqueo, PosteaBloqueo, ExecTermina, FinIO,
       Postea, EsperarBloqueo, hilos, DetectorPostea, LlegaPosteo, SeccionEntra, SeccionTomaRecursos,
       SeccionSale, PosteaTrae, PosteaAvisa, ajenos, contadores
  <1>15. CASE Balance' = Balance /\ salida' = salida
    BY <1>i, <1>15
  <1>16. CASE SalidaBuscaBlocked
    BY <1>2, <1>i, <1>7, <1>16
  <1>17. CASE SalidaMueve
    BY <1>2, <1>i, <1>8, <1>15, <1>17
  <1>18. CASE SalidaSuma
    BY <1>2, <1>i, <1>9, <1>18 DEF Quieto
  <1>20. CASE \/ SalidaEntra \/ SalidaTomaRecursos \/ SalidaDespierta
              \/ \E p \in Procesos : SalidaLibera(p)
    BY <1>2, <1>i, <1>19, <1>20
  <1> QED
    BY <1>4, <1>5, <1>6, <1>10, <1>11, <1>12, <1>13, <1>14, <1>15, <1>16,
       <1>17, <1>18, <1>20, <1>u

\* Every processor of the configuration is free or runs a carpincho of
\* lista_exec, for any degrees and any carpinchos.
THEOREM ProcesadoresExactos == Spec => []MultiprocesamientoExacto
  <1>1. Init => MultiprocesamientoExacto
    BY ConstantesOK DEF Init, MultiprocesamientoExacto, Quieto, Listas
  <1> QED
    BY <1>1, TipoCorrecto, ExactoInductivo, PTL DEF Spec

-----------------------------------------------------------------------------
(* The planners do not sleep while they have work *)

\* The semaphores of the two planners, and those that the other threads take
LEMMA NombresDeSemaforos ==
  /\ "cambio_largo" \in SemKernel /\ "cambio_corto" \in SemKernel
  /\ "cambio_mediano" \in SemKernel /\ "solicitar_block" \in SemKernel
  /\ "salida_block" \in SemKernel /\ "salida_a_exit" \in SemKernel
  BY DEF SemKernel

\* avisar_cambio leaves a post for every planner, and a wait or a post of
\* another semaphore leaves those of the planners as they are.
LEMMA SemaforosDePlanificadores ==
  ASSUME TypeOK
  PROVE  /\ \A y \in SemKernel, x \in {"cambio_largo", "cambio_corto"} :
              sem[y] > 0 => Avisado(Tomado(y), 1)[x] > 0
         /\ \A x \in {"cambio_largo", "cambio_corto"} :
              Avisado(sem, 1)[x] > 0 /\ Avisado(sem, 2)[x] > 0
         /\ \A y \in SemKernel, x \in SemKernel :
              x # y => Tomado(y)[x] = sem[x] /\ Posteado(y)[x] = sem[x]
  <1>1. sem \in [SemKernel -> Nat]
    BY DEF TypeOK
  <1>2. \A s \in [SemKernel -> Nat], n \in Nat \ {0} :
          Avisado(s, n)["cambio_largo"] > 0 /\ Avisado(s, n)["cambio_corto"] > 0
    BY AvisoDejaPost
  <1>3. \A y \in SemKernel : sem[y] > 0 => Tomado(y) \in [SemKernel -> Nat]
    BY SemaforosNaturales
  <1>4. \A y \in SemKernel, x \in SemKernel :
          x # y => Tomado(y)[x] = sem[x] /\ Posteado(y)[x] = sem[x]
    BY <1>1 DEF Tomado, Posteado
  <1> QED
    BY <1>1, <1>2, <1>3, <1>4

\* What a step of another thread does to the semaphore of a planner: it
\* leaves a post in it, or it leaves it as it was and moves nobody; and only
\* hilo_salida_a_exit gives a processor back without a move.
LEMMA PasosDeOtros ==
  ASSUME TypeOK, Next,
         NEW x \in {"cambio_largo", "cambio_corto"},
         x = "cambio_largo" => ~LargoAdmite,
         x = "cambio_corto" => ~Corto
  PROVE  \/ sem'[x] > 0
         \/ /\ sem'[x] = sem[x] /\ listas' = listas
            /\ multiprocesamiento' = multiprocesamiento \/ SalidaBusca
  <1>n. /\ "cambio_largo" \in SemKernel /\ "cambio_corto" \in SemKernel
        /\ "cambio_mediano" \in SemKernel /\ "solicitar_block" \in SemKernel
        /\ "salida_block" \in SemKernel /\ "salida_a_exit" \in SemKernel
        /\ x \in SemKernel
    BY NombresDeSemaforos
  <1>s. /\ \A y \in SemKernel : sem[y] > 0 => Avisado(Tomado(y), 1)[x] > 0
        /\ Avisado(sem, 1)[x] > 0 /\ Avisado(sem, 2)[x] > 0
        /\ \A y \in SemKernel :
             x # y => Tomado(y)[x] = sem[x] /\ Posteado(y)[x] = sem[x]
    BY <1>n, SemaforosDePlanificadores
  <1> DEFINE Bien == \/ sem'[x] > 0
                     \/ /\ sem'[x] = sem[x] /\ listas' = listas
                        /\ \/ multiprocesamiento' = multiprocesamiento
                           \/ SalidaBusca
  <1> USE DEF contadores
  <1>1. ASSUME NEW p \in Procesos, Nuevo(p) PROVE Bien
    BY <1>1, <1>s DEF Nuevo
  <1>2. ASSUME LargoAdmite PROVE Bien
    <2>1. Tomado("cambio_largo")[x] = sem[x]
      BY <1>2, <1>n, <1>s
    <2>2. \/ sem' = Avisado(Tomado("cambio_largo"), 1)
          \/ /\ sem' = Tomado("cambio_largo") /\ listas' = listas
             /\ multiprocesamiento' = multiprocesamiento
      BY <1>2 DEF LargoAdmite
    <2>3. Avisado(Tomado("cambio_largo"), 1)[x] > 0
      BY <1>2, <1>n, <1>s DEF LargoAdmite
    <2> QED
      BY <2>1, <2>2, <2>3
  <1>3. ASSUME LargoCarga \/ LargoGuarda PROVE Bien
    BY <1>3 DEF LargoCarga, LargoGuarda
  <1>4. ASSUME NEW p \in Procesos, Desconecta(p) \/ EligeVictima(p) PROVE Bien
    BY <1>4 DEF Desconecta, EligeVictima
  <1>5. ASSUME SalidaBusca PROVE Bien
    BY <1>5 DEF SalidaBusca
  <1>18. ASSUME SalidaEntra PROVE Bien
    BY <1>18, <1>n, <1>s DEF SalidaEntra
  <1>19. ASSUME \/ SalidaTomaRecursos
                \/ \E p \in Procesos : SalidaLibera(p)
         PROVE Bien
    BY <1>19 DEF SalidaTomaRecursos, SalidaLibera
  <1>20. ASSUME SalidaDespierta PROVE Bien
    BY <1>20, <1>n, <1>s DEF SalidaDespierta
  <1>17. ASSUME SalidaBuscaBlocked PROVE Bien
    BY <1>17 DEF SalidaBuscaBlocked
  <1>6. ASSUME SalidaMueve \/ SalidaSuma PROVE Bien
    BY <1>6, <1>s DEF SalidaMueve, SalidaSuma
  <1>7. ASSUME Corto PROVE Bien
    <2>1. Tomado("cambio_corto")[x] = sem[x]
      BY <1>7, <1>n, <1>s
    <2>2. \/ sem' = Avisado(Tomado("cambio_corto"), 1)
          \/ /\ sem' = Tomado("cambio_corto") /\ listas' = listas
             /\ multiprocesamiento' = multiprocesamiento
      BY <1>7 DEF Corto
    <2>3. Avisado(Tomado("cambio_corto"), 1)[x] > 0
      BY <1>7, <1>n, <1>s DEF Corto
    <2> QED
      BY <2>1, <2>2, <2>3
  <1>8. ASSUME EsperarBloqueo PROVE Bien
    BY <1>8, <1>n, <1>s DEF EsperarBloqueo
  <1>21. ASSUME BloqueoMueve PROVE Bien
    BY <1>21, <1>s DEF BloqueoMueve
  <1>9. ASSUME MedianoLee PROVE Bien
    BY <1>9, <1>n, <1>s DEF MedianoLee
  <1>10. ASSUME MedianoMueve \/ MedianoCarga PROVE Bien
    BY <1>10, <1>s DEF MedianoMueve, MedianoCarga
  <1>11. ASSUME MedianoGuarda PROVE Bien
    <2>1. /\ sem' = AvisoDeSuspension(sem) /\ listas' = listas
          /\ multiprocesamiento' = multiprocesamiento
      BY <1>11 DEF MedianoGuarda
    <2>2. sem \in [SemKernel -> Nat] /\ MaxAvisos \in Nat \ {0}
      BY ConstantesOK DEF TypeOK
    <2>3. /\ AvisoDeSuspension(sem)["cambio_largo"] > 0
          /\ AvisoDeSuspension(sem)["cambio_corto"] = sem["cambio_corto"]
      BY <2>2, <1>n DEF AvisoDeSuspension
    <2> QED
      BY <2>1, <2>3
  <1>12. ASSUME DesbloqueoLee \/ DesbloqueoBusca PROVE Bien
    BY <1>12, <1>n, <1>s DEF DesbloqueoLee, DesbloqueoBusca
  <1>13. ASSUME DesbloqueoMueve PROVE Bien
    BY <1>13, <1>s DEF DesbloqueoMueve
  <1>14. ASSUME NEW p \in Procesos, NEW motivo \in Motivos,
                MarcaBloqueo(p, motivo)
         PROVE  Bien
    BY <1>14 DEF MarcaBloqueo
  <1>15. ASSUME NEW p \in Procesos,
                PosteaBloqueo(p) \/ ExecTermina(p) \/ FinIO(p)
         PROVE  Bien
    BY <1>15, <1>n, <1>s DEF PosteaBloqueo, ExecTermina, FinIO
  <1>16. ASSUME NEW p \in Procesos, Postea(p) \/ SeccionEntra(p)
         PROVE  Bien
    BY <1>16 DEF Postea, SeccionEntra
  <1>22. ASSUME SeccionTomaRecursos \/ PosteaTrae \/ SeccionSale PROVE Bien
    BY <1>22 DEF SeccionTomaRecursos, PosteaTrae, SeccionSale
  <1>23. ASSUME PosteaAvisa \/ DetectorPostea PROVE Bien
    BY <1>23, <1>n, <1>s DEF PosteaAvisa, DetectorPostea
  <1>24. ASSUME NEW y \in SemBandera, LlegaPosteo(y) PROVE Bien
    <2>1. y \in SemKernel /\ x # y
      BY <1>n DEF SemBandera
    <2> QED
      BY <1>24, <1>s, <2>1 DEF LlegaPosteo
  <1> QED
    BY <1>1, <1>2, <1>3, <1>4, <1>5, <1>6, <1>7, <1>8, <1>9, <1>10, <1>11,
       <1>12, <1>13, <1>14, <1>15, <1>16, <1>17, <1>18, <1>19, <1>20, <1>21,
       <1>22, <1>23, <1>24
    DEF Next
-----------------------------------------------------------------------------
(* The long term planner *)

\* While the long term planner is between its move and the store of its
\* counter, the notification of that move is still there for it.
EnCurso == largo.pc # "espera" => sem["cambio_largo"] > 0

\* Each step keeps it awake.
LEMMA LargoInductivo ==
  TypeOK /\ EnCurso /\ LargoDespierto /\ [Next]_vars
  => EnCurso' /\ LargoDespierto'
  <1> SUFFICES ASSUME TypeOK, EnCurso, LargoDespierto, [Next]_vars
               PROVE  EnCurso' /\ LargoDespierto'
    OBVIOUS
  <1>1. CASE LargoAdmite
    <2>1. Avisado(Tomado("cambio_largo"), 1)["cambio_largo"] > 0
      BY <1>1, NombresDeSemaforos, SemaforosDePlanificadores DEF LargoAdmite
    <2>2. CASE /\ multiprogramacion_disponible # 0
               /\ listas["s_ready"] # <<>> \/ listas["new"] # <<>>
      <3>1. sem' = Avisado(Tomado("cambio_largo"), 1)
        BY <1>1, <2>2 DEF LargoAdmite
      <3> QED
        BY <2>1, <3>1 DEF EnCurso, LargoDespierto
    <2>3. CASE ~(/\ multiprogramacion_disponible # 0
                 /\ listas["s_ready"] # <<>> \/ listas["new"] # <<>>)
      BY <1>1, <2>3 DEF LargoAdmite, EnCurso, LargoDespierto, MutexListasLibre
    <2> QED
      BY <2>2, <2>3
  <1>2. CASE Next /\ ~LargoAdmite
    <2>1. \/ sem'["cambio_largo"] > 0
          \/ /\ sem'["cambio_largo"] = sem["cambio_largo"]
             /\ listas' = listas
      BY <1>2, PasosDeOtros
    <2>2. CASE sem'["cambio_largo"] > 0
      BY <2>2 DEF EnCurso, LargoDespierto
    <2>3. CASE LargoCarga \/ LargoGuarda
      <3>1. largo.pc # "espera"
        BY <2>3 DEF LargoCarga, LargoGuarda
      <3> QED
        BY <2>1, <3>1 DEF EnCurso, LargoDespierto
    <2>4. CASE MedianoGuarda \/ SalidaSuma
      <3>1. sem \in [SemKernel -> Nat] /\ MaxAvisos \in Nat \ {0}
        BY ConstantesOK DEF TypeOK
      <3>2. AvisoDeSuspension(sem)["cambio_largo"] > 0
        BY <3>1, NombresDeSemaforos DEF AvisoDeSuspension
      <3>3. Avisado(sem, 1)["cambio_largo"] > 0
        BY SemaforosDePlanificadores
      <3> QED
        BY <2>4, <3>2, <3>3 DEF MedianoGuarda, SalidaSuma, EnCurso,
           LargoDespierto
    <2>5. CASE ~(\/ LargoCarga \/ LargoGuarda \/ MedianoGuarda \/ SalidaSuma)
      <3>1. /\ largo' = largo /\ caido = "no"
            /\ multiprogramacion_disponible' = multiprogramacion_disponible
        BY <1>2, <2>5
        DEF Next, Nuevo, SalidaBusca, SalidaBuscaBlocked, SalidaMueve, Corto,
            EsperarBloqueo, MedianoLee, MedianoMueve, MedianoCarga,
            DesbloqueoLee, DesbloqueoBusca, DesbloqueoMueve, Desconecta,
            EligeVictima, MarcaBloqueo, PosteaBloqueo, ExecTermina, FinIO,
            Postea, hilos, contadores, ajenos, SalidaEntra,
            SalidaTomaRecursos, SalidaLibera, SalidaDespierta, BloqueoMueve,
            DetectorPostea, LlegaPosteo, SeccionEntra, SeccionTomaRecursos,
            SeccionSale, PosteaTrae, PosteaAvisa
      <3> QED
        BY <2>1, <2>2, <3>1 DEF EnCurso, LargoDespierto
    <2> QED
      BY <2>3, <2>4, <2>5
  <1>3. CASE UNCHANGED vars
    BY <1>3 DEF vars, EnCurso, LargoDespierto
  <1> QED
    BY <1>1, <1>2, <1>3

\* The long term planner never sleeps while it could admit somebody.
THEOREM LargoNuncaDuerme == Spec => []LargoDespierto
  <1>1. Init => EnCurso /\ LargoDespierto
    BY DEF Init, EnCurso, LargoDespierto, Quieto, Listas
  <1> QED
    BY <1>1, TipoCorrecto, LargoInductivo, PTL DEF Spec
-----------------------------------------------------------------------------
(* The short term planner *)

\* Each step keeps it awake.
LEMMA CortoInductivo ==
  TypeOK /\ CortoDespierto /\ [Next]_vars => CortoDespierto'
  <1> SUFFICES ASSUME TypeOK, CortoDespierto, [Next]_vars
               PROVE  CortoDespierto'
    OBVIOUS
  <1>1. CASE Corto
    <2>1. Avisado(Tomado("cambio_corto"), 1)["cambio_corto"] > 0
      BY <1>1, NombresDeSemaforos, SemaforosDePlanificadores DEF Corto
    <2>2. \/ sem' = Avisado(Tomado("cambio_corto"), 1)
          \/ /\ ~(multiprocesamiento # 0 /\ listas["ready"] # <<>>)
             /\ UNCHANGED <<listas, multiprocesamiento>>
      BY <1>1 DEF Corto
    <2> QED
      BY <2>1, <2>2 DEF CortoDespierto
  <1>2. CASE Next /\ ~Corto
    <2>1. \/ sem'["cambio_corto"] > 0
          \/ /\ sem'["cambio_corto"] = sem["cambio_corto"]
             /\ listas' = listas
             /\ multiprocesamiento' = multiprocesamiento \/ SalidaBusca
      BY <1>2, PasosDeOtros
    <2>2. CASE sem'["cambio_corto"] > 0
      BY <2>2 DEF CortoDespierto
    <2>3. CASE SalidaBusca
      <3>1. /\ salida.pc = "semaforos" /\ caido = "no"
            /\ salida'.pc = "mueve" \/ multiprocesamiento' = multiprocesamiento
        BY <2>3 DEF SalidaBusca
      <3> QED
        BY <2>1, <3>1 DEF CortoDespierto
    <2>4. CASE SalidaBuscaBlocked
      BY <2>1, <2>4 DEF SalidaBuscaBlocked, CortoDespierto, contadores
    <2>5. CASE SalidaMueve \/ SalidaSuma
      <3>1. Avisado(sem, 1)["cambio_corto"] > 0
            /\ Avisado(sem, 2)["cambio_corto"] > 0
        BY SemaforosDePlanificadores
      <3>2. sem' = Avisado(sem, 1) \/ sem' = Avisado(sem, 2)
            \/ caido' = "elemento_nulo"
        BY <2>5 DEF SalidaMueve, SalidaSuma
      <3> QED
        BY <3>1, <3>2 DEF CortoDespierto
    <2>7. CASE \/ SalidaEntra \/ SalidaTomaRecursos \/ SalidaDespierta
               \/ \E p \in Procesos : SalidaLibera(p)
      <3>1. /\ salida.pc # "mueve" /\ caido = "no"
            /\ multiprocesamiento' = multiprocesamiento
        BY <2>7 DEF SalidaEntra, SalidaTomaRecursos, SalidaDespierta,
           SalidaLibera, MutexListasLibre, contadores
      <3> QED
        BY <2>1, <3>1 DEF CortoDespierto
    <2>6. CASE ~(\/ SalidaBusca \/ SalidaBuscaBlocked
                 \/ SalidaMueve \/ SalidaSuma
                 \/ SalidaEntra \/ SalidaTomaRecursos \/ SalidaDespierta
                 \/ \E p \in Procesos : SalidaLibera(p))
      <3>1. salida' = salida /\ caido = "no"
        BY <1>2, <2>6
        DEF Next, Nuevo, LargoAdmite, LargoCarga, LargoGuarda,
            EsperarBloqueo, MedianoLee, MedianoMueve, MedianoCarga,
            MedianoGuarda,
            DesbloqueoLee, DesbloqueoBusca, DesbloqueoMueve, Desconecta,
            EligeVictima, MarcaBloqueo, PosteaBloqueo, ExecTermina, FinIO,
            Postea, hilos, contadores, ajenos, BloqueoMueve,
            DetectorPostea, LlegaPosteo, SeccionEntra, SeccionTomaRecursos,
            SeccionSale, PosteaTrae, PosteaAvisa
      <3> QED
        BY <2>1, <2>6, <3>1 DEF CortoDespierto
    <2> QED
      BY <2>3, <2>4, <2>5, <2>6, <2>7
  <1>3. CASE UNCHANGED vars
    BY <1>3 DEF vars, CortoDespierto
  <1> QED
    BY <1>1, <1>2, <1>3

\* The short term planner never sleeps while it could dispatch somebody.
THEOREM CortoNuncaDuerme == Spec => []CortoDespierto
  <1>1. Init => CortoDespierto
    BY DEF Init, CortoDespierto, Listas
  <1> QED
    BY <1>1, TipoCorrecto, CortoInductivo, PTL DEF Spec

-----------------------------------------------------------------------------
(* The accounting of multiprogramacion_disponible *)

\* The lists whose carpinchos count against the degree
Cargadas == {"ready", "exec", "blocked"}

\* What a carpincho of list l counts for
Peso(l) == IF l \in Cargadas THEN 1 ELSE 0

\* A move changes the number of admitted carpinchos by what its two lists
\* say.
LEMMA AdmitidosDeMover ==
  ASSUME TypeOK
  PROVE  \A o \in Listas, d \in Listas : \A i \in DOMAIN listas[o] :
           (o # d /\ Mover(o, d, i)) =>
             Admitidos' = Admitidos + Peso(d) - Peso(o)
  <1> SUFFICES ASSUME NEW o \in Listas, NEW d \in Listas,
                      NEW i \in DOMAIN listas[o], o # d, Mover(o, d, i)
               PROVE  Admitidos' = Admitidos + Peso(d)
                                             - Peso(o)
    OBVIOUS
  <1>1. "ready" \in Listas /\ "exec" \in Listas /\ "blocked" \in Listas
    BY DEF Listas
  <1>2. /\ Len(listas["ready"]) \in Nat /\ Len(listas["exec"]) \in Nat
        /\ Len(listas["blocked"]) \in Nat
    BY <1>1, LargosDeListas
  <1> DEFINE Cambio(l) == IF l = d THEN 1 ELSE IF l = o THEN -1 ELSE 0
  <1>r. /\ Len(listas'[o]) = Len(listas[o]) - 1
        /\ Len(listas'[d]) = Len(listas[d]) + 1
        /\ \A l \in Listas \ {o, d} : listas'[l] = listas[l]
    BY MoverCuenta
  <1>3. ASSUME NEW l \in Listas, Len(listas[l]) \in Nat
        PROVE  Len(listas'[l]) = Len(listas[l]) + Cambio(l)
    <2>1. CASE l = d
      BY <1>r, <2>1
    <2>2. CASE l = o
      BY <1>r, <1>3, <2>2
    <2>3. CASE l # d /\ l # o
      BY <1>r, <1>3, <2>3
    <2> QED
      BY <2>1, <2>2, <2>3
  <1>4. Cambio("ready") + Cambio("exec") + Cambio("blocked")
        = Peso(d) - Peso(o)
    BY DEF Peso, Cargadas
  <1>5. /\ Cambio("ready") \in Int /\ Cambio("exec") \in Int
        /\ Cambio("blocked") \in Int
        /\ Peso(d) \in Int /\ Peso(o) \in Int
    BY DEF Peso
  <1> HIDE DEF Cambio
  <1>6. Admitidos' = (Len(listas["ready"]) + Cambio("ready"))
                     + (Len(listas["exec"]) + Cambio("exec"))
                     + (Len(listas["blocked"]) + Cambio("blocked"))
    BY <1>1, <1>2, <1>3 DEF Admitidos
  <1>7. Admitidos = Len(listas["ready"]) + Len(listas["exec"])
                    + Len(listas["blocked"])
    BY DEF Admitidos
  <1> DEFINE r == Len(listas["ready"])    e == Len(listas["exec"])
             b == Len(listas["blocked"])  cr == Cambio("ready")
             ce == Cambio("exec")         cb == Cambio("blocked")
  <1>8. Admitidos' = Admitidos + (cr + ce + cb)
    <2>1. /\ r \in Int /\ e \in Int /\ b \in Int
          /\ cr \in Int /\ ce \in Int /\ cb \in Int
          /\ Admitidos' = (r + cr) + (e + ce) + (b + cb)
          /\ Admitidos = r + e + b
      BY <1>2, <1>5, <1>6, <1>7
    <2> HIDE DEF r, e, b, cr, ce, cb
    <2> QED
      BY <2>1
  <1>9. Admitidos \in Int
    BY <1>2, <1>7
  <1> QED
    BY <1>4, <1>5, <1>8, <1>9

-----------------------------------------------------------------------------
\* The units that are free or used, less those given back in excess
Cuenta == multiprogramacion_disponible + Admitidos - sobrantes

\* The units of the moves whose update of the counter is still to come
DeLargo   == Uno(largo.pc # "espera")
DeMediano == Uno(mediano.pc \in {"carga", "guarda"})

Deuda == DeLargo - DeMediano - DeSalida

\* All the terms of the accounting are integers.
LEMMA CuentaEntera ==
  ASSUME TypeOK
  PROVE  /\ Cuenta \in Int /\ Admitidos \in Int /\ sobrantes \in Int
         /\ multiprogramacion_disponible \in Int
         /\ DeLargo \in Int /\ DeMediano \in Int /\ DeSalida \in Int
         /\ Deuda \in Int
  <1>1. "ready" \in Listas /\ "exec" \in Listas /\ "blocked" \in Listas
    BY DEF Listas
  <1>2. /\ Admitidos \in Int /\ sobrantes \in Int
        /\ multiprogramacion_disponible \in Int
    BY <1>1, LargosDeListas DEF Admitidos
  <1>3. DeLargo \in Int /\ DeMediano \in Int /\ DeSalida \in Int
    BY DEF DeLargo, DeMediano, DeSalida, Uno
  <1> QED
    BY <1>2, <1>3 DEF Cuenta, Deuda

\* The property, said with the two sums.
LEMMA ContabilidadEnCuentas ==
  ASSUME TypeOK
  PROVE  ContabilidadMultiprogramacion
         <=> (~solapada => Cuenta = GradoMultiprogramacion + Deuda)
  <1>1. /\ Admitidos \in Int /\ sobrantes \in Int
        /\ multiprogramacion_disponible \in Int
        /\ DeLargo \in Int /\ DeMediano \in Int /\ DeSalida \in Int
    BY CuentaEntera
  <1>2. GradoMultiprogramacion \in Int
    BY ConstantesOK
  <1>3. ContabilidadMultiprogramacion
        <=> (~solapada => multiprogramacion_disponible + Admitidos
                          = GradoMultiprogramacion + sobrantes + DeLargo
                            - DeMediano - DeSalida)
    BY DEF ContabilidadMultiprogramacion, DeLargo, DeMediano
  <1> QED
    BY <1>1, <1>2, <1>3 DEF Cuenta, Deuda

-----------------------------------------------------------------------------
\* What a step that moves nobody keeps.
LEMMA SinMovimiento ==
  (UNCHANGED <<listas, multiprogramacion_disponible, sobrantes>>)
  => Cuenta' = Cuenta
  BY DEF Cuenta, Admitidos

\* A step that keeps the two counters changes Cuenta as the move does.
LEMMA CuentaDeMover ==
  ASSUME TypeOK
  PROVE  \A o \in Listas, d \in Listas : \A i \in DOMAIN listas[o] :
           (/\ o # d /\ Mover(o, d, i)
            /\ multiprogramacion_disponible' = multiprogramacion_disponible
            /\ sobrantes' = sobrantes) =>
             Cuenta' = Cuenta + Peso(d) - Peso(o)
  <1> SUFFICES ASSUME NEW o \in Listas, NEW d \in Listas,
                      NEW i \in DOMAIN listas[o], o # d, Mover(o, d, i),
                      multiprogramacion_disponible'
                        = multiprogramacion_disponible,
                      sobrantes' = sobrantes
               PROVE  Cuenta' = Cuenta + Peso(d)
                                       - Peso(o)
    OBVIOUS
  <1>1. Admitidos' = Admitidos + Peso(d) - Peso(o)
    BY AdmitidosDeMover
  <1>2. /\ Admitidos \in Int /\ sobrantes \in Int
        /\ multiprogramacion_disponible \in Int
    BY CuentaEntera
  <1>3. Peso(d) \in Int /\ Peso(o) \in Int
    BY DEF Peso
  <1>4. Cuenta = multiprogramacion_disponible + Admitidos - sobrantes
    BY DEF Cuenta
  <1>5. Cuenta' = multiprogramacion_disponible + Admitidos' - sobrantes
    BY DEF Cuenta
  <1> QED
    BY <1>1, <1>2, <1>3, <1>4, <1>5

\* The long term planner takes a unit when it moves and discounts it when
\* it stores; the medium term planner and the exit give one back.  Every
\* other step changes neither side.
LEMMA CuentaDeUnPaso ==
  ASSUME TypeOK, Next, ~solapada'
  PROVE  Cuenta' - Deuda' = Cuenta - Deuda
  <1>e. /\ Cuenta \in Int /\ Deuda \in Int
        /\ DeLargo \in Int /\ DeMediano \in Int /\ DeSalida \in Int
        /\ multiprogramacion_disponible \in Int /\ Admitidos \in Int
        /\ sobrantes \in Int
    BY CuentaEntera
  <1>l. /\ "new" \in Listas /\ "ready" \in Listas /\ "exec" \in Listas
        /\ "blocked" \in Listas /\ "s_blocked" \in Listas
        /\ "s_ready" \in Listas /\ "exit" \in Listas
    BY DEF Listas
  <1>c. /\ "ready" \in Cargadas /\ "exec" \in Cargadas
        /\ "blocked" \in Cargadas
        /\ "new" \notin Cargadas /\ "s_blocked" \notin Cargadas
        /\ "s_ready" \notin Cargadas /\ "exit" \notin Cargadas
    BY DEF Cargadas
  <1>m. \A o \in Listas, d \in Listas : \A i \in DOMAIN listas[o] :
          (/\ o # d /\ Mover(o, d, i)
           /\ multiprogramacion_disponible' = multiprogramacion_disponible
           /\ sobrantes' = sobrantes) =>
            Cuenta' = Cuenta + Peso(d) - Peso(o)
    BY CuentaDeMover
  <1>s. (UNCHANGED <<listas, multiprogramacion_disponible, sobrantes>>)
        => Cuenta' = Cuenta
    BY SinMovimiento
  <1>d. (DeLargo' = DeLargo /\ DeMediano' = DeMediano
         /\ DeSalida' = DeSalida) => Deuda' = Deuda
    BY DEF Deuda
  <1>h. (UNCHANGED <<largo, mediano, salida>>) => Deuda' = Deuda
    BY <1>d DEF DeLargo, DeMediano, DeSalida
  <1>u. /\ Peso("ready") = 1 /\ Peso("exec") = 1 /\ Peso("blocked") = 1
        /\ Peso("new") = 0 /\ Peso("s_blocked") = 0
        /\ Peso("s_ready") = 0 /\ Peso("exit") = 0
    BY <1>c DEF Peso
  <1>q. (Cuenta' = Cuenta /\ Deuda' = Deuda)
        => Cuenta' - Deuda' = Cuenta - Deuda
    OBVIOUS
  <1> USE DEF contadores
  <1>1. ASSUME NEW p \in Procesos, Nuevo(p)
        PROVE  Cuenta' - Deuda' = Cuenta - Deuda
    <2>1. /\ listas'["ready"] = listas["ready"]
          /\ listas'["exec"] = listas["exec"]
          /\ listas'["blocked"] = listas["blocked"]
      BY <1>1, <1>l DEF Nuevo, TypeOK
    <2>2. Cuenta' = Cuenta
      BY <1>1, <2>1 DEF Nuevo, historia, Cuenta, Admitidos
    <2> QED
      BY <1>1, <1>h, <2>2 DEF Nuevo, hilos
  <1>2. ASSUME LargoAdmite PROVE Cuenta' - Deuda' = Cuenta - Deuda
    <2>1. /\ largo.pc = "espera"
          /\ mediano' = mediano /\ salida' = salida
          /\ multiprogramacion_disponible' = multiprogramacion_disponible
          /\ sobrantes' = sobrantes
      BY <1>2 DEF LargoAdmite, MutexListasLibre, historia
    <2>2. \/ /\ \/ Mover("s_ready", "ready", 1) /\ 1 \in DOMAIN listas["s_ready"]
                \/ Mover("new", "ready", 1) /\ 1 \in DOMAIN listas["new"]
             /\ largo' = [pc |-> "carga"]
          \/ listas' = listas /\ largo' = largo
      BY <1>2, <1>l DEF LargoAdmite, TypeOK
    <2>3. CASE listas' = listas /\ largo' = largo
      BY <1>q, <1>s, <1>h, <2>1, <2>3
    <2>4. CASE /\ \/ Mover("s_ready", "ready", 1) /\ 1 \in DOMAIN listas["s_ready"]
                  \/ Mover("new", "ready", 1) /\ 1 \in DOMAIN listas["new"]
               /\ largo' = [pc |-> "carga"]
      <3>1. \/ Cuenta' = Cuenta + Peso("ready") - Peso("s_ready")
            \/ Cuenta' = Cuenta + Peso("ready") - Peso("new")
        BY <1>l, <1>m, <2>1, <2>4
      <3>2. DeLargo = 0 /\ DeLargo' = 1
        BY <2>1, <2>4 DEF DeLargo, Uno
      <3>3. DeMediano' = DeMediano /\ DeSalida' = DeSalida
        BY <2>1 DEF DeMediano, DeSalida
      <3> QED
        BY <1>e, <1>u, <3>1, <3>2, <3>3 DEF Deuda
    <2> QED
      BY <2>2, <2>3, <2>4
  <1>3. ASSUME LargoCarga PROVE Cuenta' - Deuda' = Cuenta - Deuda
    <2>1. /\ Cuenta' = Cuenta
          /\ mediano' = mediano /\ salida' = salida
      BY <1>3, <1>s DEF LargoCarga, historia
    <2>2. DeLargo' = DeLargo
      BY <1>3 DEF LargoCarga, DeLargo
    <2> QED
      BY <1>d, <1>q, <2>1, <2>2 DEF DeMediano, DeSalida
  <1>4. ASSUME LargoGuarda PROVE Cuenta' - Deuda' = Cuenta - Deuda
    <2>1. multiprogramacion_disponible' = multiprogramacion_disponible - 1
      BY <1>4 DEF LargoGuarda
    <2>2. /\ DeLargo = 1 /\ DeLargo' = 0
          /\ DeMediano' = DeMediano /\ DeSalida' = DeSalida
      BY <1>4 DEF LargoGuarda, DeLargo, DeMediano, DeSalida, Uno, Quieto
    <2>3. Admitidos' = Admitidos /\ sobrantes' = sobrantes
      BY <1>4 DEF LargoGuarda, Admitidos
    <2> QED
      BY <1>e, <2>1, <2>2, <2>3 DEF Deuda, Cuenta
  <1>5. ASSUME Corto PROVE Cuenta' - Deuda' = Cuenta - Deuda
    <2>1. /\ UNCHANGED <<largo, mediano, salida>>
          /\ multiprogramacion_disponible' = multiprogramacion_disponible
          /\ sobrantes' = sobrantes
      BY <1>5 DEF Corto, hilos, historia
    <2>2. \/ \E i \in DOMAIN listas["ready"] : Mover("ready", "exec", i)
          \/ listas' = listas
      BY <1>5 DEF Corto
    <2>3. ASSUME NEW i \in DOMAIN listas["ready"], Mover("ready", "exec", i)
          PROVE  Cuenta' = Cuenta
      <3>1. Cuenta' = Cuenta + Peso("exec") - Peso("ready")
        BY <1>l, <1>c, <1>m, <2>1, <2>3
      <3> QED
        BY <1>e, <1>u, <3>1
    <2> QED
      BY <1>h, <1>q, <1>s, <2>1, <2>2, <2>3
  <1>6. ASSUME BloqueoMueve PROVE Cuenta' - Deuda' = Cuenta - Deuda
    <2>1. /\ UNCHANGED <<largo, mediano, salida>>
          /\ multiprogramacion_disponible' = multiprogramacion_disponible
          /\ sobrantes' = sobrantes
      BY <1>6 DEF BloqueoMueve, hilos, historia
    <2>2. \/ \E i \in DOMAIN listas["exec"] : Mover("exec", "blocked", i)
          \/ listas' = listas
      BY <1>6 DEF BloqueoMueve
    <2>3. ASSUME NEW i \in DOMAIN listas["exec"], Mover("exec", "blocked", i)
          PROVE  Cuenta' = Cuenta
      <3>1. Cuenta' = Cuenta + Peso("blocked") - Peso("exec")
        BY <1>l, <1>c, <1>m, <2>1, <2>3
      <3> QED
        BY <1>e, <1>u, <3>1
    <2> QED
      BY <1>h, <1>q, <1>s, <2>1, <2>2, <2>3
  <1>7. ASSUME MedianoLee PROVE Cuenta' - Deuda' = Cuenta - Deuda
    <2>1. Cuenta' = Cuenta /\ largo' = largo /\ salida' = salida
      BY <1>7, <1>s DEF MedianoLee, historia
    <2>2. DeMediano' = DeMediano
      BY <1>7 DEF MedianoLee, DeMediano
    <2> QED
      BY <1>d, <1>q, <2>1, <2>2 DEF DeLargo, DeSalida
  <1>8. ASSUME MedianoMueve PROVE Cuenta' - Deuda' = Cuenta - Deuda
    <2>1. /\ mediano.pc = "mueve"
          /\ largo' = largo /\ salida' = salida
          /\ multiprogramacion_disponible' = multiprogramacion_disponible
          /\ sobrantes' = sobrantes
      BY <1>8 DEF MedianoMueve
    <2>2. \/ /\ \E i \in DOMAIN listas["blocked"] :
                  Mover("blocked", "s_blocked", i)
             /\ mediano' = [pc |-> "carga"]
          \/ listas' = listas /\ mediano' = mediano
      BY <1>8 DEF MedianoMueve
    <2>3. CASE listas' = listas /\ mediano' = mediano
      BY <1>h, <1>q, <1>s, <2>1, <2>3
    <2>4. ASSUME NEW i \in DOMAIN listas["blocked"],
                 Mover("blocked", "s_blocked", i), mediano' = [pc |-> "carga"]
          PROVE  Cuenta' - Deuda' = Cuenta - Deuda
      <3>1. Cuenta' = Cuenta + Peso("s_blocked") - Peso("blocked")
        BY <1>l, <1>c, <1>m, <2>1, <2>4
      <3>2. DeMediano = 0 /\ DeMediano' = 1
        BY <2>1, <2>4 DEF DeMediano, Uno
      <3>3. DeLargo' = DeLargo /\ DeSalida' = DeSalida
        BY <2>1 DEF DeLargo, DeSalida
      <3> QED
        BY <1>e, <1>u, <3>1, <3>2, <3>3 DEF Deuda
    <2> QED
      BY <2>2, <2>3, <2>4
  <1>9. ASSUME MedianoCarga PROVE Cuenta' - Deuda' = Cuenta - Deuda
    <2>1. Cuenta' = Cuenta /\ largo' = largo /\ salida' = salida
      BY <1>9, <1>s DEF MedianoCarga, historia
    <2>2. DeMediano' = DeMediano
      BY <1>9 DEF MedianoCarga, DeMediano
    <2> QED
      BY <1>d, <1>q, <2>1, <2>2 DEF DeLargo, DeSalida
  <1>10. ASSUME MedianoGuarda PROVE Cuenta' - Deuda' = Cuenta - Deuda
    <2>1. multiprogramacion_disponible' = multiprogramacion_disponible + 1
      BY <1>10 DEF MedianoGuarda
    <2>2. /\ DeMediano = 1 /\ DeMediano' = 0
          /\ DeLargo' = DeLargo /\ DeSalida' = DeSalida
      BY <1>10 DEF MedianoGuarda, DeLargo, DeMediano, DeSalida, Uno, Quieto
    <2>3. Admitidos' = Admitidos /\ sobrantes' = sobrantes
      BY <1>10 DEF MedianoGuarda, Admitidos
    <2> QED
      BY <1>e, <2>1, <2>2, <2>3 DEF Deuda, Cuenta
  <1>11. ASSUME DesbloqueoMueve PROVE Cuenta' - Deuda' = Cuenta - Deuda
    <2>1. /\ UNCHANGED <<largo, mediano, salida>>
          /\ multiprogramacion_disponible' = multiprogramacion_disponible
          /\ sobrantes' = sobrantes
      BY <1>11 DEF DesbloqueoMueve
    <2>2. \/ \E i \in DOMAIN listas["blocked"] : Mover("blocked", "ready", i)
          \/ \E i \in DOMAIN listas["s_blocked"] :
               Mover("s_blocked", "s_ready", i)
          \/ listas' = listas
      BY <1>11 DEF DesbloqueoMueve, TypeOK, Quieto
    <2>3. ASSUME NEW i \in DOMAIN listas["blocked"],
                 Mover("blocked", "ready", i)
          PROVE  Cuenta' = Cuenta
      <3>1. Cuenta' = Cuenta + Peso("ready") - Peso("blocked")
        BY <1>l, <1>c, <1>m, <2>1, <2>3
      <3> QED
        BY <1>e, <1>u, <3>1
    <2>4. ASSUME NEW i \in DOMAIN listas["s_blocked"],
                 Mover("s_blocked", "s_ready", i)
          PROVE  Cuenta' = Cuenta
      <3>1. Cuenta' = Cuenta + Peso("s_ready") - Peso("s_blocked")
        BY <1>l, <1>c, <1>m, <2>1, <2>4
      <3> QED
        BY <1>e, <1>u, <3>1
    <2> QED
      BY <1>h, <1>q, <1>s, <2>1, <2>2, <2>3, <2>4
  <1>12. ASSUME SalidaBusca PROVE Cuenta' - Deuda' = Cuenta - Deuda
    <2>1. Cuenta' = Cuenta /\ largo' = largo /\ mediano' = mediano
      BY <1>12, <1>s DEF SalidaBusca, historia
    <2>2. salida.pc = "semaforos" /\ salida'.pc \in {"mueve", "busca_blocked"}
      BY <1>12 DEF SalidaBusca
    <2>3. DeSalida' = DeSalida
      BY <2>2 DEF DeSalida, Uno
    <2> QED
      BY <1>d, <1>q, <2>1, <2>3 DEF DeLargo, DeMediano
  <1>13. ASSUME SalidaBuscaBlocked PROVE Cuenta' - Deuda' = Cuenta - Deuda
    <2>1. Cuenta' = Cuenta /\ largo' = largo /\ mediano' = mediano
      BY <1>13, <1>s DEF SalidaBuscaBlocked, historia
    <2>2. salida.pc = "busca_blocked" /\ salida'.pc \in {"mueve", "espera"}
      BY <1>13 DEF SalidaBuscaBlocked, Quieto
    <2>3. DeSalida' = DeSalida
      BY <2>2 DEF DeSalida, Uno
    <2> QED
      BY <1>d, <1>q, <2>1, <2>3 DEF DeLargo, DeMediano
  <1>14. ASSUME SalidaMueve PROVE Cuenta' - Deuda' = Cuenta - Deuda
    <2>1. /\ salida.pc = "mueve"
          /\ salida.de \in Listas /\ salida.de # "exit"
      BY <1>14 DEF SalidaMueve, TypeOK, Quieto
    <2>2. /\ largo' = largo /\ mediano' = mediano
          /\ multiprogramacion_disponible' = multiprogramacion_disponible
          /\ sobrantes' = sobrantes
      BY <1>14 DEF SalidaMueve
    <2>3. CASE salida.indice \in DOMAIN listas[salida.de]
      <3>1. /\ Mover(salida.de, "exit", salida.indice)
            /\ salida' = [pc |-> "libera", de |-> salida.de]
        BY <1>14, <2>3 DEF SalidaMueve
      <3>2. Cuenta' = Cuenta + Peso("exit") - Peso(salida.de)
        BY <1>l, <1>c, <1>m, <2>1, <2>2, <2>3, <3>1
      <3>3. DeSalida = 0 /\ DeSalida' = Peso(salida.de)
        BY <2>1, <3>1 DEF DeSalida, Uno, Peso, Cargadas
      <3>4. DeLargo' = DeLargo /\ DeMediano' = DeMediano
        BY <2>2 DEF DeLargo, DeMediano
      <3>5. Peso(salida.de) \in Int
        BY DEF Peso
      <3> QED
        BY <1>e, <1>u, <3>2, <3>3, <3>4, <3>5 DEF Deuda
    <2>4. CASE salida.indice \notin DOMAIN listas[salida.de]
      <3>1. listas' = listas /\ salida' = salida
        BY <1>14, <2>4 DEF SalidaMueve
      <3> QED
        BY <1>h, <1>q, <1>s, <2>2, <3>1
    <2> QED
      BY <2>3, <2>4
  <1>15. ASSUME SalidaSuma PROVE Cuenta' - Deuda' = Cuenta - Deuda
    <2>1. /\ multiprogramacion_disponible'
               = multiprogramacion_disponible + 1
          /\ sobrantes' = sobrantes
                          + (IF salida.de \in {"new", "s_blocked", "s_ready"}
                             THEN 1 ELSE 0)
          /\ Admitidos' = Admitidos
          /\ largo' = largo /\ mediano' = mediano
          /\ salida.pc = "libera" /\ salida' = Quieto
      BY <1>15 DEF SalidaSuma, Admitidos
    <2>2. salida.de \in Listas \ {"exit"}
      BY <2>1 DEF TypeOK, Quieto
    <2>3. DeLargo' = DeLargo /\ DeMediano' = DeMediano /\ DeSalida' = 0
      BY <2>1 DEF DeLargo, DeMediano, DeSalida, Uno, Quieto
    <2>4. CASE salida.de \in Cargadas
      <3>1. DeSalida = 1 /\ sobrantes' = sobrantes
        BY <1>c, <1>e, <2>1, <2>4 DEF DeSalida, Uno, Cargadas
      <3> QED
        BY <1>e, <2>1, <2>3, <3>1 DEF Cuenta, Deuda
    <2>5. CASE salida.de \notin Cargadas
      <3>1. salida.de \in {"new", "s_blocked", "s_ready"}
        BY <2>2, <2>5 DEF Cargadas, Listas
      <3>2. DeSalida = 0 /\ sobrantes' = sobrantes + 1
        BY <2>1, <2>5, <3>1 DEF DeSalida, Uno
      <3> QED
        BY <1>e, <2>1, <2>3, <3>2 DEF Cuenta, Deuda
    <2> QED
      BY <2>4, <2>5
  \* the actions that touch neither the lists nor the counters
  <1>16. \/ \E p \in Procesos : Nuevo(p)
         \/ LargoAdmite \/ LargoCarga \/ LargoGuarda \/ Corto
         \/ BloqueoMueve \/ MedianoLee \/ MedianoMueve \/ MedianoCarga
         \/ MedianoGuarda \/ DesbloqueoMueve \/ SalidaBusca
         \/ SalidaBuscaBlocked \/ SalidaMueve \/ SalidaSuma
         \/ SalidaEntra \/ SalidaTomaRecursos \/ SalidaDespierta
         \/ \E p \in Procesos : SalidaLibera(p)
         \/ UNCHANGED <<listas, multiprogramacion_disponible, sobrantes,
                        largo, mediano, salida>>
    BY DEF Next, DesbloqueoLee, DesbloqueoBusca, Desconecta, EligeVictima,
       MarcaBloqueo, PosteaBloqueo, ExecTermina, FinIO, Postea, hilos,
       historia, EsperarBloqueo, DetectorPostea, LlegaPosteo, SeccionEntra, SeccionTomaRecursos,
       SeccionSale, PosteaTrae, PosteaAvisa, ajenos, contadores
  <1>18. ASSUME \/ SalidaEntra \/ SalidaTomaRecursos
                \/ \E p \in Procesos : SalidaLibera(p)
                \/ SalidaDespierta
         PROVE  Cuenta' - Deuda' = Cuenta - Deuda
    <2>1. Cuenta' = Cuenta /\ largo' = largo /\ mediano' = mediano
      BY <1>18, <1>s DEF SalidaEntra, SalidaTomaRecursos, SalidaLibera,
         SalidaDespierta, historia
    <2>2. \/ /\ salida.pc \in {"espera", "recursos"}
             /\ salida'.pc \in {"recursos", "semaforos"}
          \/ /\ salida.pc \in {"libera", "gira"} /\ salida'.de = salida.de
             /\ salida'.pc \in {"libera", "gira"}
      BY <1>18 DEF SalidaEntra, SalidaTomaRecursos, SalidaLibera,
         SalidaDespierta, MutexListasLibre
    <2>3. DeSalida' = DeSalida
      BY <2>2 DEF DeSalida, Uno
    <2> QED
      BY <1>d, <1>q, <2>1, <2>3 DEF DeLargo, DeMediano
  <1>17. CASE UNCHANGED <<listas, multiprogramacion_disponible, sobrantes,
                          largo, mediano, salida>>
    BY <1>h, <1>q, <1>s, <1>17
  <1> QED
    BY <1>1, <1>2, <1>3, <1>4, <1>5, <1>6, <1>7, <1>8, <1>9, <1>10, <1>11,
       <1>12, <1>13, <1>14, <1>15, <1>16, <1>17, <1>18

\* Once an update is lost, the behaviour has lost it for good.
LEMMA SolapadaQueda == TypeOK /\ [Next]_vars /\ solapada => solapada'
  BY DEF Next, vars, Nuevo, LargoAdmite, LargoCarga, LargoGuarda, Desconecta,
     EligeVictima, SalidaBusca, SalidaBuscaBlocked, SalidaMueve, SalidaSuma,
     Corto, MarcaBloqueo, PosteaBloqueo, ExecTermina, EsperarBloqueo,
     MedianoLee, MedianoMueve, MedianoCarga, MedianoGuarda, FinIO, Postea,
     DesbloqueoLee, DesbloqueoBusca, DesbloqueoMueve, historia, TypeOK,
     SalidaEntra, SalidaTomaRecursos, SalidaLibera, SalidaDespierta,
     BloqueoMueve, DetectorPostea, LlegaPosteo, SeccionEntra, SeccionTomaRecursos,
     SeccionSale, PosteaTrae, PosteaAvisa, ajenos, contadores

\* What the two lemmas about one state say, as a state predicate: it holds
\* after a step too.
CuentasClaras ==
  /\ Cuenta \in Int /\ Deuda \in Int
  /\ (~solapada => Cuenta = GradoMultiprogramacion + Deuda)
       => ContabilidadMultiprogramacion

\* The two lemmas, in that form.
LEMMA CuentasDeTipo == TypeOK => CuentasClaras
  BY CuentaEntera, ContabilidadEnCuentas DEF CuentasClaras

\* Every step keeps the accounting.
LEMMA CuentaInductiva ==
  TypeOK /\ TypeOK' /\ ContabilidadMultiprogramacion /\ [Next]_vars
  => ContabilidadMultiprogramacion'
  <1>p. TypeOK' => CuentasClaras'
    BY CuentasDeTipo, PTL
  <1> SUFFICES ASSUME TypeOK, TypeOK', ContabilidadMultiprogramacion,
                      [Next]_vars, ~solapada'
               PROVE  Cuenta' = GradoMultiprogramacion + Deuda'
    BY <1>p DEF CuentasClaras
  <1>1. Cuenta = GradoMultiprogramacion + Deuda
    BY SolapadaQueda, ContabilidadEnCuentas
  <1>2. Cuenta' - Deuda' = Cuenta - Deuda
    <2>1. CASE Next
      BY <2>1, CuentaDeUnPaso
    <2>2. CASE UNCHANGED vars
      BY <2>2 DEF vars, Cuenta, Deuda, Admitidos, DeLargo, DeMediano, DeSalida
    <2> QED
      BY <2>1, <2>2
  <1>3. /\ Cuenta \in Int /\ Deuda \in Int
    BY CuentaEntera
  <1>4. Cuenta' \in Int /\ Deuda' \in Int
    BY <1>p DEF CuentasClaras
  <1>5. GradoMultiprogramacion \in Int
    BY ConstantesOK
  <1>6. Cuenta' = (Cuenta - Deuda) + Deuda'
    BY <1>2, <1>4
  <1>7. Cuenta - Deuda = GradoMultiprogramacion
    BY <1>1, <1>3, <1>5
  <1> QED
    BY <1>6, <1>7

\* multiprogramacion_disponible is off by exactly the updates still to come
\* and one unit for each exit from a list that does not count, in every
\* behaviour in which no update was lost.
THEOREM CuentasCorrectas == Spec => []ContabilidadMultiprogramacion
  <1>1. Init => ContabilidadMultiprogramacion
    BY ConstantesOK DEF Init, ContabilidadMultiprogramacion, Admitidos, Uno,
       DeSalida, Quieto, Listas
  <1>2. TypeOK /\ TypeOK' /\ ContabilidadMultiprogramacion /\ [Next]_vars
        => ContabilidadMultiprogramacion'
    BY CuentaInductiva
  <1> QED
    BY <1>1, <1>2, TipoCorrecto, PTL DEF Spec

-----------------------------------------------------------------------------
(* The life cycle *)

\* A list holds nobody twice
SinRepetir(l) == Unica(listas[l])

\* A carpincho is in one list, once
EnUnaLista ==
  /\ \A l \in Listas : SinRepetir(l)
  /\ \A l, m \in Listas : l # m => En(l) \cap En(m) = {}

\* No more of them in lista_exec than processors
SinExceso == Len(listas["exec"]) <= GradoMultiprocesamiento

\* The inductive invariant of the refinement
IInvCiclo == /\ TypeOK /\ MultiprocesamientoExacto
             /\ EnUnaLista /\ SinExceso

\* Where everybody is after a move.
LEMMA MoverLugares ==
  ASSUME TypeOK, EnUnaLista, NEW o \in Listas, NEW d \in Listas, o # d,
         NEW i \in DOMAIN listas[o], Mover(o, d, i)
  PROVE  /\ EnUnaLista'
         /\ \A l \in Listas : \A p :
              p \in En(l)' <=> IF p = listas[o][i] THEN l = d ELSE p \in En(l)
  <1>1. /\ listas \in [Listas -> Seq(Procesos)]
        /\ listas[o] \in Seq(Procesos) /\ listas[d] \in Seq(Procesos)
        /\ listas[o][i] \in Procesos
    BY DEF TypeOK
  <1>2. PICK x : x = listas[o][i]
    OBVIOUS
  <1>3. /\ listas'[o] = RemoveAt(listas[o], i)
        /\ listas'[d] = Append(listas[d], x)
        /\ \A l \in Listas \ {o, d} : listas'[l] = listas[l]
    BY <1>1, <1>2 DEF Mover
  <1>4. SinRepetir(o) /\ SinRepetir(d)
    BY DEF EnUnaLista
  <1>5. /\ \A a, b \in DOMAIN listas'[o] :
             listas'[o][a] = listas'[o][b] => a = b
        /\ \A p : p \in En(o)' <=> (p # x /\ p \in En(o))
    <2>1. Unica(listas'[o]) /\ SacaDe(listas[o], x, listas'[o])
      <3>1. Unica(listas[o])
        BY <1>4 DEF SinRepetir
      <3> QED
        BY <1>1, <1>2, <1>3, <3>1, QuitarDeUnica
    <2> QED
      BY <2>1 DEF En, Unica, SacaDe
  <1>6. x \in En(o) /\ x \notin En(d)
    BY <1>2 DEF En, EnUnaLista
  <1>7. /\ DOMAIN listas'[d] = 1..(Len(listas[d]) + 1)
        /\ listas'[d][Len(listas[d]) + 1] = x
        /\ DOMAIN listas[d] = 1..Len(listas[d]) /\ Len(listas[d]) \in Nat
        /\ \A a \in 1..Len(listas[d]) : listas'[d][a] = listas[d][a]
    BY <1>1, <1>2, <1>3
  <1>8. /\ \A a, b \in DOMAIN listas'[d] :
             listas'[d][a] = listas'[d][b] => a = b
        /\ \A p : p \in En(d)' <=> (p = x \/ p \in En(d))
    <2>1. \A a \in 1..Len(listas[d]) : listas[d][a] # x
      BY <1>6, <1>7 DEF En
    <2>2. \A a \in DOMAIN listas'[d] :
            a \in 1..Len(listas[d]) \/ a = Len(listas[d]) + 1
      BY <1>7
    <2>3. \A a, b \in DOMAIN listas'[d] :
             listas'[d][a] = listas'[d][b] => a = b
      BY <1>4, <1>7, <2>1, <2>2 DEF SinRepetir, Unica
    <2>4. Len(listas[d]) + 1 \in DOMAIN listas'[d]
          /\ \A a \in 1..Len(listas[d]) : a \in DOMAIN listas'[d]
      BY <1>7
    <2>5. \A p : p \in En(d)' <=> (p = x \/ p \in En(d))
      BY <1>7, <2>2, <2>4 DEF En
    <2> QED
      BY <2>3, <2>5
  <1>9. \A l \in Listas \ {o, d} : x \notin En(l) /\ En(l)' = En(l)
    BY <1>3, <1>6 DEF En, EnUnaLista
  <1>10. \A l \in Listas : \A p :
           p \in En(l)' <=> IF p = x THEN l = d ELSE p \in En(l)
    BY <1>5, <1>8, <1>9
  <1>11. \A l \in Listas : SinRepetir(l)'
    <2> SUFFICES ASSUME NEW l \in Listas PROVE SinRepetir(l)'
      OBVIOUS
    <2>1. CASE l \in {o, d}
      BY <1>5, <1>8, <2>1 DEF SinRepetir, Unica
    <2>2. CASE l \notin {o, d}
      <3>1. listas'[l] = listas[l] /\ SinRepetir(l)
        BY <1>3, <2>2 DEF EnUnaLista
      <3> QED
        BY <3>1 DEF SinRepetir, Unica
    <2> QED
      BY <2>1, <2>2
  <1>12. \A l, m \in Listas : l # m => En(l)' \cap En(m)' = {}
    <2> SUFFICES ASSUME NEW l \in Listas, NEW m \in Listas, l # m,
                        NEW p, p \in En(l)', p \in En(m)'
                 PROVE  FALSE
      OBVIOUS
    <2>1. p # x => p \in En(l) /\ p \in En(m)
      BY <1>10
    <2>2. p = x => l = d /\ m = d
      BY <1>10
    <2> QED
      BY <2>1, <2>2 DEF EnUnaLista
  <1> QED
    BY <1>2, <1>10, <1>11, <1>12 DEF EnUnaLista

\* A step leaves the lists as they are, adds a carpincho that arrives, or
\* makes one move, along the diagram of states; a dispatch finds a free
\* processor and no exit in progress.
LEMMA CambioDeListas ==
  ASSUME TypeOK, [Next]_vars
  PROVE  \/ listas' = listas
         \/ \E p \in Procesos : Nuevo(p)
         \/ \E o \in Listas, d \in Listas : \E i \in DOMAIN listas[o] :
              /\ o # d /\ Mover(o, d, i)
              /\ <<o, d>> \in Ciclo!Transiciones
              /\ d = "exec" => multiprocesamiento # 0 /\ salida.pc = "espera"
  <1> DEFINE Bien(o, d) == \E i \in DOMAIN listas[o] :
                /\ o # d /\ Mover(o, d, i)
                /\ <<o, d>> \in Ciclo!Transiciones
                /\ d = "exec" => multiprocesamiento # 0 /\ salida.pc = "espera"
             Meta == \/ listas' = listas
                     \/ \E p \in Procesos : Nuevo(p)
                     \/ \E o \in Listas, d \in Listas : Bien(o, d)
  <1>1. /\ "new" \in Listas /\ "ready" \in Listas /\ "exec" \in Listas
        /\ "blocked" \in Listas /\ "s_blocked" \in Listas
        /\ "s_ready" \in Listas /\ "exit" \in Listas
    BY DEF Listas
  <1>2. \A l \in Listas : /\ Len(listas[l]) \in Nat
                          /\ DOMAIN listas[l] = 1..Len(listas[l])
                          /\ listas[l] \in Seq(Procesos)
    BY DEF TypeOK
  <1>3. /\ {<<"new", "ready">>, <<"ready", "exec">>, <<"exec", "blocked">>,
            <<"blocked", "ready">>, <<"blocked", "s_blocked">>,
            <<"s_blocked", "s_ready">>, <<"s_ready", "ready">>}
             \subseteq Ciclo!Transiciones
        /\ \A l \in Listas \ {"exit"} : <<l, "exit">> \in Ciclo!Transiciones
    BY DEF Ciclo!Transiciones, Ciclo!Estados, Listas
  <1>4. CASE LargoAdmite
    <2>1. \/ Mover("s_ready", "ready", 1) /\ 1 \in DOMAIN listas["s_ready"]
          \/ Mover("new", "ready", 1) /\ 1 \in DOMAIN listas["new"]
          \/ UNCHANGED <<multiprocesamiento, listas>>
      BY <1>1, <1>2, <1>4 DEF LargoAdmite
    <2>2. Bien("s_ready", "ready") \/ Bien("new", "ready") \/ listas' = listas
      BY <1>3, <2>1
    <2> QED
      BY <1>1, <2>2
  <1>5. CASE SalidaMueve
    <2>1. salida.de \in Listas /\ salida.de # "exit"
      BY <1>5 DEF SalidaMueve, TypeOK, Quieto
    <2>2. Bien(salida.de, "exit") \/ listas' = listas
      BY <1>3, <1>5, <2>1 DEF SalidaMueve
    <2> QED
      BY <1>1, <2>1, <2>2
  <1>6. CASE Corto
    <2>1. Bien("ready", "exec") \/ listas' = listas
      BY <1>3, <1>6 DEF Corto, MutexListasLibre
    <2> QED
      BY <1>1, <2>1
  <1>7. CASE BloqueoMueve
    <2>1. Bien("exec", "blocked") \/ listas' = listas
      BY <1>3, <1>7 DEF BloqueoMueve
    <2> QED
      BY <1>1, <2>1
  <1>8. CASE MedianoMueve
    <2>1. Bien("blocked", "s_blocked") \/ listas' = listas
      BY <1>3, <1>8 DEF MedianoMueve
    <2> QED
      BY <1>1, <2>1
  <1>9. CASE DesbloqueoMueve
    <2>1. \/ \E i \in DOMAIN listas["blocked"] : Mover("blocked", "ready", i)
          \/ \E i \in DOMAIN listas["s_blocked"] :
               Mover("s_blocked", "s_ready", i)
          \/ UNCHANGED <<multiprocesamiento, listas>>
      BY <1>9 DEF DesbloqueoMueve, TypeOK, Quieto
    <2>2. \/ Bien("blocked", "ready") \/ Bien("s_blocked", "s_ready")
          \/ listas' = listas
      BY <1>3, <2>1
    <2> QED
      BY <1>1, <2>2
  <1>10. \/ \E p \in Procesos : Nuevo(p)
         \/ LargoAdmite \/ SalidaMueve \/ Corto \/ BloqueoMueve
         \/ MedianoMueve \/ DesbloqueoMueve
         \/ listas' = listas
    BY DEF Next, vars, LargoCarga, LargoGuarda, MedianoLee, MedianoCarga,
       MedianoGuarda, DesbloqueoLee, DesbloqueoBusca, Desconecta,
       EligeVictima, MarcaBloqueo, PosteaBloqueo, ExecTermina, FinIO,
       Postea, SalidaBusca, SalidaBuscaBlocked, SalidaSuma, EsperarBloqueo,
       SalidaEntra, SalidaTomaRecursos, SalidaLibera, SalidaDespierta,
       DetectorPostea, LlegaPosteo, SeccionEntra, SeccionTomaRecursos,
       SeccionSale, PosteaTrae, PosteaAvisa, ajenos, contadores
  <1>11. Meta
    BY <1>4, <1>5, <1>6, <1>7, <1>8, <1>9, <1>10
  <1> QED
    BY <1>11

\* Where everybody is after an arrival.
LEMMA NuevoLugares ==
  ASSUME TypeOK, EnUnaLista, NEW x \in Procesos, Nuevo(x)
  PROVE  /\ EnUnaLista'
         /\ \A l \in Listas : \A p :
              p \in En(l)' <=> IF p = x THEN l = "new" ELSE p \in En(l)
         /\ listas'["exec"] = listas["exec"]
  <1>1. /\ "new" \in Listas /\ "exec" \in Listas
        /\ listas \in [Listas -> Seq(Procesos)]
    BY DEF TypeOK, Listas
  <1>2. /\ listas'["new"] = Append(listas["new"], x)
        /\ \A l \in Listas \ {"new"} : listas'[l] = listas[l]
    BY <1>1 DEF Nuevo
  <1>3. \A l \in Listas : x \notin En(l)
    BY DEF Nuevo, Conectados
  <1>4. PICK s \in Seq(Procesos) : s = listas["new"]
    BY <1>1
  <1>5. PICK n \in Nat : n = Len(s)
    BY <1>4, LenProperties
  <1>6. /\ DOMAIN listas'["new"] = 1..(n + 1) /\ DOMAIN s = 1..n
        /\ listas'["new"][n + 1] = x
        /\ \A a \in 1..n : listas'["new"][a] = s[a]
    BY <1>2, <1>4, <1>5
  <1>7. \A a \in 1..n : s[a] # x
    BY <1>1, <1>3, <1>4, <1>6 DEF En
  <1>8. \A a \in 1..(n + 1) : a \in 1..n \/ a = n + 1
    OBVIOUS
  <1>9. SinRepetir("new")'
    <2>1. \A a, b \in 1..n : s[a] = s[b] => a = b
      BY <1>1, <1>4, <1>6 DEF EnUnaLista, SinRepetir, Unica
    <2> QED
      BY <1>6, <1>7, <1>8, <2>1 DEF SinRepetir, Unica
  <1>10. \A p : p \in En("new")' <=> (p = x \/ p \in En("new"))
    <2>1. n + 1 \in 1..(n + 1) /\ \A a \in 1..n : a \in 1..(n + 1)
      OBVIOUS
    <2> QED
      BY <1>4, <1>6, <1>8, <2>1 DEF En
  <1>11. \A l \in Listas \ {"new"} : En(l)' = En(l) /\ SinRepetir(l)'
    BY <1>2 DEF En, EnUnaLista, SinRepetir
  <1>12. \A l \in Listas : \A p :
           p \in En(l)' <=> IF p = x THEN l = "new" ELSE p \in En(l)
    BY <1>3, <1>10, <1>11
  <1>13. \A l, m \in Listas : l # m => En(l)' \cap En(m)' = {}
    <2> SUFFICES ASSUME NEW l \in Listas, NEW m \in Listas, l # m,
                        NEW p, p \in En(l)', p \in En(m)'
                 PROVE  FALSE
      OBVIOUS
    <2>1. p # x => p \in En(l) /\ p \in En(m)
      BY <1>12
    <2>2. p = x => l = "new" /\ m = "new"
      BY <1>12
    <2> QED
      BY <2>1, <2>2 DEF EnUnaLista
  <1> QED
    BY <1>1, <1>2, <1>9, <1>11, <1>12, <1>13 DEF EnUnaLista

LEMMA CicloInductivo ==
  ASSUME IInvCiclo, [Next]_vars
  PROVE  IInvCiclo'
  <1>1. /\ TypeOK /\ MultiprocesamientoExacto /\ EnUnaLista /\ SinExceso
        /\ TypeOK' /\ MultiprocesamientoExacto'
    BY TipoInductivo, ExactoInductivo DEF IInvCiclo
  <1>2. /\ multiprocesamiento \in Int /\ GradoMultiprocesamiento \in Nat
        /\ Len(listas["exec"]) \in Nat /\ "exec" \in Listas
    BY <1>1, LargosDeListas, ConstantesOK DEF Listas
  <1>3. CASE listas' = listas
    BY SMTT(30), <1>1, <1>3
       DEF IInvCiclo, EnUnaLista, SinRepetir, En, SinExceso
  <1>4. ASSUME NEW p \in Procesos, Nuevo(p) PROVE IInvCiclo'
    <2>1. EnUnaLista' /\ listas'["exec"] = listas["exec"]
      BY <1>1, <1>4, NuevoLugares
    <2> QED
      BY <1>1, <2>1 DEF IInvCiclo, SinExceso
  <1>5. ASSUME NEW o \in Listas, NEW d \in Listas, NEW i \in DOMAIN listas[o],
               o # d, Mover(o, d, i),
               d = "exec" => multiprocesamiento # 0 /\ salida.pc = "espera"
        PROVE  IInvCiclo'
    <2>1. EnUnaLista'
      BY <1>1, <1>5, MoverLugares
    <2>2. /\ Len(listas'[o]) = Len(listas[o]) - 1
          /\ Len(listas'[d]) = Len(listas[d]) + 1
          /\ \A l \in Listas \ {o, d} : listas'[l] = listas[l]
      BY <1>1, <1>5, MoverCuenta
    <2>3. SinExceso'
      <3>1. CASE d = "exec"
        <4>1. multiprocesamiento + Len(listas["exec"])
                = GradoMultiprocesamiento
          BY <1>1, <1>2, <1>5, <3>1 DEF MultiprocesamientoExacto
        <4> QED
          BY <1>1, <1>2, <1>5, <2>2, <3>1, <4>1 DEF SinExceso
      <3>2. CASE o = "exec"
        BY <1>1, <1>2, <2>2, <3>2 DEF SinExceso
      <3>3. CASE "exec" \notin {o, d}
        BY <1>1, <1>2, <2>2, <3>3 DEF SinExceso
      <3> QED
        BY <3>1, <3>2, <3>3
    <2> QED
      BY <1>1, <2>1, <2>3 DEF IInvCiclo
  <1> QED
    BY <1>1, <1>3, <1>4, <1>5, CambioDeListas

\* The state of a carpincho is the list it is in.
EstadoPorLista ==
  \A p : /\ \A l \in Listas : p \in En(l) => Estado(p) = l
         /\ (\A l \in Listas : p \notin En(l)) => Estado(p) = "fuera"

LEMMA EstadoEsLista == EnUnaLista => EstadoPorLista
  BY DEF EnUnaLista, Estado, EstadoPorLista

\* At most as many in a list as its length.
LEMMA CuantosEn ==
  ASSUME NEW S, NEW s \in Seq(S)
  PROVE  /\ IsFiniteSet({s[i] : i \in DOMAIN s})
         /\ Cardinality({s[i] : i \in DOMAIN s}) <= Len(s)
         /\ Cardinality({s[i] : i \in DOMAIN s}) \in Nat
  <1>1. /\ Len(s) \in Nat /\ DOMAIN s = 1..Len(s)
        /\ s \in [1..Len(s) -> S]
    BY LenProperties
  <1>2. /\ IsFiniteSet(DOMAIN s) /\ Cardinality(DOMAIN s) = Len(s)
    <2>1. /\ IsFiniteSet(1..Len(s))
          /\ Cardinality(1..Len(s)) = IF 1 > Len(s) THEN 0 ELSE Len(s) - 1 + 1
      BY <1>1, FS_Interval
    <2> QED
      BY <1>1, <2>1
  <1>3. PICK T : T = {s[i] : i \in DOMAIN s}
    OBVIOUS
  <1>4. s \in Surjection(DOMAIN s, T)
    BY <1>1, <1>3 DEF Surjection
  <1>5. IsFiniteSet(T) /\ Cardinality(T) <= Cardinality(DOMAIN s)
    BY <1>2, <1>4, FS_Surjection
  <1>6. Cardinality(T) \in Nat
    BY <1>5, FS_CardinalityType
  <1> QED
    BY <1>1, <1>2, <1>3, <1>5, <1>6

\* Every step is a step of the life cycle, or none of it.
LEMMA CicloPaso ==
  ASSUME IInvCiclo, IInvCiclo', [Next]_vars
  PROVE  [Ciclo!Next]_([p \in Procesos |-> Estado(p)])
  <1> DEFINE e == [p \in Procesos |-> Estado(p)]
  <1>1. /\ TypeOK /\ MultiprocesamientoExacto /\ EnUnaLista /\ SinExceso
        /\ EnUnaLista'
    BY DEF IInvCiclo
  <1>2. \A p : /\ \A l \in Listas : p \in En(l) => Estado(p) = l
               /\ (\A l \in Listas : p \notin En(l)) => Estado(p) = "fuera"
    BY <1>1, EstadoEsLista DEF EstadoPorLista
  <1>3. \A p : /\ \A l \in Listas : p \in En(l)' => Estado(p)' = l
               /\ (\A l \in Listas : p \notin En(l)') => Estado(p)' = "fuera"
    <2>1. EstadoPorLista'
      BY <1>1, EstadoEsLista, PTL
    <2> QED
      BY <2>1 DEF EstadoPorLista
  <1>4. CASE listas' = listas
    <2>1. \A p : Estado(p)' = Estado(p)
      BY <1>4 DEF Estado, En
    <2> QED
      BY <2>1
  <1>5. ASSUME NEW x \in Procesos, NEW d \in Listas,
               <<Estado(x), d>> \in Ciclo!Transiciones,
               \A l \in Listas : \A p :
                 p \in En(l)' <=> IF p = x THEN l = d ELSE p \in En(l),
               d = "exec" => Len(listas["exec"]) < GradoMultiprocesamiento
        PROVE  Ciclo!Next
    <2>1. Estado(x)' = d
      BY <1>3, <1>5
    <2>2. \A p \in Procesos \ {x} : Estado(p)' = Estado(p)
      <3> SUFFICES ASSUME NEW p \in Procesos, p # x
                   PROVE  Estado(p)' = Estado(p)
        OBVIOUS
      <3>1. \A l \in Listas : p \in En(l)' <=> p \in En(l)
        BY <1>5
      <3> QED
        BY <1>2, <1>3, <3>1
    <2>3. e' = [e EXCEPT ![x] = d]
      BY <2>1, <2>2
    <2>4. d \in Ciclo!Siguientes(e[x])
      BY <1>5 DEF Ciclo!Siguientes, Ciclo!Estados, Listas
    <2>5. d = "exec" => Cardinality(Ciclo!EnEjecucion)
                          < GradoMultiprocesamiento
      <3>1. PICK s \in Seq(Procesos) : s = listas["exec"]
        BY <1>1 DEF TypeOK, Listas
      <3>2. Ciclo!EnEjecucion = {s[i] : i \in DOMAIN s}
        <4>1. En("exec") \subseteq Procesos /\ "exec" \in Listas
          BY <3>1 DEF En, Listas
        <4>2. \A p \in Procesos : Estado(p) = "exec" <=> p \in En("exec")
          BY <1>2, <4>1 DEF Estado, Listas
        <4> QED
          BY <3>1, <4>1, <4>2 DEF Ciclo!EnEjecucion, En
      <3>3. /\ Cardinality(Ciclo!EnEjecucion) <= Len(s)
            /\ Cardinality(Ciclo!EnEjecucion) \in Nat
        BY <3>2, CuantosEn
      <3>4. Len(s) \in Nat /\ GradoMultiprocesamiento \in Nat
        BY <3>1, LenProperties, ConstantesOK
      <3> QED
        BY <1>5, <3>1, <3>3, <3>4
    <2>6. Ciclo!Cambia(x, d)
      <3>1. Ciclo!Cardinality(Ciclo!EnEjecucion) = Cardinality(Ciclo!EnEjecucion)
        BY DEF Ciclo!Cardinality, Cardinality
      <3> QED
        BY <2>3, <2>5, <3>1 DEF Ciclo!Cambia
    <2> QED
      BY <2>4, <2>6 DEF Ciclo!Next
  <1>6. ASSUME NEW p \in Procesos, Nuevo(p) PROVE Ciclo!Next
    <2>1. \A l \in Listas : \A q :
            q \in En(l)' <=> IF q = p THEN l = "new" ELSE q \in En(l)
      BY <1>1, <1>6, NuevoLugares
    <2>2. Estado(p) = "fuera"
      BY <1>2, <1>6 DEF Nuevo, Conectados
    <2>3. <<"fuera", "new">> \in Ciclo!Transiciones /\ "new" \in Listas
      BY DEF Ciclo!Transiciones, Listas
    <2> QED
      BY <1>5, <2>1, <2>2, <2>3
  <1>7. ASSUME NEW o \in Listas, NEW d \in Listas, NEW i \in DOMAIN listas[o],
               o # d, Mover(o, d, i), <<o, d>> \in Ciclo!Transiciones,
               d = "exec" => multiprocesamiento # 0 /\ salida.pc = "espera"
        PROVE  Ciclo!Next
    <2>1. \A l \in Listas : \A q :
            q \in En(l)' <=> IF q = listas[o][i] THEN l = d ELSE q \in En(l)
      BY <1>1, <1>7, MoverLugares
    <2>2. listas[o][i] \in Procesos
      BY <1>1 DEF TypeOK
    <2>3. Estado(listas[o][i]) = o
      BY <1>2 DEF En
    <2>4. d = "exec" => Len(listas["exec"]) < GradoMultiprocesamiento
      <3>1. /\ multiprocesamiento \in Int /\ GradoMultiprocesamiento \in Nat
            /\ Len(listas["exec"]) \in Nat
        BY <1>1, LargosDeListas, ConstantesOK DEF Listas
      <3> QED
        BY <1>1, <1>7, <3>1 DEF MultiprocesamientoExacto, SinExceso
    <2> QED
      BY <1>5, <1>7, <2>1, <2>2, <2>3, <2>4
  <1> QED
    BY <1>1, <1>4, <1>6, <1>7, CambioDeListas

LEMMA CicloAlInicio == Init => IInvCiclo
  <1> SUFFICES ASSUME Init PROVE IInvCiclo
    OBVIOUS
  <1>1. TypeOK /\ MultiprocesamientoExacto
    BY TipoInicial, ConstantesOK
       DEF Init, MultiprocesamientoExacto, Quieto, Listas
  <1>2. \A l \in Listas : listas[l] = <<>> /\ DOMAIN listas[l] = {}
    BY DEF Init
  <1>3. EnUnaLista
    BY <1>2 DEF EnUnaLista, SinRepetir, Unica, En
  <1>4. SinExceso
    BY <1>2, ConstantesOK DEF SinExceso, Listas
  <1> QED
    BY <1>1, <1>3, <1>4 DEF IInvCiclo

\* The scheduler implements the life cycle: whatever its threads do to the
\* seven lists, a carpincho is in one state at a time, moves along the edges
\* of the diagram only, and no more run than there are processors.
THEOREM ImplementaCicloDeVidaSiempre == Spec => ImplementaCicloDeVida
  <1>1. Init => IInvCiclo
    BY CicloAlInicio
  <1>2. Init => Ciclo!Init
    <2> SUFFICES ASSUME Init PROVE Ciclo!Init
      OBVIOUS
    <2>1. \A l \in Listas : DOMAIN listas[l] = {}
      BY DEF Init
    <2>2. \A p \in Procesos : Estado(p) = "fuera"
      BY <2>1 DEF Estado, En
    <2> QED
      BY <2>2 DEF Ciclo!Init
  <1>3. IInvCiclo /\ [Next]_vars => IInvCiclo'
    BY CicloInductivo
  <1>4. IInvCiclo /\ IInvCiclo' /\ [Next]_vars
          => [Ciclo!Next]_([p \in Procesos |-> Estado(p)])
    BY CicloPaso
  <1> QED
    BY <1>1, <1>2, <1>3, <1>4, PTL DEF Spec, ImplementaCicloDeVida, Ciclo!Spec

-----------------------------------------------------------------------------
(* No request is lost *)

\* Who runs, and who asked to be blocked, is in lista_exec, or in lista_exit
\* if it was made to leave
Ejecutan ==
  /\ corriendo \subseteq En("exec") \cup En("exit")
  /\ block \subseteq En("exec") \cup En("exit")
  /\ block \cap corriendo = {}
  /\ IsFiniteSet(por_postear)

\* The inductive invariant of the requests to be blocked
IInvBloqueos == IInvCiclo /\ Ejecutan /\ BloqueoNoSePierde

\* The semaphores by which moves are asked for
SemPeticion == {"solicitar_block", "salida_block", "salida_a_exit"}

\* avisar_cambio leaves those semaphores alone, and a wait or a post changes
\* its own.
LEMMA SemaforosDePeticiones ==
  ASSUME TypeOK
  PROVE  /\ \A x \in SemPeticion : x \in SemKernel /\ sem[x] \in Nat
         /\ \A x \in SemPeticion : /\ Avisado(sem, 1)[x] = sem[x]
                                   /\ Avisado(sem, 2)[x] = sem[x]
                                   /\ AvisoDeSuspension(sem)[x] = sem[x]
         /\ \A x \in SemPeticion, y \in SemKernel :
              /\ Tomado(y)[x] = IF x = y THEN sem[x] - 1 ELSE sem[x]
              /\ Avisado(Tomado(y), 1)[x] = IF x = y THEN sem[x] - 1
                                                     ELSE sem[x]
              /\ Posteado(y)[x] = IF x = y THEN sem[x] + 1 ELSE sem[x]
  <1>1. sem \in [SemKernel -> Nat]
    BY DEF TypeOK
  <1>2. \A x \in SemPeticion : x \in SemKernel /\ x \notin SemCambio
    BY DEF SemPeticion, SemKernel, SemCambio
  <1>3. \A s, n : \A x \in SemPeticion : Avisado(s, n)[x] = s[x]
    BY <1>2 DEF Avisado
  <1>4. \A x \in SemPeticion, y \in SemKernel :
              /\ Tomado(y)[x] = IF x = y THEN sem[x] - 1 ELSE sem[x]
              /\ Posteado(y)[x] = IF x = y THEN sem[x] + 1 ELSE sem[x]
    BY <1>1, <1>2 DEF Tomado, Posteado
  <1>5. \A x \in SemPeticion : AvisoDeSuspension(sem)[x] = sem[x]
    BY <1>1, <1>2 DEF AvisoDeSuspension, SemCambio
  <1> QED
    BY <1>1, <1>2, <1>3, <1>4, <1>5

\* A step that leaves the flags, the running ones and the posts of the
\* requests to be blocked as they are: it brings nobody to lista_exec, and
\* takes out of it only towards lista_exit.
SinBloqueos ==
  /\ block' = block /\ por_postear' = por_postear /\ bloqueo' = bloqueo
  /\ corriendo' \subseteq corriendo
  /\ sem'["solicitar_block"] = sem["solicitar_block"]
  /\ \/ listas' = listas
     \/ \E p \in Procesos : Nuevo(p)
     \/ \E o \in Listas \ {"exit"}, d \in Listas \ {"exec"} :
          \E i \in DOMAIN listas[o] :
            o # d /\ Mover(o, d, i) /\ (o = "exec" => d = "exit")

\* The steps, by what they do to those requests.
LEMMA BloqueosDeUnPaso ==
  ASSUME TypeOK, [Next]_vars
  PROVE  \/ SinBloqueos
         \/ /\ \E i \in DOMAIN listas["ready"] :
                 /\ Mover("ready", "exec", i)
                 /\ corriendo' = corriendo \cup {listas["ready"][i]}
            /\ block' = block /\ por_postear' = por_postear
            /\ bloqueo' = bloqueo
            /\ sem'["solicitar_block"] = sem["solicitar_block"]
         \/ EsperarBloqueo \/ BloqueoMueve
         \/ \E p \in Procesos :
              \/ \E motivo \in Motivos : MarcaBloqueo(p, motivo)
              \/ PosteaBloqueo(p)
  <1> DEFINE sb == "solicitar_block"
             Igual == /\ block' = block /\ por_postear' = por_postear
                      /\ bloqueo' = bloqueo
                      /\ corriendo' \subseteq corriendo /\ sem'[sb] = sem[sb]
             Mueve(o, d) == \E i \in DOMAIN listas[o] : Mover(o, d, i)
             Movido == \/ listas' = listas
                       \/ \E p \in Procesos : Nuevo(p)
                       \/ \E o \in Listas \ {"exit"}, d \in Listas \ {"exec"} :
                            \E i \in DOMAIN listas[o] :
                              /\ o # d /\ Mover(o, d, i)
                              /\ o = "exec" => d = "exit"
  <1>1. /\ "new" \in Listas /\ "ready" \in Listas /\ "exec" \in Listas
        /\ "blocked" \in Listas /\ "s_blocked" \in Listas
        /\ "s_ready" \in Listas /\ "exit" \in Listas
    BY DEF Listas
  <1>2. \A l \in Listas : /\ Len(listas[l]) \in Nat
                          /\ DOMAIN listas[l] = 1..Len(listas[l])
                          /\ listas[l] \in Seq(Procesos)
    BY DEF TypeOK
  <1>s. /\ sb \in SemPeticion /\ "salida_block" \in SemKernel
        /\ "salida_a_exit" \in SemKernel /\ "cambio_largo" \in SemKernel
        /\ "cambio_corto" \in SemKernel /\ "cambio_mediano" \in SemKernel
    BY DEF SemPeticion, SemKernel
  <1>p. /\ Avisado(sem, 1)[sb] = sem[sb] /\ Avisado(sem, 2)[sb] = sem[sb]
        /\ AvisoDeSuspension(sem)[sb] = sem[sb]
        /\ \A y \in SemKernel : y # sb =>
             /\ Tomado(y)[sb] = sem[sb] /\ Posteado(y)[sb] = sem[sb]
             /\ Avisado(Tomado(y), 1)[sb] = sem[sb]
    BY <1>s, SemaforosDePeticiones
  <1> HIDE DEF sb
  <1>q. /\ "salida_block" # sb /\ "salida_a_exit" # sb
        /\ "cambio_largo" # sb /\ "cambio_corto" # sb /\ "cambio_mediano" # sb
    BY DEF sb
  <1> USE DEF banderas, carpincho, contadores, hilos, ajenos, historia
  <1>3. ASSUME NEW p \in Procesos, Nuevo(p) PROVE SinBloqueos
    BY <1>3, <1>p DEF Nuevo, SinBloqueos, sb
  <1>4. CASE LargoAdmite
    <2>1. Igual
      BY <1>4, <1>p, <1>q, <1>s DEF LargoAdmite
    <2>2. \/ Mover("s_ready", "ready", 1) /\ 1 \in DOMAIN listas["s_ready"]
          \/ Mover("new", "ready", 1) /\ 1 \in DOMAIN listas["new"]
          \/ listas' = listas
      BY <1>1, <1>2, <1>4 DEF LargoAdmite
    <2>3. Mueve("s_ready", "ready") \/ Mueve("new", "ready") \/ listas' = listas
      BY <2>2
    <2>4. Movido
      BY <1>1, <2>3
    <2> QED
      BY <2>1, <2>4 DEF SinBloqueos, sb
  <1>5. CASE SalidaMueve
    <2>1. Igual
      BY <1>5, <1>p DEF SalidaMueve
    <2>2. salida.de \in Listas /\ salida.de # "exit"
      BY <1>5 DEF SalidaMueve, TypeOK, Quieto
    <2>3. Mueve(salida.de, "exit") \/ listas' = listas
      BY <1>5, <2>2 DEF SalidaMueve
    <2>4. Movido
      BY <1>1, <2>2, <2>3
    <2> QED
      BY <2>1, <2>4 DEF SinBloqueos, sb
  <1>6. CASE MedianoMueve
    <2>1. Igual
      BY <1>6, <1>p DEF MedianoMueve
    <2>2. Mueve("blocked", "s_blocked") \/ listas' = listas
      BY <1>6 DEF MedianoMueve
    <2>3. Movido
      BY <1>1, <2>2
    <2> QED
      BY <2>1, <2>3 DEF SinBloqueos, sb
  <1>7. CASE DesbloqueoMueve
    <2>1. Igual
      BY <1>7, <1>p DEF DesbloqueoMueve
    <2>2. \/ Mueve("blocked", "ready") \/ Mueve("s_blocked", "s_ready")
          \/ listas' = listas
      BY <1>7 DEF DesbloqueoMueve, TypeOK, Quieto
    <2>3. Movido
      BY <1>1, <2>2
    <2> QED
      BY <2>1, <2>3 DEF SinBloqueos, sb
  <1>8. CASE Corto
    <2>1. /\ block' = block /\ por_postear' = por_postear
          /\ bloqueo' = bloqueo /\ sem'[sb] = sem[sb]
      BY <1>8, <1>p, <1>q, <1>s DEF Corto
    <2>2. \/ \E i \in DOMAIN listas["ready"] :
               /\ Mover("ready", "exec", i)
               /\ corriendo' = corriendo \cup {listas["ready"][i]}
          \/ listas' = listas /\ corriendo' = corriendo
      BY <1>8 DEF Corto
    <2> QED
      BY <2>1, <2>2 DEF SinBloqueos, sb
  <1>9. CASE LargoCarga \/ LargoGuarda \/ SalidaBuscaBlocked
             \/ MedianoCarga \/ DesbloqueoBusca \/ SalidaBusca
             \/ SalidaTomaRecursos \/ SeccionTomaRecursos \/ PosteaTrae
             \/ SeccionSale
    BY <1>9 DEF LargoCarga, LargoGuarda, SalidaBuscaBlocked, MedianoCarga,
                DesbloqueoBusca, SinBloqueos, SalidaBusca,
                SalidaTomaRecursos, SeccionTomaRecursos, PosteaTrae,
                SeccionSale
  <1>10. CASE SalidaEntra \/ SalidaSuma \/ MedianoLee \/ MedianoGuarda
              \/ DesbloqueoLee \/ SalidaDespierta \/ PosteaAvisa
              \/ DetectorPostea
    <2>1. listas' = listas /\ Igual
      BY <1>10, <1>p, <1>q, <1>s DEF SalidaEntra, SalidaSuma, MedianoLee,
         MedianoGuarda, DesbloqueoLee, SalidaDespierta, PosteaAvisa,
         DetectorPostea
    <2> QED
      BY <2>1 DEF SinBloqueos, sb
  <1>11. ASSUME NEW p \in Procesos,
                \/ Desconecta(p) \/ EligeVictima(p) \/ ExecTermina(p)
                \/ FinIO(p) \/ Postea(p) \/ SeccionEntra(p)
                \/ SalidaLibera(p)
         PROVE  SinBloqueos
    <2>1. listas' = listas /\ Igual
      BY <1>11 DEF Desconecta, EligeVictima, ExecTermina,
         FinIO, Postea, SeccionEntra, SalidaLibera
    <2> QED
      BY <2>1 DEF SinBloqueos, sb
  <1>13. ASSUME NEW x \in SemBandera, LlegaPosteo(x) PROVE SinBloqueos
    <2>1. x \in SemKernel /\ x # sb
      BY <1>q, <1>s DEF SemBandera
    <2>2. listas' = listas /\ Igual
      BY <1>13, <1>p, <2>1 DEF LlegaPosteo
    <2> QED
      BY <2>2 DEF SinBloqueos, sb
  <1>12. CASE UNCHANGED vars
    BY <1>12 DEF vars, SinBloqueos
  <1> QED
    BY <1>3, <1>4, <1>5, <1>6, <1>7, <1>8, <1>9, <1>10, <1>11, <1>12, <1>13
    DEF Next, sb

\* A set that gains one element at most, and one that loses an element of its.
LEMMA UnoMas ==
  ASSUME NEW S, IsFiniteSet(S), NEW x, NEW T, T \subseteq S \cup {x}
  PROVE  /\ IsFiniteSet(T) /\ Cardinality(S) \in Nat
         /\ Cardinality(T) \in Nat /\ Cardinality(T) <= Cardinality(S) + 1
  <1>1. /\ IsFiniteSet(S \cup {x})
        /\ Cardinality(S \cup {x}) =
             IF x \in S THEN Cardinality(S) ELSE Cardinality(S) + 1
    BY FS_AddElement
  <1>2. IsFiniteSet(T) /\ Cardinality(T) <= Cardinality(S \cup {x})
    BY <1>1, FS_Subset
  <1>3. Cardinality(S) \in Nat /\ Cardinality(T) \in Nat
    BY <1>2, FS_CardinalityType
  <1> QED
    BY <1>1, <1>2, <1>3

LEMMA NingunoMas ==
  ASSUME NEW S, IsFiniteSet(S), NEW T, T \subseteq S
  PROVE  /\ IsFiniteSet(T) /\ Cardinality(S) \in Nat
         /\ Cardinality(T) \in Nat /\ Cardinality(T) <= Cardinality(S)
  BY FS_Subset, FS_CardinalityType

LEMMA UnoMenos ==
  ASSUME NEW S, IsFiniteSet(S), NEW x \in S, NEW T, T \subseteq S \ {x}
  PROVE  /\ IsFiniteSet(T) /\ Cardinality(S) \in Nat
         /\ Cardinality(T) \in Nat /\ Cardinality(T) <= Cardinality(S) - 1
  <1>1. /\ IsFiniteSet(S \ {x}) /\ Cardinality(S \ {x}) = Cardinality(S) - 1
    BY FS_RemoveElement
  <1>2. IsFiniteSet(T) /\ Cardinality(T) <= Cardinality(S \ {x})
    BY <1>1, FS_Subset
  <1>3. Cardinality(S) \in Nat /\ Cardinality(T) \in Nat
    BY <1>2, FS_CardinalityType
  <1> QED
    BY <1>1, <1>2, <1>3

LEMMA ListasFinitas ==
  ASSUME TypeOK
  PROVE  \A l \in Listas : IsFiniteSet(En(l)) /\ En(l) \subseteq Procesos
  <1> SUFFICES ASSUME NEW l \in Listas
               PROVE  IsFiniteSet(En(l)) /\ En(l) \subseteq Procesos
    OBVIOUS
  <1>1. PICK s \in Seq(Procesos) : s = listas[l]
    BY DEF TypeOK
  <1>2. En(l) = {s[i] : i \in DOMAIN s}
    BY <1>1 DEF En
  <1>3. En(l) \subseteq Procesos
    BY <1>2
  <1> QED
    BY <1>2, <1>3, CuantosEn

\* Each step keeps who runs in its lists, and a post for each flag.
LEMMA BloqueosInductivos ==
  ASSUME IInvBloqueos, [Next]_vars
  PROVE  IInvBloqueos'
  <1> DEFINE sb == "solicitar_block"
             Marcados == En("exec") \cap block
             Sitio == En("exec") \cup En("exit")
             En_camino == Uno(bloqueo.pc = "mueve")
  <1>1. /\ TypeOK /\ IInvCiclo /\ EnUnaLista /\ IInvCiclo' /\ EnUnaLista'
        /\ Ejecutan /\ BloqueoNoSePierde
    BY CicloInductivo DEF IInvBloqueos, IInvCiclo
  <1>2. /\ "new" \in Listas /\ "ready" \in Listas /\ "exec" \in Listas
        /\ "blocked" \in Listas /\ "exit" \in Listas
    BY DEF Listas
  <1>3. /\ IsFiniteSet(Marcados) /\ Cardinality(Marcados) \in Nat
        /\ IsFiniteSet(por_postear) /\ Cardinality(por_postear) \in Nat
        /\ sem[sb] \in Nat /\ En_camino \in Nat
        /\ Cardinality(Marcados)
             <= sem[sb] + Cardinality(por_postear) + En_camino
    <2>1. IsFiniteSet(En("exec"))
      BY <1>1, <1>2, ListasFinitas
    <2>2. IsFiniteSet(Marcados) /\ Cardinality(Marcados) \in Nat
      BY <2>1, NingunoMas
    <2>3. IsFiniteSet(por_postear) /\ Cardinality(por_postear) \in Nat
      BY <1>1, FS_CardinalityType DEF Ejecutan
    <2>4. sem[sb] \in Nat
      BY <1>1, SemaforosDePeticiones DEF SemPeticion
    <2> QED
      BY <1>1, <2>2, <2>3, <2>4 DEF BloqueoNoSePierde, Uno
  <1> SUFFICES Ejecutan' /\ BloqueoNoSePierde'
    BY <1>1 DEF IInvBloqueos
  <1>4. CASE SinBloqueos
    <2>1. Sitio \subseteq Sitio' /\ En("exec")' \subseteq En("exec")
      <3>1. CASE listas' = listas
        BY <3>1 DEF En
      <3>2. ASSUME NEW p \in Procesos, Nuevo(p)
            PROVE  Sitio \subseteq Sitio' /\ En("exec")' \subseteq En("exec")
        <4>1. \A l \in Listas : \A q :
                q \in En(l)' <=> IF q = p THEN l = "new" ELSE q \in En(l)
          BY <1>1, <3>2, NuevoLugares
        <4>2. p \notin Sitio
          BY <1>2, <3>2 DEF Nuevo, Conectados
        <4> QED
          BY <1>2, <4>1, <4>2
      <3>3. ASSUME NEW o \in Listas \ {"exit"}, NEW d \in Listas \ {"exec"},
                   NEW i \in DOMAIN listas[o], o # d, Mover(o, d, i),
                   o = "exec" => d = "exit"
            PROVE  Sitio \subseteq Sitio' /\ En("exec")' \subseteq En("exec")
        <4>1. \A l \in Listas : \A q :
                q \in En(l)' <=> IF q = listas[o][i] THEN l = d
                                                     ELSE q \in En(l)
          BY <1>1, <3>3, MoverLugares
        <4>2. listas[o][i] \in En(o)
          BY DEF En
        <4>3. listas[o][i] \in Sitio => o = "exec"
          BY <1>1, <1>2, <4>2 DEF EnUnaLista
        <4> QED
          BY <1>2, <3>3, <4>1, <4>3
      <3> QED
        BY <1>4, <3>1, <3>2, <3>3 DEF SinBloqueos
    <2>2. Ejecutan'
      BY <1>1, <1>4, <2>1 DEF Ejecutan, SinBloqueos
    <2>3. Marcados' \subseteq Marcados
      BY <1>4, <2>1 DEF SinBloqueos
    <2>4. /\ Cardinality(Marcados') <= Cardinality(Marcados)
          /\ Cardinality(Marcados') \in Nat
      BY <1>3, <2>3, NingunoMas
    <2>5. En_camino' = En_camino
      BY <1>4 DEF SinBloqueos
    <2> QED
      BY <1>3, <1>4, <2>2, <2>4, <2>5 DEF SinBloqueos, BloqueoNoSePierde
  <1>5. ASSUME NEW i \in DOMAIN listas["ready"], Mover("ready", "exec", i),
               corriendo' = corriendo \cup {listas["ready"][i]},
               block' = block, por_postear' = por_postear,
               bloqueo' = bloqueo, sem'[sb] = sem[sb]
        PROVE  Ejecutan' /\ BloqueoNoSePierde'
    <2>1. \A l \in Listas : \A q :
            q \in En(l)' <=> IF q = listas["ready"][i] THEN l = "exec"
                                                       ELSE q \in En(l)
      BY <1>1, <1>2, <1>5, MoverLugares
    <2>2. /\ listas["ready"][i] \in En("ready")
          /\ listas["ready"][i] \notin Sitio
      BY <1>1, <1>2 DEF En, EnUnaLista
    <2>3. Ejecutan'
      BY <1>1, <1>2, <1>5, <2>1, <2>2 DEF Ejecutan
    <2>4. Marcados' = Marcados
      BY <1>1, <1>2, <1>5, <2>1, <2>2 DEF Ejecutan
    <2> QED
      BY <1>1, <1>5, <2>3, <2>4 DEF BloqueoNoSePierde
  <1>9. CASE EsperarBloqueo
    <2>1. sem'[sb] = sem[sb] - 1 /\ sem[sb] > 0
      BY <1>1, <1>9, SemaforosDePeticiones
         DEF EsperarBloqueo, SemPeticion, SemKernel
    <2>2. /\ listas' = listas /\ block' = block
          /\ corriendo' = corriendo /\ por_postear' = por_postear
      BY <1>9 DEF EsperarBloqueo, carpincho, banderas
    <2>3. En_camino = 0 /\ En_camino' = 1
      BY <1>9 DEF EsperarBloqueo, MutexListasLibre, Uno
    <2>4. /\ Marcados' = Marcados
          /\ En("exec")' = En("exec") /\ En("exit")' = En("exit")
      BY <2>2 DEF En
    <2>5. Ejecutan'
      BY <1>1, <2>2, <2>4 DEF Ejecutan
    <2>7. /\ Cardinality(Marcados) \in Nat /\ Cardinality(por_postear) \in Nat
          /\ sem[sb] \in Nat
          /\ Cardinality(Marcados) <= sem[sb] + Cardinality(por_postear)
      BY <1>3, <2>3
    <2>8. Cardinality(Marcados)
            <= (sem[sb] - 1) + Cardinality(por_postear) + 1
      BY <2>7
    <2>6. Cardinality(Marcados')
            <= sem'[sb] + Cardinality(por_postear') + En_camino'
      BY <2>1, <2>2, <2>3, <2>4, <2>8
    <2> QED
      BY <2>5, <2>6 DEF BloqueoNoSePierde
  <1>6. CASE BloqueoMueve
    <2>1. sem'[sb] = sem[sb]
      BY <1>1, <1>6, SemaforosDePeticiones
         DEF BloqueoMueve, SemPeticion, SemKernel
    <2>2. corriendo' = corriendo /\ por_postear' = por_postear
      BY <1>6 DEF BloqueoMueve, carpincho
    <2>5. En_camino = 1 /\ En_camino' = 0
      BY <1>6 DEF BloqueoMueve, Uno, Quieto
    <2>3. CASE En("exec") \cap block = {}
      <3>1. listas' = listas /\ block' = block
        BY <1>6, <2>3 DEF BloqueoMueve
      <3>2. Marcados' = {} /\ En("exec")' = En("exec") /\ En("exit")' = En("exit")
        BY <2>3, <3>1 DEF En
      <3>3. Ejecutan'
        BY <1>1, <2>2, <3>1, <3>2 DEF Ejecutan
      <3>4. Cardinality(Marcados') = 0
        BY <3>2, FS_EmptySet
      <3>5. Cardinality(Marcados')
              <= sem'[sb] + Cardinality(por_postear') + En_camino'
        BY <1>3, <2>1, <2>2, <2>5, <3>4
      <3> QED
        BY <3>3, <3>5 DEF BloqueoNoSePierde
    <2>4. ASSUME NEW i \in DOMAIN listas["exec"], listas["exec"][i] \in block,
                 Mover("exec", "blocked", i),
                 block' = block \ {listas["exec"][i]}
          PROVE  Ejecutan' /\ BloqueoNoSePierde'
      <3>1. \A l \in Listas : \A q :
              q \in En(l)' <=> IF q = listas["exec"][i] THEN l = "blocked"
                                                        ELSE q \in En(l)
        BY <1>1, <1>2, <2>4, MoverLugares
      <3>2. listas["exec"][i] \in Marcados
        BY <2>4 DEF En
      <3>3. Ejecutan'
        BY <1>1, <1>2, <2>2, <2>4, <3>1, <3>2 DEF Ejecutan
      <3>4. Marcados' \subseteq Marcados \ {listas["exec"][i]}
        BY <1>2, <2>4, <3>1
      <3>5. /\ Cardinality(Marcados') <= Cardinality(Marcados) - 1
            /\ Cardinality(Marcados') \in Nat
        BY <1>3, <3>2, <3>4, UnoMenos
      <3>6. Cardinality(Marcados')
              <= sem'[sb] + Cardinality(por_postear') + En_camino'
        BY <1>3, <2>1, <2>2, <2>5, <3>5
      <3> QED
        BY <3>3, <3>6 DEF BloqueoNoSePierde
    <2> QED
      BY <1>6, <2>3, <2>4 DEF BloqueoMueve, EsPrimero, Apagada
  <1>7. ASSUME NEW p \in Procesos, NEW motivo \in Motivos,
               MarcaBloqueo(p, motivo)
        PROVE  Ejecutan' /\ BloqueoNoSePierde'
    <2>1. /\ listas' = listas /\ sem' = sem /\ p \notin por_postear
          /\ p \in corriendo /\ corriendo' = corriendo \ {p}
          /\ block' = block \cup {p} /\ por_postear' = por_postear \cup {p}
      BY <1>7 DEF MarcaBloqueo
    <2>2. En("exec")' = En("exec") /\ En("exit")' = En("exit")
      BY <2>1 DEF En
    <2>3. /\ IsFiniteSet(por_postear')
          /\ Cardinality(por_postear') = Cardinality(por_postear) + 1
      BY <1>3, <2>1, FS_AddElement
    <2>4. Ejecutan'
      BY <1>1, <2>1, <2>2, <2>3 DEF Ejecutan
    <2>5. Marcados' \subseteq Marcados \cup {p}
      BY <2>1, <2>2
    <2>6. /\ Cardinality(Marcados') <= Cardinality(Marcados) + 1
          /\ Cardinality(Marcados') \in Nat
      BY <1>3, <2>5, UnoMas
    <2>7. En_camino' = En_camino
      BY <1>7 DEF MarcaBloqueo, hilos
    <2> QED
      BY <1>3, <2>1, <2>3, <2>4, <2>6, <2>7 DEF BloqueoNoSePierde
  <1>8. ASSUME NEW p \in Procesos, PosteaBloqueo(p)
        PROVE  Ejecutan' /\ BloqueoNoSePierde'
    <2>1. /\ listas' = listas /\ block' = block /\ corriendo' = corriendo
          /\ p \in por_postear /\ por_postear' = por_postear \ {p}
      BY <1>8 DEF PosteaBloqueo, banderas
    <2>2. sem'[sb] = sem[sb] + 1
      BY <1>1, <1>8, SemaforosDePeticiones
         DEF PosteaBloqueo, SemPeticion, SemKernel
    <2>3. En("exec")' = En("exec") /\ En("exit")' = En("exit")
      BY <2>1 DEF En
    <2>4. /\ IsFiniteSet(por_postear')
          /\ Cardinality(por_postear') = Cardinality(por_postear) - 1
      BY <1>3, <2>1, FS_RemoveElement
    <2>5. Ejecutan'
      BY <1>1, <2>1, <2>3, <2>4 DEF Ejecutan
    <2>6. Marcados' = Marcados
      BY <2>1, <2>3
    <2>7. /\ Cardinality(Marcados) \in Nat /\ Cardinality(por_postear) \in Nat
          /\ sem[sb] \in Nat /\ En_camino \in Nat
          /\ Cardinality(Marcados)
               <= sem[sb] + Cardinality(por_postear) + En_camino
      BY <1>1, <1>3
    <2>8. Cardinality(Marcados)
            <= (sem[sb] + 1) + (Cardinality(por_postear) - 1) + En_camino
      BY <2>7
    <2>10. En_camino' = En_camino
      BY <1>8 DEF PosteaBloqueo, hilos
    <2>9. Cardinality(Marcados')
            <= sem'[sb] + Cardinality(por_postear') + En_camino'
      BY <2>2, <2>4, <2>6, <2>8, <2>10
    <2> QED
      BY <2>5, <2>9 DEF BloqueoNoSePierde
  <1> QED
    BY <1>1, <1>4, <1>5, <1>6, <1>7, <1>8, <1>9, BloqueosDeUnPaso

LEMMA BloqueosAlInicio == Init => IInvBloqueos
  <1> SUFFICES ASSUME Init PROVE IInvBloqueos
    OBVIOUS
  <1>1. IInvCiclo
    BY CicloAlInicio
  <1>2. \A l \in Listas : DOMAIN listas[l] = {}
    BY DEF Init
  <1>3. En("exec") = {} /\ En("exit") = {}
    BY <1>2 DEF En, Listas
  <1>4. Cardinality(En("exec") \cap block) = 0 /\ Cardinality(por_postear) = 0
        /\ IsFiniteSet(por_postear)
    BY <1>3, FS_EmptySet DEF Init
  <1>5. sem["solicitar_block"] = 0 /\ Uno(bloqueo.pc = "mueve") = 0
    BY DEF Init, SemKernel, Quieto, Uno
  <1> QED
    BY <1>1, <1>4, <1>5 DEF IInvBloqueos, Ejecutan, BloqueoNoSePierde, Init

\* A request to be blocked is not lost: for every flagged carpincho of
\* lista_exec there is a post, or one on its way, also with suspensions, I/O
\* and exits, and though the post of one may move another.
THEOREM BloqueosNoSePierden == Spec => []BloqueoNoSePierde
  <1>1. IInvBloqueos => BloqueoNoSePierde
    BY DEF IInvBloqueos
  <1> QED
    BY <1>1, BloqueosAlInicio, BloqueosInductivos, PTL DEF Spec
=============================================================================
