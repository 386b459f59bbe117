------------------------------ MODULE Almacen ------------------------------
(***************************************************************************)
(* What swap promises to memoria: a set of pages, one request and one      *)
(* answer at a time.  A page may be refused, and writing it may end swap.  *)
(* The page that is asked back is given, and others of its number may      *)
(* leave with it; one that is not there gets no answer, and may end swap.  *)
(* Module Swap implements it; module Memoria relies on it.                 *)
(***************************************************************************)
CONSTANT Usadas  \* the pages, <<pid, page number>>

VARIABLES guardadas, pedido, respuesta,
  perdidas  \* history: did a page leave that nobody asked for?

SinPedido == [op |-> "ninguno"]
SinRespuesta == [cod |-> "ninguna"]
Silencio == [cod |-> "silencio"]
\* swap ended, asked for a page that it does not have or storing one: memoria
\* reads CLIENTE_DESCONECTADO from then on
Perdido == [cod |-> "perdido"]
Caido == [cod |-> "caido"]
Terminado == {Perdido, Caido}

swapVars == <<guardadas, pedido, respuesta, perdidas>>

Init ==
  /\ guardadas = {} /\ perdidas = FALSE
  /\ pedido = SinPedido /\ respuesta = SinRespuesta

\* enviarPaginaSwap
EnviaPagina(p) ==
  /\ pedido' = [op |-> "SWAPSAVE", pagina |-> p]
  /\ UNCHANGED <<guardadas, respuesta, perdidas>>

\* recibirPaginaSwap
PidePagina(p) ==
  /\ pedido' = [op |-> "SWAPFREE", pagina |-> p]
  /\ UNCHANGED <<guardadas, respuesta, perdidas>>

\* recibir_paquete
RecibeRespuesta ==
  /\ respuesta \notin {SinRespuesta, Silencio} \cup Terminado
  /\ respuesta' = SinRespuesta
  /\ UNCHANGED <<guardadas, pedido, perdidas>>

\* insertar_pagina_en_archivo; memcpy may go on past the mapping
Guarda ==
  /\ pedido.op = "SWAPSAVE"
  /\ \/ /\ guardadas' = guardadas \cup {pedido.pagina}
        /\ respuesta' = [cod |-> "PAGINA_GUARDADA"]
     \/ /\ guardadas' = guardadas
        /\ respuesta' \in {[cod |-> "PAGINA_NO_GUARDADA"], Caido}
  /\ pedido' = SinPedido
  /\ UNCHANGED perdidas

DeSuNumero == {q \in guardadas : q[2] = pedido.pagina[2]}

\* leer_pagina_de_archivo and eliminar_pagina
Devuelve ==
  /\ pedido.op = "SWAPFREE"
  /\ \/ /\ pedido.pagina \in guardadas
        /\ \E salen \in SUBSET DeSuNumero :
             /\ guardadas' = guardadas \ salen
             /\ perdidas' = (perdidas \/ salen # {pedido.pagina})
        /\ respuesta' = [cod |-> "RECEPCION_PAGINA", pagina |-> pedido.pagina]
     \/ /\ pedido.pagina \notin guardadas
        /\ respuesta' \in {Silencio, Perdido}
        /\ UNCHANGED <<guardadas, perdidas>>
  /\ pedido' = SinPedido

Swap == Guarda \/ Devuelve

Cliente ==
  \/ /\ pedido = SinPedido /\ respuesta = SinRespuesta
     /\ \E p \in Usadas : EnviaPagina(p) \/ PidePagina(p)
  \/ RecibeRespuesta

Spec == Init /\ [][Cliente \/ Swap]_swapVars
=============================================================================
