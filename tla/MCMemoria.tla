----------------------------- MODULE MCMemoria -----------------------------
(* The instances of Memoria that TLC checks. *)
EXTENDS Memoria, TLC

CONSTANTS p1, p2

Cfg(total, tipo, mmu, entradas, alg) ==
  [MARCOS |-> total, TIPO_ASIGNACION |-> tipo, MARCOS_POR_CARPINCHO |-> 1,
   ALGORITMO_REEMPLAZO_MMU |-> mmu, CANTIDAD_ENTRADAS_TLB |-> entradas,
   ALGORITMO_REEMPLAZO_TLB |-> alg]

\* LRU with both assignments, with and without TLB, and the clock; and the
\* pages of p1 and p2 with each
Casos ==
  {<<Cfg(2, "DINAMICA", "LRU", 1, "LRU"), 2, 1>>,
   <<Cfg(3, "FIJA", "LRU", 0, "FIFO"), 3, 0>>,
   <<Cfg(3, "FIJA", "LRU", 1, "FIFO"), 3, 1>>,
   <<Cfg(3, "FIJA", "CLOCK-M", 0, "FIFO"), 4, 0>>,
   <<Cfg(2, "DINAMICA", "CLOCK-M", 0, "FIFO"), 1, 1>>}

Varias == {c[1] : c \in Casos}

PaginasDe == [cfg \in Varias |->
  LET c == CHOOSE c \in Casos : c[1] = cfg
  IN  [p \in Procesos |-> IF p = p1 THEN c[2] ELSE c[3]]]
=============================================================================
