----------------------------- MODULE MCPedidos -----------------------------
(* The instances of Pedidos that TLC checks. *)
EXTENDS Pedidos, TLC

Escenario(servidor, procesadores, operaciones, m, v) ==
  [servidor |-> servidor, procesadores |-> procesadores,
   operaciones |-> operaciones, muertes |-> m, victimas |-> v]

\* one processor, with victims and without; two processors and the memory;
\* carpinchos that are killed; and memoria without a kernel
Todos ==
  {Escenario("kernel", 1, {"INIT_SEM", "SEM_WAIT", "CALLIO"}, 0, 1),
   Escenario("kernel", 1, {"CALLIO", "MEMFREE"}, 0, 0),
   Escenario("kernel", 2, {"SEM_WAIT", "MEMALLOC"}, 0, 1),
   Escenario("kernel", 1, {"SEM_WAIT", "MEMFREE"}, 1, 0),
   Escenario("memoria", 1, {"SEM_WAIT", "MEMALLOC"}, 1, 0)}
=============================================================================
