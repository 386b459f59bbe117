--------------------------- MODULE MCAvisarCambio ---------------------------
(* The instances of AvisarCambio that TLC checks. *)
EXTENDS AvisarCambio, TLC

Escenario(s, e) == [suspensiones |-> s, salidas |-> e]

Tranquilos == {Escenario(0, 0)}
Todos      == {Escenario(0, 0), Escenario(0, 2), Escenario(1, 0)}
=============================================================================
