------------------------------ MODULE MCSwap ------------------------------
(* The instances of Swap that TLC checks. *)
EXTENDS Swap, TLC

CONSTANTS p1, p2, n1, n2, d1

\* p1 has enough pages to fill a file; p2 has a page of the same number as one
\* of p1
DosYUna == {<<p1, n1>>, <<p1, n2>>, <<p2, n1>>}

\* strlen finds a zero byte within the contents, or somewhere behind them
CortoOLargo == [dato \in Datos |-> {"corto", "largo"}]
SoloLargo == {"largo"}
=============================================================================
