SPECIFICATION Spec
CONSTANTS
  p1 = p1
  p2 = p2
  Procesos = {p1, p2}
  Configuraciones <- Varias
  Manos = {0, 1, 2}
  MaxCruces = 0
  MaxPaginas <- PaginasDe
INVARIANTS
  TypeOK
  MarcoDeUno
  CuentaExacta
  OrdenDeReferencia
  EnUnSoloLugar
  TlbFiel
  RelojConVictima
PROPERTIES
  PedidoTermina
CHECK_DEADLOCK FALSE
