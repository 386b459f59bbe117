SPECIFICATION SpecJusta
CONSTANTS
  Procesos = {p1, p2}
  Escenarios <- Tranquilos
PROPERTIES
  DespachoEjecuta
CHECK_DEADLOCK FALSE
