SPECIFICATION Spec
CONSTANTS
  p1 = p1
  p2 = p2
  n1 = n1
  n2 = n2
  Procesos = {p1, p2}
  Paginas = {n1, n2}
  d1 = d1
  Datos = {d1}
  Escritos <- CortoOLargo
  Largos <- SoloLargo
  Usadas <- DosYUna
  CantidadArchivos = 2
  Tamanios = {4}
  Maximos = {3}
  Tipos = {"GLOBAL"}
INVARIANTS
  GuardadaHastaPedida
CHECK_DEADLOCK FALSE
