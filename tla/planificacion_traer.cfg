SPECIFICATION Spec
CONSTANTS
  Procesos = {p1, p2}
  GradoMultiprogramacion = 2
  GradoMultiprocesamiento = 2
  ConIO = FALSE
  Desconexiones <- Ninguna
  MaxAvisos = 1
  MaxSuspensiones = 0
SYMMETRY Simetria
INVARIANTS
  TraerEncuentra
CHECK_DEADLOCK FALSE
