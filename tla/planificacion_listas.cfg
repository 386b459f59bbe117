SPECIFICATION Spec
CONSTANTS
  Procesos = {p1, p2}
  GradoMultiprogramacion = 2
  GradoMultiprocesamiento = 1
  ConIO = TRUE
  Desconexiones <- Cualquiera
  MaxAvisos = 1
  MaxSuspensiones = 1
SYMMETRY Simetria
INVARIANTS
  TypeOK
  MultiprocesamientoExacto
  LargoDespierto
  CortoDespierto
  BloqueoNoSePierde
  ContabilidadMultiprogramacion
PROPERTIES
  ImplementaCicloDeVida
CHECK_DEADLOCK FALSE
