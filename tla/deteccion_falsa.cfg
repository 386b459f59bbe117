SPECIFICATION SpecDetector
CONSTANTS
  SEM1 = SEM1
  SEM2 = SEM2
  SEM3 = SEM3
  p1 = p1
  p2 = p2
  p3 = p3
  p4 = p4
  p5 = p5
  Procesos = {p1, p2, p3, p4, p5}
  Nombres = {SEM1, SEM2, SEM3}
  Colgado = Colgado
  Contiene <- SoloIguales
  Escenarios <- SoloWaits
  MaxValor = 1
  Id <- Numero
  MaxPosts = 0
  MaxTareas = 0
SYMMETRY Simetria
INVARIANTS
  DeteccionCierta
CHECK_DEADLOCK FALSE
