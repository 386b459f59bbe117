SPECIFICATION SpecDetector
CONSTANTS
  SEM1 = SEM1
  SEM2 = SEM2
  SEM3 = SEM3
  p1 = p1
  p2 = p2
  p3 = p3
  p4 = p4
  p5 = p5
  Procesos = {p1, p2}
  Nombres = {SEM1, SEM2}
  Colgado = Colgado
  Contiene <- SoloIguales
  Escenarios <- Mutex
  MaxValor = 1
  Id <- Numero
  MaxPosts = 1
  MaxTareas = 0
PROPERTIES
  SalidaLimpia
CHECK_DEADLOCK FALSE
