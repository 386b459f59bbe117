SPECIFICATION Spec
CONSTANTS
  Procesos = {p1, p2, p3}
  Nombres = {SEM1}
  Colgado = Colgado
  Contiene <- SoloIguales
  Escenarios <- Ambos
  MaxValor = 1
SYMMETRY Simetria
INVARIANTS
  TypeOK
  ValorYSolicitantes
  BloqueadoEnUnaCola
  UnaUnidad
CHECK_DEADLOCK FALSE
