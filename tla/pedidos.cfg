SPECIFICATION Spec
CONSTANTS
  Carpinchos = {c1, c2}
  MaxPedidos = 2
  Escenarios <- Todos
INVARIANTS
  TypeOK
  UnaRespuesta
  RespuestaPropia
  KernelSobrevive
  SinTareasFueraDeExec
CHECK_DEADLOCK FALSE
