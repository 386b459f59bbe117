SPECIFICATION SpecJusta
CONSTANTS
  Procesos = {p1, p2}
  Escenarios <- Todos
INVARIANTS
  TypeOK
  RondaCerrada
PROPERTIES
  LecturaEstable
  RondaTermina
CHECK_DEADLOCK FALSE
