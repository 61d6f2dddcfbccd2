CONSTANTS
    Operaciones = {op1, op2}
    Emisiones = 2
    Instancias = {i1, i2}
    MaxId = 5
    Nada = Nada
SPECIFICATION SpecJusta
INVARIANTS
    TodoSeAvisaUnaVez
PROPERTIES
    ImplementaEntregas
CHECK_DEADLOCK FALSE
