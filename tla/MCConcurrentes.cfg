CONSTANTS
    p1 = p1
    p2 = p2
    pc1 = pc1
    pc2 = pc2
    g1 = g1
    g2 = g2
    g3 = g3
    fisica = fisica
    quimica = quimica
    ana = ana
    admin = admin
    Procesos = {p1, p2}
    Equipos <- MCEquipos
    Materias <- MCMaterias
    Usuarios <- MCUsuarios
    Admins <- MCAdmins
    Asignados <- MCAsignados
    Prioridad <- MCPrioridad
    Franjas <- MCFranjas
    Series <- MCSeries
    Grupos = {g1, g2, g3}
    Pedidos <- MCPedidos
    Orden <- MCOrden
    Antelacion = 1
    Horizonte = 4
    Retraso = 1
    Lote = 1
    Nada = Nada
SPECIFICATION SpecM
SYMMETRY MCSimetria
INVARIANTS
    LoReleidoSigueVigente
    OrdenFijoSinAbrazos
PROPERTIES
    ImplementaReservas
CHECK_DEADLOCK FALSE
