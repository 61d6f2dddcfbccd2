CONSTANTS
    pc1 = pc1
    pc2 = pc2
    fisica = fisica
    quimica = quimica
    ana = ana
    admin = admin
    Equipos <- MCEquipos
    Materias <- MCMaterias
    Usuarios <- MCAdmins
    Admins <- MCAdmins
    Asignados <- MCSinAsignar
    Prioridad <- MCPrioridad
    Franjas <- MCFranjas
    Series <- MCSueltas
    Grupos = {g1, g2}
    Antelacion = 1
    Horizonte = 4
    Retraso = 1
    Lote = 1
    Nada = Nada
SPECIFICATION Spec
SYMMETRY MCSimetria
INVARIANTS
    NoSolapamiento
    GrupoCoherente
    SinPromesasFueraDeCirculacion
PROPERTIES
    LoIntocableNoSeDesplaza
CHECK_DEADLOCK FALSE
