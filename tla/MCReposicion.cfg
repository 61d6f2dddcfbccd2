CONSTANTS
    pc1 = pc1
    pc2 = pc2
    pc3 = pc3
    pc4 = pc4
    dibujo = dibujo
    fisica = fisica
    quimica = quimica
    lengua = lengua
    musica = musica
    g1 = g1
    g2 = g2
    g3 = g3
    nuevo = nuevo
    otro = otro
    admin = admin
    Equipos <- MCEquipos
    Materias <- MCMaterias
    Usuarios <- MCAdmins
    Admins <- MCAdmins
    Asignados <- MCAsignados
    Prioridad <- MCPrioridad
    Franjas <- MCFranjas
    Series <- MCSeries
    Grupos <- MCGrupos
    Afines <- MCAfines
    Desempate <- MCDesempate
    OrdenIds <- MCOrdenIds
    Escenarios <- MCEscenarios
    Antelacion = 1
    Horizonte = 0
    Retraso = 0
    Lote = 1
    Nada = Nada
SPECIFICATION SpecRJusta
INVARIANTS
    PlanCorrecto
PROPERTIES
    EsUnaCreacion
    SoloCorreQuienPrefiere
    LaCascadaTermina
CHECK_DEADLOCK FALSE
