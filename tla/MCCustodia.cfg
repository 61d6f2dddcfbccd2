CONSTANTS
    pc1 = pc1
    pc2 = pc2
    fisica = fisica
    quimica = quimica
    admin = admin
    p1 = p1
    p2 = p2
    Procesos = {p1, p2}
    Equipos <- MCEquipos
    Materias <- MCMaterias
    Usuarios <- MCUsuarios
    Admins <- MCUsuarios
    Asignados <- MCSinAsignar
    Prioridad <- MCPrioridad
    Franjas <- MCFranjas
    Series <- MCSueltas
    Grupos = {g1, g2}
    Prestamos = {l1}
    Editables = {pc1}
    Plazos <- MCPlazos
    Gracia = 0
    Anticipo = 1
    GraciaCierre = 0
    Jornada = 4
    Cierres = {}
    Atencion <- MCAtencion
    DiasAtendidos = {0}
    Antelacion = 0
    Horizonte = 3
    Retraso = 1
    Lote = 1
    Nada = Nada
SPECIFICATION SpecCu
CONSTRAINT DeUnaParte
SYMMETRY MCSimetria
INVARIANTS
    LoEntregadoEnSuLugar
PROPERTIES
    AdelantoSinPisar
    AdelantoCumple
CHECK_DEADLOCK FALSE
