CONSTANTS
    pc1 = pc1
    pc2 = pc2
    fisica = fisica
    admin = admin
    p1 = p1
    p2 = p2
    Procesos = {p1, p2}
    Equipos <- MCEquipos
    Materias <- MCMaterias
    Usuarios <- MCUsuarios
    Admins <- MCUsuarios
    Asignados <- MCSinDocentes
    Prioridad <- MCSinMarcas
    Franjas <- MCFranjas
    Series <- MCSueltas
    Grupos = {g1}
    Prestamos = {l1, l2}
    Editables = {}
    Plazos <- MCPlazos
    Gracia = 1
    Anticipo = 1
    GraciaCierre = 0
    Jornada = 4
    Cierres <- MCCierres
    Atencion <- MCAtencion
    DiasAtendidos = {0}
    Antelacion = 0
    Horizonte = 3
    Retraso = 0
    Lote = 1
    Nada = Nada
SPECIFICATION SpecCu
SYMMETRY MCSimetria
INVARIANTS
    CampanaVeraz
PROPERTIES
    LiberacionJustificada
CHECK_DEADLOCK FALSE
