CONSTANTS
    pc1 = pc1
    fisica = fisica
    admin = admin
    p1 = p1
    Procesos = {p1}
    Equipos <- MCEquipos
    Materias <- MCMaterias
    Usuarios <- MCUsuarios
    Admins <- MCUsuarios
    Asignados <- MCSinDocentes
    Prioridad <- MCSinMarcas
    Franjas <- MCFranjas
    Series <- MCSueltas
    Grupos = {g1}
    Prestamos = {l1, l2}
    Editables = {}
    Plazos <- MCPlazos
    Gracia = 1
    Anticipo = 1
    GraciaCierre = 1
    Jornada = 3
    Cierres <- MCCierres
    Atencion <- MCAtencion
    DiasAtendidos = {0, 3}
    Antelacion = 0
    Horizonte = 8
    Retraso = 0
    Lote = 1
    Nada = Nada
SPECIFICATION SpecCi
SYMMETRY MCSimetria
INVARIANTS
    SeAvisaCadaJornada
CHECK_DEADLOCK FALSE
