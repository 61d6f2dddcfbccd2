CONSTANTS
    pc1 = pc1
    pc2 = pc2
    fisica = fisica
    quimica = quimica
    ana = ana
    admin = admin
    Equipos <- MCEquipos
    Materias <- MCUnaMateria
    Usuarios <- MCDocentes
    Admins <- MCNadie
    Asignados <- MCAsignadosUna
    Prioridad <- MCPrioridadUna
    Franjas <- MCFranjasDeSerie
    Series <- MCSeries
    Grupos = {g1, g2}
    Antelacion = 1
    Horizonte = 4
    Retraso = 0
    Lote = 1
    Nada = Nada
SPECIFICATION SpecJusta
PROPERTIES
    TodaReservaSeCierra
CHECK_DEADLOCK FALSE
