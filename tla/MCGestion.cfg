CONSTANTS
    ana = ana
    beto = beto
    caro = caro
    Personas <- MCPersonas
    Orden <- MCOrden
    Materias = {fisica}
    Procesos = {p1, p2}
    Primera = ana
    Legadas <- MCLegadas
    Nada = Nada
    ProcesosCr = {q1, q2}
    MaxIntentos = 2
    MaxVersion = 1
    MaxCodigos = 2
    NadaCr = NadaCr
    Ciclos = {c1, c2}
    Anios = {1, 2}
    Nombres = {n1}
    Docentes = {d1, d2}
    Equipos = {e1}
    Reservas = {r1}
    MaxLugares = 2
    NadaA = NadaA
    Autores = {u1, u2}
    Admins = {a1, a2}
    Cursos = {k1, k2}
    Archivados = {k2}
    Titulos = {t1}
    Pedidos = {s1, s2}
    NadaP = NadaP
    Grupos = {g1, g2}
    Pasados = {g2}
    Alcances <- MCAlcances
    Generales <- MCGenerales
    Deletreo <- MCDeletreo
    Asignaturas = {m1}
    Aparatos = {x1}
    Prioridades = {1, 2}
    Editores = {b1}
    NadaE = NadaE
SPECIFICATION SpecG
SYMMETRY MCSimetria
INVARIANTS
    SiempreHayAdmin
    ClaseConDocente
    ContarNoSeTraba
    IntentosAcotados
    SesionesVigentes
    CierreSinPerdidas
    UnaSolaDecision
PROPERTIES
    SoloElUltimoCodigo
    AnioCerrado
    AprobarEsAsignar
    EdicionSinSorpresas
CHECK_DEADLOCK FALSE
