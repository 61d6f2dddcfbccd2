CONSTANTS
    Licencias = {l1, l2}
    Maquinas = {e1, e2}
    Programas = {n1}
    Encargados = {a1}
    Duraciones = {1}
    Avisos = {0, 1}
    UltimoDia = 2
    MaxCambios = 3
    Nada = Nada
    Carros = {c1, c2}
    NombresCarro = {k1, k2}
    Equipos = {e1, e2}
    Zocalos = {7, 8}
    Nombres = {n1}
    Series = {s1, s2}
    Incidencias = {i1}
    MaxCambiosI = 6
    Vacio = Vacio
    Fichas = {f1, f2}
    UsuariosPC = {u1, u2}
    Claves = {k1, k2}
    Passwords = {w1, w2}
    Pedidos = {p1}
    MaxCambiosP = 4
    Ninguna = Ninguna
    HorasDelDia = 4
    DiasSemana = 2
    MaxFecha = 1
    Tramos <- MCTramos
    MaxTramos = 3
    Reservas = {r1}
    Usuarios = {u1, u2}
    Bloques = {b1, b2}
    MaxCambiosJ = 3
    Nadie = Nadie
    Personas = {u1, u2}
    PrimerosAdmins = {u2}
    Hilos = {h1, h2}
    MaxActos = 4
    Ausente = Ausente
SPECIFICATION SpecD
INVARIANTS
    DeCarroPorSuNumero
CHECK_DEADLOCK FALSE
