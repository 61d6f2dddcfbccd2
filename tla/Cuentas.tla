------------------------------- MODULE Cuentas -------------------------------
(* The accounts of internal/auth: approval, roles, and the discharge of a     *)
(* teacher, which is one transaction per subject, with the assignments of     *)
(* internal/academic and the future classes of internal/reservation that it   *)
(* cleans up.  A process is one HTTP request; the steps of a request are the  *)
(* statements between which another one may commit.                           *)
EXTENDS Naturals, FiniteSets

CONSTANTS
    Personas,    \* every account there will ever be: ids are never used again
    Materias,
    Procesos,    \* requests being served at a time
    Orden,       \* the order of the ids of the accounts
    Primera,     \* the admin the installation starts with
    Legadas,     \* discharged before the table baja_usuario existed
    Nada

Roles == {"ADMIN", "DOCENTE"}
Estados == {"SIN_REGISTRAR", "PENDIENTE", "APROBADA", "RECHAZADA", "BAJA", "ELIMINADA"}
Cambios == {"aprobar", "rechazar", "promover", "degradar", "baja"}
Operaciones == Cambios \cup {"reservar"}
Pasos == {"contar", "contando", "escribir", "listar", "materias"}

Usuario == [rol : Roles, estado : Estados]
ProcesoBaja == [pendientes : SUBSET Materias, completada : BOOLEAN]
Clase == [materia : Materias, comoAdmin : BOOLEAN]
Pedido == [op : Operaciones, u : Personas, paso : Pasos, leida : Usuario,
           porTomar : SUBSET Personas, tomadas : SUBSET Personas,
           lista : SUBSET Materias, fallo : BOOLEAN]

ASSUME CuentasAssumption ==
    /\ IsFiniteSet(Personas)
    /\ Orden \in [Personas -> Nat]
    /\ \A u, v \in Personas : Orden[u] = Orden[v] => u = v
    /\ Primera \in Personas
    /\ Legadas \subseteq Personas \ {Primera}
    /\ Nada \notin Pedido \cup ProcesoBaja

VARIABLES
    cuentas,     \* usuario: rol and estado
    asignados,   \* docente_materia
    bajas,       \* baja_usuario and baja_usuario_materia
    clases,      \* the kinds of reservations in force that are not over
    anuncios,    \* how often docente.baja.materia-huerfana was published
    abierta      \* what each process is doing

tablas == <<cuentas, asignados, bajas, clases, anuncios>>
varsCt == <<cuentas, asignados, bajas, clases, anuncios, abierta>>

TypeOKCt ==
    /\ cuentas \in [Personas -> Usuario]
    /\ asignados \subseteq Personas \X Materias
    /\ bajas \in [Personas -> ProcesoBaja \cup {Nada}]
    /\ clases \subseteq Clase
    /\ anuncios \in [Personas \X Materias -> Nat]
    /\ abierta \in [Procesos -> Pedido \cup {Nada}]

MateriasDeDocente(u) == {m \in Materias : <<u, m>> \in asignados}

\* Migration 020 registered the discharges of before that kept assignments as pending.
InitCt ==
    /\ cuentas = [u \in Personas |->
                    IF u = Primera THEN [rol |-> "ADMIN", estado |-> "APROBADA"]
                    ELSE [rol |-> "DOCENTE",
                          estado |-> IF u \in Legadas THEN "BAJA" ELSE "SIN_REGISTRAR"]]
    /\ asignados \in SUBSET (Legadas \X Materias)
    /\ bajas = [u \in Personas |->
                  IF MateriasDeDocente(u) = {} THEN Nada
                  ELSE [pendientes |-> MateriasDeDocente(u), completada |-> FALSE]]
    /\ clases = {}
    /\ anuncios = [x \in Personas \X Materias |-> 0]
    /\ abierta = [p \in Procesos |-> Nada]

-----------------------------------------------------------------------------
(* What a request reads                                                      *)

Aprobada(u) == cuentas[u].estado = "APROBADA"
AdminActivo(u) == Aprobada(u) /\ cuentas[u].rol = "ADMIN"
AdminsAprobados == {u \in Personas : AdminActivo(u)}
QuedaOtroDocenteActivo(m, u) == \E v \in Personas \ {u} : <<v, m>> \in asignados /\ Aprobada(v)
BajaPendiente(u) == bajas[u] # Nada /\ ~bajas[u].completada

\* The rows another request holds FOR UPDATE.
Ajenas(p) == UNION {abierta[q].tomadas : q \in {r \in Procesos \ {p} : abierta[r] # Nada}}

\* pgtransaccion.Coordinar in its exclusive mode, held over several statements.
Coordina(p) ==
    /\ abierta[p] # Nada
    /\ abierta[p].op = "baja"
    /\ abierta[p].paso \in {"contar", "contando", "escribir"}

PuedeCoordinar(p) == \A q \in Procesos \ {p} : ~Coordina(q)

En(p, paso) == abierta[p] # Nada /\ abierta[p].paso = paso

Abrir(p, op, u, paso, lista) ==
    /\ abierta[p] = Nada
    /\ abierta' = [abierta EXCEPT ![p] =
                     [op |-> op, u |-> u, paso |-> paso, leida |-> cuentas[u],
                      porTomar |-> {}, tomadas |-> {}, lista |-> lista, fallo |-> FALSE]]
    /\ UNCHANGED tablas

Cerrada(p) == abierta' = [abierta EXCEPT ![p] = Nada]

-----------------------------------------------------------------------------
(* Approval, rejection, promotion, demotion and the first step of a          *)
(* discharge: read, count the admins if one would be lost, write if nothing  *)
(* changed since.  Whoever asks was an active admin when the middleware      *)
(* looked and may no longer be one, so that is no guard here.                *)

Destino == [aprobar |-> "APROBADA", rechazar |-> "RECHAZADA", baja |-> "BAJA"]

PuedeTransicionarA(estado, nuevo) ==
    <<estado, nuevo>> \in {<<"PENDIENTE", "APROBADA">>, <<"PENDIENTE", "RECHAZADA">>,
                          <<"APROBADA", "BAJA">>}

Admite(c, op) ==
    CASE op = "promover" -> c = [rol |-> "DOCENTE", estado |-> "APROBADA"]
      [] op = "degradar" -> c = [rol |-> "ADMIN", estado |-> "APROBADA"]
      [] OTHER           -> PuedeTransicionarA(c.estado, Destino[op])

Cambiada(c, op) ==
    CASE op = "promover" -> [c EXCEPT !.rol = "ADMIN"]
      [] op = "degradar" -> [c EXCEPT !.rol = "DOCENTE"]
      [] OTHER           -> [c EXCEPT !.estado = Destino[op]]

SacaUnAdmin(c, op) == op \in {"degradar", "baja"} /\ c = [rol |-> "ADMIN", estado |-> "APROBADA"]

PrimerPaso(u, op) == IF SacaUnAdmin(cuentas[u], op) THEN "contar" ELSE "escribir"

PedirCambio(p, u, op) ==
    /\ Admite(cuentas[u], op)
    /\ Abrir(p, op, u, PrimerPaso(u, op), {})

\* A discharge that was already prepared goes on with what it left undone.
PedirBaja(p, u) ==
    /\ PuedeCoordinar(p)
    /\ \/ /\ bajas[u] = Nada
          /\ cuentas[u].estado = "BAJA" \/ Admite(cuentas[u], "baja")
          /\ Abrir(p, "baja", u, PrimerPaso(u, "baja"), {})
       \/ /\ bajas[u] # Nada
          /\ Abrir(p, "baja", u, "listar", {})

\* ContarAdminsAprobados chooses its rows when it starts...
Contar(p) ==
    /\ En(p, "contar")
    /\ abierta' = [abierta EXCEPT ![p].paso = "contando", ![p].porTomar = AdminsAprobados]
    /\ UNCHANGED tablas

\* Mutant: without ORDER BY.
EnCualquierOrden(S) == S

Primeras(S) == {v \in S : \A w \in S : Orden[v] <= Orden[w]}

\* Mutant: the row keeps the values it was chosen with.
TodaviaCuentaIgual(v) == TRUE

TodaviaCuenta(v) == AdminActivo(v)

\* ...and locks them one by one, waiting for whoever holds them and dropping the ones
\* that are no longer approved admins by then (FOR UPDATE under READ COMMITTED).
TomarFila(p) ==
    /\ En(p, "contando")
    /\ \E v \in Primeras(abierta[p].porTomar) :
          /\ v \notin Ajenas(p)
          /\ abierta' = [abierta EXCEPT ![p].porTomar = @ \ {v},
                                       ![p].tomadas = IF TodaviaCuenta(v) THEN @ \cup {v} ELSE @]
    /\ UNCHANGED tablas

\* verificarNoEsUltimoAdmin lets it pass.
QuedaOtroAdmin(p) ==
    /\ En(p, "contando")
    /\ abierta[p].porTomar = {}
    /\ Cardinality(abierta[p].tomadas) > 1

SigueIgual(p) == cuentas[abierta[p].u] = abierta[p].leida

PuedeEscribir(p) ==
    /\ En(p, "escribir") \/ QuedaOtroAdmin(p)
    /\ abierta[p].u \notin Ajenas(p)
    /\ SigueIgual(p)

EscribirCambio(p) ==
    /\ PuedeEscribir(p)
    /\ abierta[p].op \in Cambios \ {"baja"}
    /\ cuentas' = [cuentas EXCEPT ![abierta[p].u] = Cambiada(@, abierta[p].op)]
    /\ Cerrada(p)
    /\ UNCHANGED <<asignados, bajas, clases, anuncios>>

\* PrepararBaja and CambiarEstado, confirmed together.
PrepararBaja(p) ==
    /\ PuedeEscribir(p)
    /\ abierta[p].op = "baja"
    /\ bajas' = [bajas EXCEPT ![abierta[p].u] = [pendientes |-> MateriasDeDocente(abierta[p].u),
                                                completada |-> FALSE]]
    /\ cuentas' = [cuentas EXCEPT ![abierta[p].u].estado = "BAJA"]
    /\ abierta' = [abierta EXCEPT ![p].paso = "listar", ![p].porTomar = {}, ![p].tomadas = {}]
    /\ UNCHANGED <<asignados, clases, anuncios>>

-----------------------------------------------------------------------------
(* The rest of a discharge: a transaction per subject, and one to finish     *)

ListarPendientes(p) ==
    /\ En(p, "listar")
    /\ BajaPendiente(abierta[p].u)
    /\ abierta' = [abierta EXCEPT ![p].paso = "materias", ![p].lista = bajas[abierta[p].u].pendientes]
    /\ UNCHANGED tablas

DeLaMateria(m) == {c \in clases : c.materia = m}

Pendiente(p, m) == m \in bajas[abierta[p].u].pendientes

CompletarMateria(p, m) ==
    /\ En(p, "materias")
    /\ m \in abierta[p].lista
    /\ PuedeCoordinar(p)
    /\ bajas[abierta[p].u] # Nada
    /\ abierta' = [abierta EXCEPT ![p].lista = @ \ {m}]
    /\ LET u == abierta[p].u
           huerfana == Pendiente(p, m) /\ ~QuedaOtroDocenteActivo(m, u)
       IN /\ bajas' = [bajas EXCEPT ![u].pendientes = @ \ {m}]
          /\ clases' = IF huerfana THEN clases \ DeLaMateria(m) ELSE clases
          /\ anuncios' = IF huerfana THEN [anuncios EXCEPT ![<<u, m>>] = @ + 1] ELSE anuncios
    /\ UNCHANGED <<cuentas, asignados>>

\* A subject that fails is rolled back and does not stop the others.
FallarMateria(p, m) ==
    /\ En(p, "materias")
    /\ m \in abierta[p].lista
    /\ abierta' = [abierta EXCEPT ![p].lista = @ \ {m}, ![p].fallo = TRUE]
    /\ UNCHANGED tablas

SinPendientes(p) ==
    /\ BajaPendiente(abierta[p].u)
    /\ ~abierta[p].fallo
    /\ bajas[abierta[p].u].pendientes = {}

TerminarBaja(p) ==
    /\ En(p, "materias")
    /\ abierta[p].lista = {}
    /\ PuedeCoordinar(p)
    /\ SinPendientes(p)
    /\ asignados' = {a \in asignados : a[1] # abierta[p].u}
    /\ bajas' = [bajas EXCEPT ![abierta[p].u].completada = TRUE]
    /\ Cerrada(p)
    /\ UNCHANGED <<cuentas, clases, anuncios>>

\* An error, a rejection or the end of the process: what was not confirmed is undone.
Deshacer(p) ==
    /\ abierta[p] # Nada
    /\ Cerrada(p)
    /\ UNCHANGED tablas

-----------------------------------------------------------------------------
(* Registering and removing accounts                                         *)

\* crearUsuario and RegistrarConGoogle: the e-mail is unique in the database.
Crear(u, rol, estado) ==
    /\ cuentas[u].estado = "SIN_REGISTRAR"
    /\ cuentas' = [cuentas EXCEPT ![u] = [rol |-> rol, estado |-> estado]]
    /\ UNCHANGED <<asignados, bajas, clases, anuncios, abierta>>

\* EliminarDefinitivamente: an account it may remove never leaves those states, and the
\* transaction looks again for a pending discharge.  The cascades take the rest.
Eliminar(u) ==
    /\ cuentas[u].estado \in {"BAJA", "RECHAZADA"}
    /\ ~BajaPendiente(u)
    /\ cuentas' = [cuentas EXCEPT ![u].estado = "ELIMINADA"]
    /\ asignados' = {a \in asignados : a[1] # u}
    /\ bajas' = [bajas EXCEPT ![u] = Nada]
    /\ UNCHANGED <<clases, anuncios, abierta>>

-----------------------------------------------------------------------------
(* What internal/academic and internal/reservation do around it              *)

\* AsignarDocente coordinates first, so no discharge starts between its check and its write.
Asignar(u, m) ==
    /\ \A q \in Procesos : ~Coordina(q)
    /\ Aprobada(u)
    /\ asignados' = asignados \cup {<<u, m>>}
    /\ UNCHANGED <<cuentas, bajas, clases, anuncios, abierta>>

\* RemoverDocenteMateria: whoever is left alone loses the future classes.
Desasignar(u, m) ==
    /\ \A q \in Procesos : ~Coordina(q)
    /\ <<u, m>> \in asignados
    /\ asignados' = asignados \ {<<u, m>>}
    /\ clases' = IF QuedaOtroDocenteActivo(m, u) THEN clases ELSE clases \ DeLaMateria(m)
    /\ UNCHANGED <<cuentas, bajas, anuncios, abierta>>

\* CrearReserva, with the role the middleware read.
PedirReserva(p, u, m) ==
    /\ Aprobada(u)
    /\ Abrir(p, "reservar", u, "escribir", {m})

\* Mutant: the validator joins docente_materia alone.
EstaAsignadoSinMirarLaCuenta(u, m) == <<u, m>> \in asignados

\* ValidadorMateriaPostgres.DocenteEstaAsignado.
EstaAsignado(u, m) == <<u, m>> \in asignados /\ Aprobada(u)

Reservar(p) ==
    /\ En(p, "escribir")
    /\ abierta[p].op = "reservar"
    /\ PuedeCoordinar(p)
    /\ \E m \in abierta[p].lista :
          LET comoAdmin == abierta[p].leida.rol = "ADMIN"
          IN /\ comoAdmin \/ EstaAsignado(abierta[p].u, m)
             /\ clases' = clases \cup {[materia |-> m, comoAdmin |-> comoAdmin]}
    /\ Cerrada(p)
    /\ UNCHANGED <<cuentas, asignados, bajas, anuncios>>

\* A class is given or cancelled on its own.
TerminaLaClase(c) ==
    /\ clases' = clases \ {c}
    /\ UNCHANGED <<cuentas, asignados, bajas, anuncios, abierta>>

-----------------------------------------------------------------------------
Registrar == \E u \in Personas : Crear(u, "DOCENTE", "PENDIENTE")
CrearAdmin == \E u \in Personas : Crear(u, "ADMIN", "APROBADA")
Cambiar == \E p \in Procesos, u \in Personas, op \in Cambios \ {"baja"} : PedirCambio(p, u, op)
DarDeBaja == \E p \in Procesos, u \in Personas : PedirBaja(p, u)
ContarAdmins == \E p \in Procesos : Contar(p) \/ TomarFila(p)
Escribir == \E p \in Procesos : EscribirCambio(p) \/ PrepararBaja(p)
SeguirBaja == \E p \in Procesos :
    \/ ListarPendientes(p)
    \/ TerminarBaja(p)
    \/ \E m \in Materias : CompletarMateria(p, m) \/ FallarMateria(p, m)
Fallar == \E p \in Procesos : Deshacer(p)
Borrar == \E u \in Personas : Eliminar(u)
Asignaciones == \E u \in Personas, m \in Materias : Asignar(u, m) \/ Desasignar(u, m)
Clases ==
    \/ \E p \in Procesos : Reservar(p) \/ \E u \in Personas, m \in Materias : PedirReserva(p, u, m)
    \/ \E c \in clases : TerminaLaClase(c)

NextCt ==
    \/ Registrar \/ CrearAdmin \/ Cambiar \/ DarDeBaja \/ ContarAdmins \/ Escribir
    \/ SeguirBaja \/ Fallar \/ Borrar \/ Asignaciones \/ Clases

SpecCt == InitCt /\ [][NextCt]_varsCt

-----------------------------------------------------------------------------
(* Properties                                                                *)

\* However demotions, discharges and promotions of several requests interleave, somebody
\* can still administer the system (verificarNoEsUltimoAdmin, ErrUltimoAdmin).
SiempreHayAdmin == AdminsAprobados # {}

\* A discharge that says it is complete left the person no subject, whatever was assigned
\* or failed meanwhile, and it stays so (RF-02.8).
BajaSinRestos ==
    \A u \in Personas :
        bajas[u] # Nada /\ bajas[u].completada
        => bajas[u].pendientes = {} /\ MateriasDeDocente(u) = {}

\* A class a teacher booked has somebody to give it, or a discharge that still has to
\* decide about its subject: never a future class nobody will come to (RF-02.8).
ClaseConDocente ==
    \A c \in clases :
        ~c.comoAdmin =>
            \E u \in Personas :
                \/ Aprobada(u) /\ <<u, c.materia>> \in asignados
                \/ BajaPendiente(u) /\ (c.materia \in bajas[u].pendientes)

\* A discharge that is retried, or asked for twice at once, announces each subject it
\* leaves without a teacher only once.
UnAnuncioPorMateria == \A x \in Personas \X Materias : anuncios[x] <= 1

\* Two requests that count the admins never wait for each other's rows (ORDER BY id).
ContarNoSeTraba ==
    \A p, q \in Procesos :
        p # q /\ En(p, "contando") /\ En(q, "contando") =>
            \/ abierta[p].porTomar = {}
            \/ abierta[q].porTomar = {}
            \/ \E v \in Primeras(abierta[p].porTomar) : v \notin abierta[q].tomadas
            \/ \E v \in Primeras(abierta[q].porTomar) : v \notin abierta[p].tomadas
=============================================================================
