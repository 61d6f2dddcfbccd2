--------------------------- MODULE PedidosDeMateria ---------------------------
(* The requests of internal/academic to teach a subject, with the assignments *)
(* they end in.  Every operation takes the coordination in exclusive mode, so *)
(* it is one step, except the resolution of a request: its transaction may    *)
(* deadlock and be run again, and an account may be deleted while it runs.    *)
EXTENDS Naturals, FiniteSets

CONSTANTS
    Autores,     \* accounts of teachers
    Admins,
    Cursos,
    Archivados,  \* the courses of an archived year
    Titulos,     \* names of subjects
    Pedidos,     \* identifiers of pedido_de_materia
    NadaP

Asignatura == [curso : Cursos, titulo : Titulos]

ASSUME PedidosAssumption ==
    /\ Archivados \subseteq Cursos
    /\ NadaP \notin Asignatura \cup Admins \cup Cursos

VARIABLES
    personas,     \* estado of the accounts of teachers
    existentes,   \* the rows of materia
    docentes,     \* docente_materia
    conClases,    \* subjects with reservations that are not over
    pedidos,      \* pedido_de_materia
    resolviendo,  \* the resolution whose transaction is open
    constancias,  \* history: the answers and what was audited of each
    avisados      \* history: how often materia.pedido.resuelto was published

varsP == <<personas, existentes, docentes, conClases, pedidos, resolviendo, constancias, avisados>>

RolesDocente == {"TITULAR", "SUPLENTE"}
EstadosPedido == {"PENDIENTE", "APROBADO", "RECHAZADO"}
Docencia == [usuario : Autores, materia : Asignatura, rol : RolesDocente]
PedidoDeMateria ==
    [usuario : Autores, materia : Asignatura \cup {NadaP}, titulo : Titulos, estado : EstadosPedido,
     creada : Asignatura \cup {NadaP}, resueltoPor : Admins \cup {NadaP}]

TypeOKP ==
    /\ personas \in [Autores -> {"APROBADA", "BAJA", "ELIMINADA"}]
    /\ existentes \subseteq Asignatura
    /\ docentes \subseteq Docencia
    /\ conClases \subseteq existentes
    /\ pedidos \in [Pedidos -> PedidoDeMateria \cup {NadaP}]
    /\ avisados \in [Pedidos -> Nat]

InitP ==
    /\ personas = [u \in Autores |-> "APROBADA"]
    /\ existentes \in SUBSET Asignatura
    /\ docentes = {} /\ conClases = {}
    /\ pedidos = [p \in Pedidos |-> NadaP]
    /\ resolviendo = NadaP
    /\ constancias = {}
    /\ avisados = [p \in Pedidos |-> 0]

-----------------------------------------------------------------------------
(* What the operations read                                                  *)

\* CoordinarAsignaciones: the resolution that is running has the coordination.
Turno == resolviendo = NadaP

MateriaVigente(m) == m \in existentes /\ m.curso \notin Archivados
DocentesDe(m) == {d \in docentes : d.materia = m}
LaDicta(u, m) == \E d \in docentes : d.usuario = u /\ d.materia = m

\* Mutant: the account is not looked at.
ExisteAunqueNoEste(u) == personas[u] # "ELIMINADA"

ExisteYAprobado(u) == personas[u] = "APROBADA"

QuedaOtroActivo(m, u) == \E d \in DocentesDe(m) : d.usuario # u /\ ExisteYAprobado(d.usuario)

EsMateriaNueva(p) == pedidos[p].materia = NadaP
TienePedidoAbierto(u, m) ==
    \E p \in Pedidos : /\ pedidos[p] # NadaP /\ pedidos[p].estado = "PENDIENTE"
                       /\ pedidos[p].usuario = u /\ pedidos[p].materia = m

-----------------------------------------------------------------------------
(* Asking for a subject                                                      *)

NuevoPedido(p, u, m, t) ==
    pedidos' = [pedidos EXCEPT ![p] = [usuario |-> u, materia |-> m, titulo |-> t, estado |-> "PENDIENTE",
                                       creada |-> NadaP, resueltoPor |-> NadaP]]

\* The session was valid when the request came in: the account may be discharged by now.
PedirMateria(p, u, m) ==
    /\ Turno /\ pedidos[p] = NadaP /\ personas[u] # "ELIMINADA"
    /\ MateriaVigente(m)
    /\ ~LaDicta(u, m)
    /\ ~TienePedidoAbierto(u, m)
    /\ NuevoPedido(p, u, m, m.titulo)
    /\ UNCHANGED <<personas, existentes, docentes, conClases, resolviendo, constancias, avisados>>

\* One that does not exist yet is asked for by its name, which nothing compares.
PedirMateriaNueva(p, u, t) ==
    /\ Turno /\ pedidos[p] = NadaP /\ personas[u] # "ELIMINADA"
    /\ NuevoPedido(p, u, NadaP, t)
    /\ UNCHANGED <<personas, existentes, docentes, conClases, resolviendo, constancias, avisados>>

-----------------------------------------------------------------------------
(* Resolving it                                                              *)

Decision(aprobar) == IF aprobar THEN "APROBADO" ELSE "RECHAZADO"

\* What the handler answers and audits.
Contestar(p, adm, aprobar, pedido) ==
    constancias' = constancias \cup
        {[pedido |-> p, auditado |-> Decision(aprobar), estado |-> pedido.estado, por |-> pedido.resueltoPor]}

MismaDecision(p, aprobar) == pedidos[p].estado = Decision(aprobar)

\* Repeating a decision answers what was decided; the opposite one is rejected.
RepetirResolucion(p, adm, aprobar) ==
    /\ Turno /\ pedidos[p] # NadaP
    /\ pedidos[p].estado # "PENDIENTE"
    /\ MismaDecision(p, aprobar)
    /\ Contestar(p, adm, aprobar, pedidos[p])
    /\ UNCHANGED <<personas, existentes, docentes, conClases, pedidos, resolviendo, avisados>>

\* The subject that is assigned: the one that was chosen, or the one to create.
MateriaDelPedido(p, curso) ==
    IF EsMateriaNueva(p) THEN [curso |-> curso, titulo |-> pedidos[p].titulo] ELSE pedidos[p].materia

PuedeCrearla(curso, t) ==
    curso # NadaP /\ curso \notin Archivados /\ [curso |-> curso, titulo |-> t] \notin existentes

\* AsignarDocente, whose failure fails the resolution.
PuedeAsignarse(u, m) == MateriaVigente(m) /\ ExisteYAprobado(u) /\ ~LaDicta(u, m)

PuedeAprobarse(p, curso) ==
    IF EsMateriaNueva(p)
    THEN PuedeCrearla(curso, pedidos[p].titulo) /\ ExisteYAprobado(pedidos[p].usuario)
    ELSE PuedeAsignarse(pedidos[p].usuario, pedidos[p].materia)

\* Mutant: the event is published by the attempt, not by its transaction.
PublicaElIntento(p) == avisados' = [avisados EXCEPT ![p] = @ + 1]

AlConfirmar(p) == UNCHANGED avisados

\* The transaction runs: the row of the request is taken FOR UPDATE and every check passes.
\* Nothing of what it writes is seen until it is confirmed.
ResolverPedido(p, adm, aprobar, curso, rol) ==
    /\ Turno /\ pedidos[p] # NadaP
    /\ pedidos[p].estado = "PENDIENTE"
    /\ aprobar => PuedeAprobarse(p, curso)
    /\ resolviendo' = [pedido |-> p, admin |-> adm, aprobar |-> aprobar, curso |-> curso, rol |-> rol]
    /\ AlConfirmar(p)
    /\ UNCHANGED <<personas, existentes, docentes, conClases, pedidos, constancias>>

RolPorDefecto(m) == IF DocentesDe(m) = {} THEN "TITULAR" ELSE "SUPLENTE"
RolElegido(m, rol) == IF rol = NadaP THEN RolPorDefecto(m) ELSE rol

GuardarPedido(p, adm, aprobar, creada) ==
    [pedidos[p] EXCEPT !.estado = Decision(aprobar), !.resueltoPor = adm, !.creada = creada]

ConfirmarResolucion ==
    /\ resolviendo # NadaP
    /\ LET r == resolviendo
           p == r.pedido
           m == MateriaDelPedido(p, r.curso)
           creada == IF r.aprobar /\ EsMateriaNueva(p) THEN m ELSE NadaP
           resuelto == GuardarPedido(p, r.admin, r.aprobar, creada)
       IN /\ pedidos' = [pedidos EXCEPT ![p] = resuelto]
          /\ existentes' = IF creada = NadaP THEN existentes ELSE existentes \cup {m}
          /\ docentes' = IF r.aprobar
                         THEN docentes \cup {[usuario |-> pedidos[p].usuario, materia |-> m,
                                              rol |-> RolElegido(m, r.rol)]}
                         ELSE docentes
          /\ Contestar(p, r.admin, r.aprobar, resuelto)
          /\ avisados' = [avisados EXCEPT ![p] = @ + 1]
    /\ resolviendo' = NadaP
    /\ UNCHANGED <<personas, conClases>>

\* A deadlock, after which the callback is run again from its first read, or an error.
DeshacerIntento ==
    /\ resolviendo # NadaP
    /\ resolviendo' = NadaP
    /\ UNCHANGED <<personas, existentes, docentes, conClases, pedidos, constancias, avisados>>

-----------------------------------------------------------------------------
(* What else changes assignments, subjects and accounts                      *)

AsignarDocente(u, m, rol) ==
    /\ Turno
    /\ PuedeAsignarse(u, m)
    /\ docentes' = docentes \cup {[usuario |-> u, materia |-> m, rol |-> rol]}
    /\ UNCHANGED <<personas, existentes, conClases, pedidos, resolviendo, constancias, avisados>>

CambiarRolDocente(d, rol) ==
    /\ Turno
    /\ MateriaVigente(d.materia) /\ rol # d.rol
    /\ docentes' = (docentes \ {d}) \cup {[d EXCEPT !.rol = rol]}
    /\ UNCHANGED <<personas, existentes, conClases, pedidos, resolviendo, constancias, avisados>>

\* The future classes of a subject that is left without a teacher are cancelled.
RemoverDocenteMateria(d) ==
    /\ Turno
    /\ MateriaVigente(d.materia)
    /\ docentes' = docentes \ {d}
    /\ conClases' = IF QuedaOtroActivo(d.materia, d.usuario) THEN conClases ELSE conClases \ {d.materia}
    /\ UNCHANGED <<personas, existentes, pedidos, resolviendo, constancias, avisados>>

\* CrearReserva, by a teacher of the subject.
ReservarClase(u, m) ==
    /\ Turno
    /\ ExisteYAprobado(u) /\ LaDicta(u, m) /\ MateriaVigente(m)
    /\ conClases' = conClases \cup {m}
    /\ UNCHANGED <<personas, existentes, docentes, pedidos, resolviendo, constancias, avisados>>

\* Its requests and assignments go with it (ON DELETE CASCADE); a request that created it
\* is kept without it (ON DELETE SET NULL).
SinMateria(pedido, m) ==
    IF pedido = NadaP \/ pedido.materia = m THEN NadaP
    ELSE IF pedido.creada = m THEN [pedido EXCEPT !.creada = NadaP] ELSE pedido

EliminarAsignatura(m) ==
    /\ Turno /\ MateriaVigente(m)
    /\ m \notin conClases
    /\ existentes' = existentes \ {m}
    /\ docentes' = docentes \ DocentesDe(m)
    /\ pedidos' = [p \in Pedidos |-> SinMateria(pedidos[p], m)]
    /\ UNCHANGED <<personas, conClases, resolviendo, constancias, avisados>>

\* A discharge; its assignments go when it is finished.
DarDeBajaP(u) ==
    /\ Turno /\ personas[u] = "APROBADA"
    /\ personas' = [personas EXCEPT ![u] = "BAJA"]
    /\ conClases' = {m \in conClases : LaDicta(u, m) => QuedaOtroActivo(m, u)}
    /\ UNCHANGED <<existentes, docentes, pedidos, resolviendo, constancias, avisados>>

TerminarSuBaja(u) ==
    /\ Turno /\ personas[u] = "BAJA"
    /\ docentes' = {d \in docentes : d.usuario # u}
    /\ UNCHANGED <<personas, existentes, conClases, pedidos, resolviendo, constancias, avisados>>

\* Takes no coordination, but waits for the row a resolution holds FOR UPDATE.
EliminarAutor(u) ==
    /\ personas[u] = "BAJA"
    /\ resolviendo # NadaP => pedidos[resolviendo.pedido].usuario # u
    /\ personas' = [personas EXCEPT ![u] = "ELIMINADA"]
    /\ docentes' = {d \in docentes : d.usuario # u}
    /\ pedidos' = [p \in Pedidos |-> IF pedidos[p] # NadaP /\ pedidos[p].usuario = u THEN NadaP ELSE pedidos[p]]
    /\ UNCHANGED <<existentes, conClases, resolviendo, constancias, avisados>>

-----------------------------------------------------------------------------
(* The requests of the handlers                                              *)

PeticionPedirMateria ==
    \E p \in Pedidos, u \in Autores :
       /\ avisados[p] = 0
       /\ (\E m \in existentes : PedirMateria(p, u, m)) \/ (\E t \in Titulos : PedirMateriaNueva(p, u, t))
PeticionResolverPedido ==
    \E p \in Pedidos, adm \in Admins, aprobar \in BOOLEAN :
       \/ RepetirResolucion(p, adm, aprobar)
       \/ \E curso \in Cursos \cup {NadaP}, rol \in RolesDocente \cup {NadaP} :
             ResolverPedido(p, adm, aprobar, curso, rol)
PeticionAsignarDocente == \E u \in Autores, m \in existentes, rol \in RolesDocente : AsignarDocente(u, m, rol)
PeticionCambiarRol == \E d \in docentes, rol \in RolesDocente : CambiarRolDocente(d, rol)
PeticionRemoverDocente == \E d \in docentes : RemoverDocenteMateria(d)

DeLasCuentas == \E u \in Autores : DarDeBajaP(u) \/ TerminarSuBaja(u) \/ EliminarAutor(u)

NextP ==
    \/ PeticionPedirMateria \/ PeticionResolverPedido
    \/ ConfirmarResolucion \/ DeshacerIntento
    \/ PeticionAsignarDocente \/ PeticionCambiarRol \/ PeticionRemoverDocente
    \/ \E m \in existentes : EliminarAsignatura(m) \/ \E u \in Autores : ReservarClase(u, m)
    \/ DeLasCuentas

SpecP == InitP /\ [][NextP]_varsP

-----------------------------------------------------------------------------
(* Properties                                                                *)

\* A request is decided once, whoever resolves it again and however often its transaction
\* is run: every answer says what was decided and by whom, what is audited is what was
\* decided, and its author is told once.
UnaSolaDecision ==
    /\ \A x \in constancias : x.auditado = x.estado
    /\ \A x, y \in constancias : x.pedido = y.pedido => x = y
    /\ \A p \in Pedidos : avisados[p] = Cardinality({x \in constancias : x.pedido = p})

\* A request that becomes approved leaves its author teaching a subject of the current year,
\* with an account that can enter, and as its substitute if somebody taught it and nothing
\* else was asked for: what could not be assigned stays pending.
AprobarEsAsignar ==
    [][\A p \in Pedidos :
          pedidos[p] # NadaP /\ pedidos'[p] # NadaP /\ pedidos[p].estado = "PENDIENTE"
             /\ pedidos'[p].estado = "APROBADO" =>
          /\ personas'[pedidos[p].usuario] = "APROBADA"
          /\ docentes \subseteq docentes'
          /\ \E d \in docentes' \ docentes :
                /\ d.usuario = pedidos[p].usuario
                /\ d.materia \in existentes' /\ d.materia.curso \notin Archivados
                /\ d.materia \in {pedidos'[p].materia, pedidos'[p].creada}
                /\ DocentesDe(d.materia) # {} /\ resolviendo.rol = NadaP => d.rol = "SUPLENTE"]_varsP
=============================================================================
