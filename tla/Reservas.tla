------------------------------ MODULE Reservas ------------------------------
(* The committed state of the reservation component and its operations, each *)
(* one as the single atomic step its database transaction amounts to. This   *)
(* is what the component promises; ReservasConcurrentes shows that the       *)
(* interleaved transactions of the code implement it.                        *)
(*                                                                           *)
(* A reservation is named by <<g, e>>: the group (or block operation) that   *)
(* created it and the device it was first asked for; the device it holds now *)
(* is a field, because a change or a displacement moves it.                  *)
EXTENDS ReservaDominio, Functions

CONSTANTS
    Grupos,      \* ids of reserva_grupo rows and of block operations
    Series,      \* the sets of slots one request may ask for: {f}, or a weekly series
    Horizonte,   \* bound of the clock
    Retraso,     \* instants that may pass between reading the clock and committing
    Lote,        \* loteFinalizarVencidas
    Nada         \* NULL

Ids == Grupos \X Equipos

Reserva == [estado : EstadosReserva, equipo : Equipos]

\* A row of reserva_grupo, or (tipo BLOQUEO) what the rows of one block operation share.
Grupo == [tipo : {"NORMAL"}, estado : EstadosGrupo, franja : Franjas,
          materia : Materias, docente : Usuarios, regla : Grupos \cup {Nada}]

Operacion == [tipo : {"BLOQUEO"}, franja : Franjas, docente : Usuarios]

\* "reservable": DISPONIBLE, not discharged and marked reservable; "fuera": under
\* maintenance, out of service or discharged; "oculto": DISPONIBLE but not reservable.
Condiciones == {"reservable", "oculto", "fuera"}

ASSUME ReservasAssumption ==
    /\ Series \subseteq (SUBSET Franjas) \ {{}}
    /\ Horizonte \in Nat /\ Retraso \in Nat /\ Lote \in Nat \ {0}
    /\ Nada \notin Reserva \cup Grupo \cup Operacion \cup Grupos \cup Equipos

VARIABLES
    reservas,    \* table reserva
    grupos,      \* table reserva_grupo, and the block operations
    equipos,     \* condition of each device in the inventory
    ahora        \* the school's clock

vars == <<reservas, grupos, equipos, ahora>>

TypeOK ==
    /\ reservas \in [Ids -> Reserva \cup {Nada}]
    /\ grupos \in [Grupos -> Grupo \cup Operacion \cup {Nada}]
    /\ equipos \in [Equipos -> Condiciones]
    /\ ahora \in 0..Horizonte

Init ==
    /\ reservas = [i \in Ids |-> Nada]
    /\ grupos = [g \in Grupos |-> Nada]
    /\ equipos = [e \in Equipos |-> "reservable"]
    /\ ahora = 0

-----------------------------------------------------------------------------
(* Reading the tables                                                        *)

Confirmada(i) == reservas[i] # Nada /\ reservas[i].estado = "CONFIRMADA"

FranjaDe(i) == grupos[i[1]].franja

EsBloqueo(i) == grupos[i[1]].tipo = "BLOQUEO"

Libres == {g \in Grupos : grupos[g] = Nada}

Reservables == {e \in Equipos : equipos[e] = "reservable"}

\* The instants a transaction that commits now may have read from the clock.
Relojes == {t \in 0..ahora : ahora - t <= Retraso}

\* Mutant: a block is not taken for a reservation in the way.
SolapamientosDeClases(E, F) ==
    {i \in Ids : /\ Confirmada(i) /\ ~EsBloqueo(i)
                 /\ reservas[i].equipo \in E
                 /\ \E f \in F : Solapan(FranjaDe(i), f)}

\* BuscarSolapamientos: every device asked for against every slot asked for.
Solapamientos(E, F) ==
    {i \in Ids : /\ Confirmada(i)
                 /\ reservas[i].equipo \in E
                 /\ \E f \in F : Solapan(FranjaDe(i), f)}

\* Mutant: a class in progress is taken for a past one.
NoIniciadas(t) == {i \in Ids : Confirmada(i) /\ ~YaEmpezo(FranjaDe(i), t)}

\* ListarReservasFuturasDeEquipo(s): those that have not finished at t.
NoTerminadas(t) == {i \in Ids : Confirmada(i) /\ ~YaTermino(FranjaDe(i), t)}

\* ListarReservasFuturas: the classes that have not started at t; never a block.
NoEmpezadas(t) == {i \in Ids : Confirmada(i) /\ ~EsBloqueo(i) /\ ~YaEmpezo(FranjaDe(i), t)}

\* Mutant: a join with the rules of the series leaves the single classes out.
VencidasConRegla(t) ==
    {i \in Ids : Confirmada(i) /\ grupos[i[1]].regla # Nada /\ Vencida(FranjaDe(i), t)}

\* ListarReservasConfirmadasVencidas.
Vencidas(t) == {i \in Ids : Confirmada(i) /\ Vencida(FranjaDe(i), t)}

\* ListarGruposFuturosDeRegla.
GruposFuturosDeRegla(g) ==
    {h \in Grupos : /\ grupos[h] # Nada
                    /\ grupos[h].tipo = "NORMAL"
                    /\ grupos[h].regla = grupos[g].regla
                    /\ grupos[h].franja.dia > grupos[g].franja.dia}

\* ReservasDeLaSerieDesde: the same device in what is left of the series.
SerieDesde(i) ==
    {j \in Ids : /\ Confirmada(j)
                 /\ ~EsBloqueo(i) /\ ~EsBloqueo(j)
                 /\ reservas[j].equipo = reservas[i].equipo
                 /\ grupos[i[1]].regla # Nada
                 /\ grupos[j[1]].regla = grupos[i[1]].regla
                 /\ FranjaDe(j).dia >= FranjaDe(i).dia}

\* Mutant: the hour of notice is not required.
SePuedeRobarSinAviso(materia, i, t) ==
    ~EsBloqueo(i) /\ Prefiere(materia, grupos[i[1]].materia, reservas[i].equipo)

\* ReservasRobablesPor and SePuedeRobarPorHorario, composed as sePuedeRobar does.
SePuedeRobar(materia, i, t) ==
    /\ ~EsBloqueo(i)
    /\ Prefiere(materia, grupos[i[1]].materia, reservas[i].equipo)
    /\ SePuedeRobarPorHorario(FranjaDe(i), t)

\* The EXCLUDE constraint no_solapamiento over the tables rs and gs.
SinSolapes(rs, gs) ==
    \A i, j \in Ids :
        /\ rs[i] # Nada /\ rs[i].estado = "CONFIRMADA"
        /\ rs[j] # Nada /\ rs[j].estado = "CONFIRMADA"
        /\ i # j /\ rs[i].equipo = rs[j].equipo
        => ~Solapan(gs[i[1]].franja, gs[j[1]].franja)

-----------------------------------------------------------------------------
(* Writing the tables                                                        *)

EstadosDelGrupo(rs, g) ==
    {rs[<<g, e>>].estado : e \in {d \in Equipos : rs[<<g, d>>] # Nada}}

\* Mutant: the group is only written once it is closed.
RecalculadosAlCerrar(gs, rs, G) ==
    [g \in Grupos |->
        IF /\ g \in G /\ gs[g] # Nada /\ gs[g].tipo = "NORMAL"
           /\ EstadoDeGrupo(EstadosDelGrupo(rs, g), gs[g].estado) \in GrupoTerminal
        THEN [gs[g] EXCEPT !.estado = EstadoDeGrupo(EstadosDelGrupo(rs, g), gs[g].estado)]
        ELSE gs[g]]

\* recalcularGrupo for each of G, over the reservations rs already written.
Recalculados(gs, rs, G) ==
    [g \in Grupos |->
        IF g \in G /\ gs[g] # Nada /\ gs[g].tipo = "NORMAL" /\ gs[g].estado \notin GrupoTerminal
        THEN [gs[g] EXCEPT !.estado = EstadoDeGrupo(EstadosDelGrupo(rs, g), gs[g].estado)]
        ELSE gs[g]]

ConEstado(rs, S, estado) ==
    [i \in Ids |-> IF i \in S THEN [rs[i] EXCEPT !.estado = estado] ELSE rs[i]]

\* The rows CrearReserva inserts for the groups G over the devices E.
ConFilas(rs, G, E) ==
    [i \in Ids |-> IF i[1] \in G /\ i[2] \in E
                   THEN [estado |-> "CONFIRMADA", equipo |-> i[2]] ELSE rs[i]]

GruposDe(S) == {i[1] : i \in S}

\* Cancelar, Finalizar or Liberar every one of S, with the states of their groups.
Cerrar(S, estado) ==
    /\ reservas' = ConEstado(reservas, S, estado)
    /\ grupos' = Recalculados(grupos, reservas', GruposDe(S))
    /\ UNCHANGED <<equipos, ahora>>

-----------------------------------------------------------------------------
(* Displacement: what reponerEnCascada promises of the plan it writes. The   *)
(* algorithm itself is module Reposicion.                                    *)

\* plan maps each displaced reservation to its new device, or to Nada to cancel it.
AplicarPlan(rs, plan) ==
    [i \in Ids |-> IF i \notin DOMAIN plan THEN rs[i]
                   ELSE IF plan[i] = Nada THEN [rs[i] EXCEPT !.estado = "CANCELADA"]
                   ELSE [rs[i] EXCEPT !.equipo = plan[i]]]

Canceladas(plan) == {i \in DOMAIN plan : plan[i] = Nada}

\* Nobody loses a device but to somebody who may take it: the winner takes it
\* from the first ones, and one of the displaced from each of the others.
PlanJustificado(materia, iniciales, plan, t) ==
    /\ iniciales \subseteq DOMAIN plan
    /\ \A i \in iniciales : SePuedeRobar(materia, i, t)
    /\ \A i \in DOMAIN plan \ iniciales :
          \E j \in DOMAIN plan \ {i} : SePuedeRobar(grupos[j[1]].materia, i, t)

PlanesDeReposicion(materia, iniciales, t) ==
    IF iniciales = {} THEN {<< >>}
    ELSE {plan \in UNION {[P -> Reservables \cup {Nada}] : P \in SUBSET NoEmpezadas(t)} :
             PlanJustificado(materia, iniciales, plan, t)}

-----------------------------------------------------------------------------
(* Operations                                                                *)

\* materializarGrupo, once per slot: nuevos maps each new group to its slot.
ConClases(gs, nuevos, materia, quien, regla) ==
    [g \in Grupos |->
        IF g \in DOMAIN nuevos
        THEN [tipo |-> "NORMAL", estado |-> "CONFIRMADA", franja |-> nuevos[g],
              materia |-> materia, docente |-> quien, regla |-> regla]
        ELSE gs[g]]

\* A series shares a rule, named after one of its groups.
ReglaDe(G) == IF \A g, h \in G : g = h THEN {Nada} ELSE G

\* CrearReserva and CrearReservaRecurrente: all the slots F on all the devices E, or
\* nothing. Whatever stands in the way must be on a device of T and open to be taken.
CrearReserva(quien, materia, F, E, T) ==
    /\ PuedeReservar(materia, quien)
    /\ E \subseteq Reservables
    /\ \E t \in Relojes :
         /\ \A f \in F : ~YaTermino(f, t)
         /\ LET iniciales == Solapamientos(E, F) IN
              /\ \A i \in iniciales : reservas[i].equipo \in T
              /\ \E plan \in PlanesDeReposicion(materia, iniciales, t), G \in SUBSET Libres :
                 \E nuevos \in Bijection(G, F), regla \in ReglaDe(G) :
                   LET rs == AplicarPlan(reservas, plan)
                       gs == ConClases(grupos, nuevos, materia, quien, regla)
                   IN /\ reservas' = ConFilas(rs, G, E)
                      /\ SinSolapes(reservas', gs)
                      /\ grupos' = Recalculados(gs, rs, GruposDe(Canceladas(plan)))
    /\ UNCHANGED <<equipos, ahora>>

\* CancelarReserva: a block only by an admin, even when its author no longer is one.
CancelarReserva(quien, i) ==
    /\ Confirmada(i)
    /\ EsBloqueo(i) => quien \in Admins
    /\ PuedeCancelar(grupos[i[1]].docente, quien)
    /\ Cerrar({i}, "CANCELADA")

\* CancelarOcurrenciaRecurrente: this class, or this one and the later ones of its rule.
CancelarOcurrencia(quien, g, soloEsta) ==
    /\ grupos[g] # Nada /\ grupos[g].tipo = "NORMAL"
    /\ PuedeCancelar(grupos[g].docente, quien)
    /\ LET G == IF soloEsta \/ grupos[g].regla = Nada THEN {g}
                ELSE {g} \cup GruposFuturosDeRegla(g)
       IN Cerrar({i \in Ids : i[1] \in G /\ Confirmada(i)}, "CANCELADA")

\* BloquearEquipos: the classes in the way are cancelled, another block is not.
BloquearEquipos(quien, f, E) ==
    /\ quien \in Admins
    /\ E \subseteq Reservables
    /\ \E t \in Relojes : ~YaTermino(f, t)
    /\ LET enMedio == Solapamientos(E, {f}) IN
         /\ \A i \in enMedio : ~EsBloqueo(i)
         /\ \E g \in Libres :
              LET rs == ConEstado(reservas, enMedio, "CANCELADA")
                  gs == [grupos EXCEPT ![g] = [tipo |-> "BLOQUEO", franja |-> f, docente |-> quien]]
              IN /\ reservas' = ConFilas(rs, {g}, E)
                 /\ grupos' = Recalculados(gs, rs, GruposDe(enMedio))
    /\ UNCHANGED <<equipos, ahora>>

\* LevantarBloqueo: every reservation of the operation that is still in force.
LevantarBloqueo(quien, g) ==
    /\ quien \in Admins
    /\ grupos[g] # Nada /\ grupos[g].tipo = "BLOQUEO"
    /\ Cerrar({i \in Ids : i[1] = g /\ Confirmada(i)}, "CANCELADA")

\* finalizarLoteVencidas: one batch of those that are past, oldest first in the code.
FinalizarLote ==
    \E t \in Relojes, lote \in (SUBSET Vencidas(ahora)) \ {{}} :
        /\ lote \subseteq Vencidas(t)
        /\ Cardinality(lote) <= Lote
        /\ Cerrar(lote, "FINALIZADA")

\* Liberar: nobody came for these devices (the sweep), or the desk gave them up when
\* it handed out the rest of the group. Only on the day, and before the class ends.
LiberarReservas(S) ==
    /\ \A i \in S : Confirmada(i) /\ ~EsBloqueo(i)
    /\ \E t \in Relojes : \A i \in S : PuedeEntregarseEn(FranjaDe(i), reservas[i].estado, t)
    /\ Cerrar(S, "NO_RETIRADA")

\* CambiarEstadoEquipo and DarDeBajaEquipo of inventory: what leaves circulation loses
\* every reservation that has not finished, blocks included.
SacarDeCirculacion(e) ==
    /\ \E t \in Relojes :
         LET S == {i \in NoTerminadas(t) : reservas[i].equipo = e} IN
           /\ equipos[e] = "fuera" => S # {}
           /\ reservas' = ConEstado(reservas, S, "CANCELADA")
           /\ grupos' = Recalculados(grupos, reservas', GruposDe(S))
    /\ equipos' = [equipos EXCEPT ![e] = "fuera"]
    /\ UNCHANGED ahora

\* Back to DISPONIBLE, or the reservable flag edited: no reservation is touched.
CambiarCondicion(e, nueva) ==
    /\ equipos[e] # nueva
    /\ nueva # "fuera"
    /\ equipos' = [equipos EXCEPT ![e] = nueva]
    /\ UNCHANGED <<reservas, grupos, ahora>>

\* CancelarReservasFuturasDeMateria: the subject lost its last teacher.
CancelarFuturasDeMateria(m) ==
    \E t \in Relojes :
        Cerrar({i \in NoTerminadas(t) : ~EsBloqueo(i) /\ grupos[i[1]].materia = m}, "CANCELADA")

\* CancelarReservasPorIDs: the classes a new timetable left outside.
CancelarPorIDs(S) ==
    /\ \E t \in Relojes : S \subseteq NoEmpezadas(t)
    /\ Cerrar(S, "CANCELADA")

ConEquipo(rs, S, nuevo) ==
    [i \in Ids |-> IF i \in S THEN [rs[i] EXCEPT !.equipo = nuevo] ELSE rs[i]]

\* What moves with i: i alone, or with it the classes of the rest of its series that
\* were on its device when the series was read and still are when the rows are locked.
AlcancesDeCambio(i, soloEsta) ==
    IF soloEsta THEN {{i}} ELSE {A \cup {i} : A \in SUBSET SerieDesde(i)}

\* CambiarEquipoDeReserva: this reservation, or the same device in the rest of the series.
CambiarEquipo(quien, i, nuevo, soloEsta) ==
    /\ Confirmada(i)
    /\ PuedeVer(grupos[i[1]].docente, quien)
    /\ reservas[i].equipo # nuevo
    /\ nuevo \in Reservables
    /\ \E alcance \in AlcancesDeCambio(i, soloEsta) :
         /\ Solapamientos({nuevo}, {FranjaDe(j) : j \in alcance}) = {}
         /\ reservas' = ConEquipo(reservas, alcance, nuevo)
    /\ UNCHANGED <<grupos, equipos, ahora>>

PasaElTiempo ==
    /\ ahora < Horizonte
    /\ ahora' = ahora + 1
    /\ UNCHANGED <<reservas, grupos, equipos>>

Crear == \E quien \in Usuarios, m \in Materias, F \in Series, E \in (SUBSET Equipos) \ {{}} :
            \E T \in SUBSET E : CrearReserva(quien, m, F, E, T)
Cancelar == \E quien \in Usuarios, i \in Ids : CancelarReserva(quien, i)
CancelarSerie == \E quien \in Usuarios, g \in Grupos, b \in BOOLEAN : CancelarOcurrencia(quien, g, b)
Bloquear == \E quien \in Usuarios, f \in Franjas, E \in (SUBSET Equipos) \ {{}} :
               BloquearEquipos(quien, f, E)
Levantar == \E quien \in Usuarios, g \in Grupos : LevantarBloqueo(quien, g)
Liberar == \E S \in (SUBSET NoTerminadas(0)) \ {{}} : LiberarReservas(S)
Sacar == \E e \in Equipos : SacarDeCirculacion(e)
Condicion == \E e \in Equipos, c \in Condiciones : CambiarCondicion(e, c)
QuedarSinDocente == \E m \in Materias : CancelarFuturasDeMateria(m)
CambiarJornada == \E S \in (SUBSET NoTerminadas(0)) \ {{}} : CancelarPorIDs(S)
Cambiar == \E quien \in Usuarios, i \in Ids, e \in Equipos, b \in BOOLEAN : CambiarEquipo(quien, i, e, b)

Next ==
    \/ Crear \/ Cancelar \/ CancelarSerie \/ Bloquear \/ Levantar \/ FinalizarLote \/ Liberar
    \/ Sacar \/ Condicion \/ QuedarSinDocente \/ CambiarJornada \/ Cambiar \/ PasaElTiempo

Spec == Init /\ [][Next]_vars

\* The clock runs, and the ticker of cmd/main.go runs FinalizarVencidas every five minutes.
SpecJusta == Spec /\ WF_vars(PasaElTiempo) /\ WF_vars(FinalizarLote)

-----------------------------------------------------------------------------
(* Properties                                                                *)

\* Two reservations in force never hold the same device at overlapping times, whatever
\* sequence of displacements, changes of device and blocks led there (no_solapamiento).
NoSolapamiento == SinSolapes(reservas, grupos)

\* The stored state of a group is at every commit the aggregation of its reservations:
\* no operation writes a reservation and leaves its group behind (recalcularGrupo).
GrupoCoherente ==
    \A g \in Grupos :
        grupos[g] # Nada /\ grupos[g].tipo = "NORMAL" =>
            /\ EstadosDelGrupo(reservas, g) # {}
            /\ grupos[g].estado = EstadoDeGrupo(EstadosDelGrupo(reservas, g), grupos[g].estado)

\* A reservation row always has its group or its block operation (foreign keys).
Referencias == \A i \in Ids : reservas[i] # Nada => grupos[i[1]] # Nada

\* Nothing that has still to be used is promised on a device that left circulation: the
\* cascade, the validations of every operation that assigns a device and the coordination
\* between them leave no gap (RF-03.8, RF-03.9).
SinPromesasFueraDeCirculacion ==
    \A i \in Ids :
        Confirmada(i) /\ equipos[reservas[i].equipo] = "fuera" => YaTermino(FranjaDe(i), ahora)

\* A reservation leaves CONFIRMADA only once, and what is closed is never written again:
\* neither reopened nor moved to another device.
CierreDefinitivo ==
    [][\A i \in Ids : reservas[i] # Nada /\ reservas[i].estado # "CONFIRMADA"
                        => reservas'[i] = reservas[i]]_vars

\* Every change of a group's state is a transition its state machine allows, so the
\* CambiarEstado inside recalcularGrupo never makes a cancellation fail.
TransicionesDeGrupo ==
    [][\A g \in Grupos :
          /\ grupos[g] # Nada /\ grupos[g].tipo = "NORMAL"
          /\ grupos'[g] # grupos[g]
          => GrupoPuedeTransicionar(grupos[g].estado, grupos'[g].estado)]_vars

\* What nobody may take stays where it is: a block, and a class that starts within the
\* hour, are never moved or cancelled by the step that creates somebody else's class.
LoIntocableNoSeDesplaza ==
    [][\A g \in Grupos :
          grupos[g] = Nada /\ grupos'[g] # Nada /\ grupos'[g].tipo = "NORMAL"
          => \A i \in Ids : /\ Confirmada(i)
                            /\ \/ EsBloqueo(i)
                               \/ ~SePuedeRobarPorHorario(FranjaDe(i), ahora - Retraso)
                            => reservas'[i] = reservas[i]]_vars

\* Every reservation is closed in the end, blocks included, however small the batch: what
\* nobody cancels or releases, FinalizarVencidas finishes.
TodaReservaSeCierra == \A i \in Ids : Confirmada(i) ~> ~Confirmada(i)
=============================================================================
