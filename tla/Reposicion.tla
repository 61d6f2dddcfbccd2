----------------------------- MODULE Reposicion -----------------------------
(* reponerEnCascada: how the creation of a class finds another device for    *)
(* each class it displaces, who in turn may displace others. The plan is     *)
(* made in memory and written once, with the new class, in one transaction.  *)
(* Reservas only says what the plan promises; this module is the search, on  *)
(* tables that stand still: ReservasConcurrentes models what may move.       *)
EXTENDS Reservas, SequencesExt

CONSTANTS
    Afines,      \* [Equipos -> SUBSET Equipos]: the devices of the same kind as each
    Desempate,   \* [Equipos -> [Equipos -> Nat]]: the order of the rest, seen from a device
    OrdenIds,    \* [Ids -> Nat]: the order of the uuids
    Escenarios   \* [filas, equipos, pedido]: the tables a creation finds, and what it asks for

\* A class, or a weekly series of them, that somebody asks for: nuevos maps each new group
\* to its slot, on the devices E. The classes of a series are on different dates.
Pedido ==
    {p \in [nuevos : UNION {Bijection(G, F) : G \in SUBSET Grupos, F \in Series},
            regla : Grupos \cup {Nada}, quien : Usuarios, materia : Materias, E : SUBSET Equipos] :
        /\ p.regla \in ReglaDe(DOMAIN p.nuevos)
        /\ \A g, h \in DOMAIN p.nuevos : g # h => ~Solapan(p.nuevos[g], p.nuevos[h])}

\* Both orders end in the uuid, so neither has ties.
ASSUME ReposicionAssumption ==
    /\ IsFiniteSet(Grupos) /\ IsFiniteSet(Equipos)
    /\ Afines \in [Equipos -> SUBSET Equipos]
    /\ Desempate \in [Equipos -> [Equipos -> Nat]]
    /\ \A e \in Equipos : IsInjective(Desempate[e])
    /\ OrdenIds \in [Ids -> Nat] /\ IsInjective(OrdenIds)
    /\ \A s \in Escenarios : s.pedido \in Pedido

VARIABLES
    pedido,      \* the creation that displaces
    plan,        \* the displaced, in the order they were added
    cola,        \* those whose turn has still to come
    destino,     \* the device planned for each of the displaced, or Nada
    intentados,  \* the devices each one has been given so far
    repaso       \* how far the second pass went, 0 during the first

varsR == <<reservas, grupos, equipos, ahora, pedido, plan, cola, destino, intentados, repaso>>

Vistos == Range(plan)

NuevosGrupos == DOMAIN pedido.nuevos

FranjasPedidas == Range(pedido.nuevos)

\* Those the request itself displaces.
Iniciales == Solapamientos(pedido.E, FranjasPedidas)

Planificado == repaso = Len(plan) + 1

TypeOKR ==
    /\ TypeOK
    /\ pedido \in Pedido
    /\ plan \in Seq(Ids) /\ IsInjective(plan)
    /\ cola \in Seq(Vistos) /\ IsInjective(cola)
    /\ destino \in [Vistos -> Equipos \cup {Nada}]
    /\ \A i \in Range(cola) : destino[i] = Nada
    /\ intentados \in [Vistos -> SUBSET Equipos]
    /\ repaso \in 0..Len(plan) + 2

-----------------------------------------------------------------------------
(* Candidates                                                                *)

MateriaDe(i) == grupos[i[1]].materia

TieneMarca(m) == \E e \in Equipos : Prioridad[m][e] # 0

\* OpcionesDeReposicion: its marked devices if it has any, else those of the same kind.
Opciones(i) ==
    {e \in Reservables :
        IF TieneMarca(MateriaDe(i)) THEN Prioridad[MateriaDe(i)][e] # 0
        ELSE e \in Afines[reservas[i].equipo]}

\* 0: its own mark; 1: nobody's; 2: the mark of another subject.
Tramo(m, e) ==
    IF Prioridad[m][e] # 0 THEN 0
    ELSE IF \E n \in Materias : Prioridad[n][e] # 0 THEN 2 ELSE 1

\* The first of D in the order of OpcionesDeReposicion.
Primero(i, D) ==
    LET m == MateriaDe(i)
        orden == Desempate[reservas[i].equipo]
    IN CHOOSE d \in D : \A e \in D \ {d} :
          \/ Tramo(m, d) < Tramo(m, e)
          \/ /\ Tramo(m, d) = Tramo(m, e)
             /\ \/ Prioridad[m][d] < Prioridad[m][e]
                \/ Prioridad[m][d] = Prioridad[m][e] /\ orden[d] < orden[e]

\* solapaConPedidoGanador on a device of the request.
Protegido(i, e) == e \in pedido.E /\ \E f \in FranjasPedidas : Solapan(FranjaDe(i), f)

\* Who holds e in the tables at the time of i, and is not in the plan.
EnMedio(i, e) == Solapamientos({e}, {FranjaDe(i)}) \ Vistos

\* ocupantesDelPlan: who was given e in the plan at the time of i.
Ocupantes(i, e) == {j \in Vistos : destino[j] = e /\ Solapan(FranjaDe(j), FranjaDe(i))}

\* Mutant: a tie displaces.
PuedeCorrerConEmpate(i, j, e) ==
    /\ Prioridad[MateriaDe(i)][e] # 0
    /\ \/ Prioridad[MateriaDe(j)][e] = 0
       \/ Prioridad[MateriaDe(i)][e] <= Prioridad[MateriaDe(j)][e]
    /\ SePuedeRobarPorHorario(FranjaDe(j), ahora)

\* The conditions under which ocupantesDelPlan lets i displace j from e.
PuedeCorrer(i, j, e) ==
    /\ Prefiere(MateriaDe(i), MateriaDe(j), e)
    /\ SePuedeRobarPorHorario(FranjaDe(j), ahora)

Libre(i, e) == ~Protegido(i, e) /\ EnMedio(i, e) = {} /\ Ocupantes(i, e) = {}

\* Mutant: the hour of notice is only required of the first ones displaced.
TomableSinAviso(i, e) ==
    /\ ~Protegido(i, e)
    /\ Prioridad[MateriaDe(i)][e] # 0
    /\ \A j \in Ocupantes(i, e) : PuedeCorrer(i, j, e)
    /\ \A j \in EnMedio(i, e) : SePuedeRobarSinAviso(MateriaDe(i), j, ahora)

\* A device i may take from everybody who stands on it.
Tomable(i, e) ==
    /\ ~Protegido(i, e)
    /\ Prioridad[MateriaDe(i)][e] # 0
    /\ \A j \in Ocupantes(i, e) : PuedeCorrer(i, j, e)
    /\ \A j \in EnMedio(i, e) : SePuedeRobar(MateriaDe(i), j, ahora)

-----------------------------------------------------------------------------
(* The search                                                                *)

VaAntes(i, j) ==
    \/ FranjaDe(i).ini < FranjaDe(j).ini
    \/ FranjaDe(i).ini = FranjaDe(j).ini /\ OrdenIds[i] < OrdenIds[j]

\* ordenarReservasParaReposicion.
EnOrden(S) ==
    CHOOSE s \in SetToSeqs(S) : \A j, k \in DOMAIN s : j < k => VaAntes(s[j], s[k])

Puesto(i) == CHOOSE k \in DOMAIN plan : plan[k] = i

\* The order in which ocupantesDelPlan finds those of S.
EnElPlan(S) ==
    CHOOSE s \in SetToSeqs(S) : \A j, k \in DOMAIN s : j < k => Puesto(s[j]) < Puesto(s[k])

\* i takes e, and whoever stood there waits for a turn of its own.
Asignar(i, e) ==
    LET corridas == Ocupantes(i, e)
        desplazadas == EnOrden(EnMedio(i, e))
        nuevos == Range(desplazadas)
    IN /\ plan' = plan \o desplazadas
       /\ cola' = Tail(cola) \o EnElPlan(corridas) \o desplazadas
       /\ destino' = [j \in Vistos \cup nuevos |->
                        IF j = i THEN e ELSE IF j \in corridas \cup nuevos THEN Nada ELSE destino[j]]
       /\ intentados' = [j \in Vistos \cup nuevos |->
                           IF j = i THEN intentados[i] \cup {e}
                           ELSE IF j \in nuevos THEN {} ELSE intentados[j]]

\* Mutant: who finds nothing goes back to the end of the queue.
DejarParaDespues(i) ==
    /\ cola' = Append(Tail(cola), i)
    /\ UNCHANGED <<plan, destino, intentados>>

\* i is left without a device, at least until the second pass.
QuedarSinEquipo(i) ==
    /\ cola' = Tail(cola)
    /\ UNCHANGED <<plan, destino, intentados>>

\* One turn of the queue: a free device before any other, and each device only once.
Turno ==
    /\ repaso = 0 /\ cola # << >>
    /\ LET i == Head(cola)
           quedan == Opciones(i) \ intentados[i]
           libres == {e \in quedan : Libre(i, e)}
           tomables == {e \in quedan : Tomable(i, e)}
       IN IF libres # {} THEN Asignar(i, Primero(i, libres))
          ELSE IF tomables # {} THEN Asignar(i, Primero(i, tomables))
          ELSE QuedarSinEquipo(i)
    /\ UNCHANGED <<vars, pedido, repaso>>

FinDeCola ==
    /\ repaso = 0 /\ cola = << >>
    /\ repaso' = 1
    /\ UNCHANGED <<vars, pedido, plan, cola, destino, intentados>>

\* Mutant: the second pass skips what was tried in the first.
FaltanteSinRepetir(i) == {e \in Opciones(i) \ intentados[i] : Libre(i, e)}

\* What the second pass offers to i: a free device, tried or not.
Faltante(i) == {e \in Opciones(i) : Libre(i, e)}

Repasar ==
    /\ repaso \in 1..Len(plan)
    /\ LET i == plan[repaso]
       IN destino' = IF destino[i] = Nada /\ Faltante(i) # {}
                     THEN [destino EXCEPT ![i] = Primero(i, Faltante(i))] ELSE destino
    /\ repaso' = repaso + 1
    /\ UNCHANGED <<vars, pedido, plan, cola, intentados>>

GruposConLosNuevos ==
    ConClases(grupos, pedido.nuevos, pedido.materia, pedido.quien, pedido.regla)

TablaFinal == ConFilas(AplicarPlan(reservas, destino), NuevosGrupos, pedido.E)

\* GuardarReposiciones, recalcularGrupo for those with a cancelled one, and the new class.
Escribir ==
    /\ Planificado
    /\ reservas' = TablaFinal
    /\ grupos' = Recalculados(GruposConLosNuevos, AplicarPlan(reservas, destino),
                              GruposDe(Canceladas(destino)))
    /\ repaso' = repaso + 1
    /\ UNCHANGED <<equipos, ahora, pedido, plan, cola, destino, intentados>>

\* Tables with classes and blocks in force, and a request that may displace all it meets.
InitR ==
    /\ \E s \in Escenarios :
         /\ grupos = [g \in Grupos |-> IF g \in DOMAIN s.filas THEN s.filas[g].grupo ELSE Nada]
         /\ reservas = [i \in Ids |-> IF i[1] \in DOMAIN s.filas /\ i[2] \in s.filas[i[1]].equipos
                                      THEN [estado |-> "CONFIRMADA", equipo |-> i[2]] ELSE Nada]
         /\ equipos = s.equipos
         /\ pedido = s.pedido
    /\ ahora \in 0..Horizonte
    /\ TypeOK /\ Referencias
    /\ NoSolapamiento /\ GrupoCoherente /\ SinPromesasFueraDeCirculacion
    /\ PuedeReservar(pedido.materia, pedido.quien)
    /\ pedido.E \subseteq Reservables /\ NuevosGrupos \subseteq Libres
    /\ \A f \in FranjasPedidas : ~YaTermino(f, ahora)
    /\ Iniciales # {}
    /\ \A i \in Iniciales : SePuedeRobar(pedido.materia, i, ahora)
    /\ plan = EnOrden(Iniciales)
    /\ cola = plan
    /\ destino = [i \in Vistos |-> Nada]
    /\ intentados = [i \in Vistos |-> {}]
    /\ repaso = 0

NextR == Turno \/ FinDeCola \/ Repasar \/ Escribir

SpecR == InitR /\ [][NextR]_varsR

\* The loop has no exit but its end and the end of its request.
SpecRJusta == SpecR /\ WF_varsR(NextR)

-----------------------------------------------------------------------------
(* Properties                                                                *)

\* What is written is what Reservas lets CrearReserva write: nobody is displaced but by
\* somebody who may, nobody ends on a device that may not be booked, the groups of the
\* cancelled are recomputed and no_solapamiento has nothing to reject.
EsUnaCreacion ==
    [][UNCHANGED vars
       \/ CrearReserva(pedido.quien, pedido.materia, FranjasPedidas, pedido.E, pedido.E)]_vars

PlanSinChoques == Planificado => SinSolapes(TablaFinal, GruposConLosNuevos)

NadieSinEquipoHabiendoLibre ==
    Planificado => \A i \in Vistos : destino[i] = Nada => \A e \in Opciones(i) : ~Libre(i, e)

\* The plan never fails at the end: neither the new class nor the relocated ones meet
\* anybody on their device, however often they were displaced within the plan; and no
\* class is cancelled while a device that would be offered to it is free.
PlanCorrecto == PlanSinChoques /\ NadieSinEquipoHabiendoLibre

\* Whoever loses a device that the plan had given it loses it to one that overlaps it and
\* whose claim on that device is strictly stronger, with the notice of every displacement.
SoloCorreQuienPrefiere ==
    [][\A j \in Vistos :
          destino[j] # Nada /\ destino'[j] # destino[j] =>
            \E i \in Vistos : /\ destino'[i] = destino[j]
                              /\ Solapan(FranjaDe(i), FranjaDe(j))
                              /\ Prefiere(MateriaDe(i), MateriaDe(j), destino[j])
                              /\ SePuedeRobarPorHorario(FranjaDe(j), ahora)]_varsR

\* However many rounds of displacements it takes, the search ends and is written.
LaCascadaTermina == <>(repaso = Len(plan) + 2)
=============================================================================
