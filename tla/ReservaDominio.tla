--------------------------- MODULE ReservaDominio ---------------------------
(* The pure rules of internal/reservation/domain: the state machines of a    *)
(* reservation and of its group, the aggregation of a group's state, the     *)
(* comparisons of a time slot with the clock, and the ranking that lets one  *)
(* subject displace another from a device.                                   *)
(*                                                                           *)
(* A franja (fecha, hora_inicio, hora_fin) is a record of instants of school *)
(* time: dia is the midnight that opens its date, ini and fin are the wall   *)
(* instants InicioDePared and FinDePared, so that a class that crosses       *)
(* midnight simply has fin beyond the next dia.                              *)
EXTENDS Integers, FiniteSets

CONSTANTS
    Equipos,       \* devices of the inventory
    Materias,      \* subjects of the active school year
    Usuarios,      \* approved accounts
    Admins,        \* those whose token carries the ADMIN role
    Asignados,     \* [Materias -> SUBSET Usuarios]: teachers of each subject
    Prioridad,     \* [Materias -> [Equipos -> Nat]]: own mark, 0 when there is none
    Franjas,       \* the time slots that may be asked for
    Antelacion     \* AntelacionMinimaParaRobar, in instants

ASSUME DominioAssumption ==
    /\ Admins \subseteq Usuarios
    /\ Asignados \in [Materias -> SUBSET Usuarios]
    /\ Prioridad \in [Materias -> [Equipos -> Nat]]
    /\ \A f \in Franjas : /\ f = [dia |-> f.dia, ini |-> f.ini, fin |-> f.fin]
                          /\ f.dia \in Nat /\ f.ini \in Nat /\ f.fin \in Nat
                          /\ f.dia <= f.ini /\ f.ini < f.fin
    /\ Antelacion \in Nat

-----------------------------------------------------------------------------
(* State machines                                                            *)

EstadosReserva == {"CONFIRMADA", "CANCELADA", "FINALIZADA", "NO_RETIRADA"}

ReservaTerminal == EstadosReserva \ {"CONFIRMADA"}

GrupoTerminal == {"CANCELADA", "FINALIZADA", "NO_RETIRADA"}

EstadosGrupo == {"CONFIRMADA", "PARCIALMENTE_CANCELADA"} \cup GrupoTerminal

GrupoPuedeTransicionar(e, nuevo) ==
    \/ e = "CONFIRMADA" /\ nuevo \in EstadosGrupo \ {"CONFIRMADA"}
    \/ e = "PARCIALMENTE_CANCELADA" /\ nuevo \in GrupoTerminal

\* The state of a group from the set of states its reservations are in.
EstadoDeGrupo(estados, actual) ==
    IF estados = {} THEN actual
    ELSE IF "CONFIRMADA" \in estados
         THEN IF "CANCELADA" \in estados THEN "PARCIALMENTE_CANCELADA" ELSE "CONFIRMADA"
    ELSE IF "FINALIZADA" \in estados THEN "FINALIZADA"
    ELSE IF "NO_RETIRADA" \in estados THEN "NO_RETIRADA"
    ELSE "CANCELADA"

-----------------------------------------------------------------------------
(* Slots and the clock                                                       *)

Solapan(f, g) == f.ini < g.fin /\ g.ini < f.fin

YaTermino(f, t) == f.fin <= t

YaEmpezo(f, t) == f.ini <= t

\* What FinalizarVencidas selects: strictly past, unlike YaTermino.
Vencida(f, t) == f.fin < t

SePuedeRobarPorHorario(f, t) == f.ini - t > Antelacion

CorrespondeRecordar(f, antelacion, t) == ~YaTermino(f, t) /\ t >= f.ini - antelacion

CorrespondeLiberar(f, gracia, t) == ~YaTermino(f, t) /\ t >= f.ini + gracia

PuedeEntregarseEn(f, estado, t) ==
    /\ estado \in {"CONFIRMADA", "NO_RETIRADA"}
    /\ f.dia <= t /\ t < f.fin

-----------------------------------------------------------------------------
(* Who may do what                                                           *)

PuedeCancelar(creadoPor, quien) == creadoPor = quien \/ quien \in Admins

PuedeVer(creadoPor, quien) == quien \in Admins \/ creadoPor = quien

PuedeReservar(materia, quien) == quien \in Admins \/ quien \in Asignados[materia]

\* ReservasRobablesPor: own mark, stronger (lower number) than the owner's; a tie does not rob.
Prefiere(mia, suya, equipo) ==
    /\ Prioridad[mia][equipo] # 0
    /\ Prioridad[suya][equipo] = 0 \/ Prioridad[mia][equipo] < Prioridad[suya][equipo]
=============================================================================
