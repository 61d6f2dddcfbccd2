------------------------------ MODULE Custodia ------------------------------
(* Where the devices are: the loans the desk registers, the five-minute      *)
(* sweep of the Vigilante (reminder, release, closing notice) and the notice *)
(* in the bell, on top of the reservations of module Reservas.               *)
(*                                                                           *)
(* Handing out, receiving and sweeping are two steps each: what the          *)
(* transaction reads under the institutional lock, and its commit. Between   *)
(* the two runs whatever that lock does not keep out.                        *)
EXTENDS Reservas, Sequences

CONSTANTS
    Procesos,        \* the desks and the tickers
    Prestamos,       \* ids of prestamo rows
    Editables,       \* bound: devices whose inventory record changes
    Plazos,          \* return times a loan without reservation may agree, or Nada
    Gracia,          \* GraciaDeRetiro
    Anticipo,        \* AntelacionRecordatorio
    GraciaCierre,    \* wait from the closing of the school to the notice
    Jornada,         \* instants of a day
    Cierres,         \* the days the school opens, each with the instant it closes
    Atencion,        \* instants at which an admin attends the desk
    DiasAtendidos    \* days on which some admin attends it

Prestamo == [equipo : Equipos, reserva : Ids \cup {Nada}, entregadoEn : Nat,
             vence : Nat \cup {Nada}, devuelto : BOOLEAN, avisado : Nat \cup {Nada}]

\* What a transaction holds between its reading and its commit.
Transaccion == [op : {"entregar", "recibir", "barrer"}, reloj : Nat,
                grupos : SUBSET Grupos, salen : SUBSET Ids, resto : SUBSET Ids,
                prestamos : SUBSET Prestamos, quedan : BOOLEAN, lista : SUBSET Ids]

Eventos == {"sin-devolver", "quedan", "volvieron"}

ASSUME CustodiaAssumption ==
    /\ Editables \subseteq Equipos
    /\ Plazos \subseteq Nat \cup {Nada}
    /\ Gracia \in Nat /\ Anticipo \in Nat /\ GraciaCierre \in Nat /\ Jornada \in Nat \ {0}
    /\ \A c \in Cierres : c = [dia |-> c.dia, fin |-> c.fin] /\ c.dia \in Nat /\ c.fin \in Nat
    /\ Atencion \subseteq Nat /\ DiasAtendidos \subseteq Nat
    /\ Nada \notin Nat /\ Nada \notin Prestamo /\ Nada \notin Transaccion

VARIABLES
    prestamos,    \* table prestamo
    deBaja,       \* devices discharged from the inventory
    recordados,   \* groups with recordatorio_enviado_en
    abierta,      \* the open transaction of each process
    eventos,      \* committed events of the closing notice, not delivered yet
    campana       \* the closing notice in the bell of an admin

custodia == <<prestamos, deBaja, recordados, abierta, eventos, campana>>
varsCu == <<vars, custodia>>

TypeOKCu ==
    /\ TypeOK
    /\ prestamos \in [Prestamos -> Prestamo \cup {Nada}]
    /\ deBaja \subseteq Equipos /\ recordados \subseteq Grupos
    /\ abierta \in [Procesos -> Transaccion \cup {Nada}]
    /\ eventos \in Seq(Eventos)
    /\ campana \in {"ninguna", "sin_leer", "leida", "cerrada"}
    /\ \A e \in deBaja : equipos[e] = "fuera"
    /\ \A p, q \in Prestamos :       \* ux_prestamo_abierto
          /\ p # q /\ prestamos[p] # Nada /\ prestamos[q] # Nada
          /\ ~prestamos[p].devuelto /\ ~prestamos[q].devuelto
          => prestamos[p].equipo # prestamos[q].equipo

InitCu ==
    /\ Init
    /\ prestamos = [p \in Prestamos |-> Nada]
    /\ deBaja = {} /\ recordados = {} /\ eventos = << >> /\ campana = "ninguna"
    /\ abierta = [p \in Procesos |-> Nada]

-----------------------------------------------------------------------------
(* Reading the tables                                                        *)

Abierto(p) == prestamos[p] # Nada /\ ~prestamos[p].devuelto

Afuera == {prestamos[p].equipo : p \in {q \in Prestamos : Abierto(q)}}

SinRegistrar == {p \in Prestamos : prestamos[p] = Nada}

\* Mutant: a loan that came back is not a hand-out any more.
TieneEntrega(i) == \E p \in Prestamos : Abierto(p) /\ prestamos[p].reserva = i

\* ReservasConPrestamos: also those that were already returned.
TuvoEntrega(i) == \E p \in Prestamos : prestamos[p] # Nada /\ prestamos[p].reserva = i

\* ContarAvisadosSinDevolver, inside the transaction that returns P.
AvisadosSinDevolver(P) == {p \in Prestamos \ P : Abierto(p) /\ prestamos[p].avisado # Nada}

\* reservaQueImpideAnticiparEntrega: a loan starts when it is handed out, so an early one
\* must not run over another reservation of the device.
ImpideAnticipar(i, t) ==
    /\ t < FranjaDe(i).ini
    /\ \E j \in NoTerminadas(t) \ {i} : /\ reservas[j].equipo = reservas[i].equipo
                                        /\ FranjaDe(j).ini < FranjaDe(i).fin

-----------------------------------------------------------------------------
(* Coordination: the institutional lock and the rows locked under it         *)

\* Mutant: handing out is coordinated like any other write to the calendar.
ModoSinEstabilizar == [entregar |-> "compartido", recibir |-> "exclusivo", barrer |-> "exclusivo"]

\* Mutant: receiving is too.
ModoDeDevolucion == [entregar |-> "exclusivo", recibir |-> "compartido", barrer |-> "exclusivo"]

\* Coordinar(ctx, true, ...) in the three of them.
Modo == [entregar |-> "exclusivo", recibir |-> "exclusivo", barrer |-> "exclusivo"]

EnCurso == {abierta[p] : p \in {q \in Procesos : abierta[q] # Nada}}

PuedeCoordinar(m) ==
    CASE m = "ninguno"    -> TRUE
      [] m = "compartido" -> \A a \in EnCurso : Modo[a.op] = "compartido"
      [] m = "exclusivo"  -> EnCurso = {}

\* BuscarReservasParaEntregar locks the groups of the batch, BuscarPrestamosParaActualizar
\* the loans: nobody else writes those rows until the commit.
GruposTomados == UNION {a.grupos : a \in EnCurso}

PrestamosTomados == UNION {a.prestamos : a \in EnCurso}

\* An operation of Reservas in its mode: it leaves the locked rows alone.
Coordinada(m) ==
    /\ PuedeCoordinar(m)
    /\ \A i \in Ids : reservas[i] # Nada /\ i[1] \in GruposTomados => reservas'[i] = reservas[i]

SinDatos(op, t) == [op |-> op, reloj |-> t, grupos |-> {}, salen |-> {}, resto |-> {},
                    prestamos |-> {}, quedan |-> FALSE, lista |-> {}]

Abrir(p, a) ==
    /\ abierta[p] = Nada
    /\ PuedeCoordinar(Modo[a.op])
    /\ abierta' = [abierta EXCEPT ![p] = a]
    /\ UNCHANGED <<vars, prestamos, deBaja, recordados, eventos, campana>>

En(p, op) == abierta[p] # Nada /\ abierta[p].op = op

Cerrada(p) == abierta' = [abierta EXCEPT ![p] = Nada]

-----------------------------------------------------------------------------
(* Handing out                                                               *)

\* registrarEntrega with CrearPrestamo: the devices of filas, each with what its loan says.
Salen(filas, t) ==
    \E P \in SUBSET SinRegistrar : \E quien \in Bijection(P, filas) :
        prestamos' = [p \in Prestamos |->
            IF p \in P
            THEN [equipo |-> quien[p].equipo, reserva |-> quien[p].reserva, entregadoEn |-> t,
                  vence |-> quien[p].vence, devuelto |-> FALSE, avisado |-> Nada]
            ELSE prestamos[p]]

\* CondicionParaEntregar, and the index that allows one open loan per device.
PuedeSalir(e) == equipos[e] # "fuera" /\ e \notin Afuera

Entregables(lote, conNombre, t) ==
    {i \in lote : /\ PuedeEntregarseEn(FranjaDe(i), reservas[i].estado, t)
                  /\ ~ImpideAnticipar(i, t)
                  /\ EsBloqueo(i) => conNombre
                  /\ PuedeSalir(reservas[i].equipo)}

\* One reservation per device: the second of a batch finds the loan of the first.
SinRepetirEquipo(S) ==
    {E \in SUBSET S : /\ \A i \in S : \E j \in E : reservas[j].equipo = reservas[i].equipo
                      /\ \A i, j \in E : reservas[i].equipo = reservas[j].equipo => i = j}

\* Mutant: who took a part and brought it back loses the rest as well as what they used.
ElRestoSinEntregas(S, t) ==
    {j \in Ids : /\ \E i \in S : ~EsBloqueo(i) /\ j[1] = i[1]
                 /\ j \notin S /\ ~TieneEntrega(j)
                 /\ Confirmada(j) /\ ~ImpideAnticipar(j, t)}

\* liberarElResto: what is left, never handed out, of the groups with a hand-out in S.
ElResto(S, t) ==
    {j \in Ids : /\ \E i \in S : ~EsBloqueo(i) /\ j[1] = i[1]
                 /\ j \notin S /\ ~TuvoEntrega(j)
                 /\ Confirmada(j) /\ ~ImpideAnticipar(j, t)}

\* EntregarPorReserva: every reservation of lote that may go out does, the others are
\* reported; completa declares that nobody will come back for the rest of the group.
EmpezarEntrega(p, lote, conNombre, completa) ==
    \E t \in Relojes : \E S \in SinRepetirEquipo(Entregables(lote, conNombre, t)) :
        /\ S # {} /\ Cardinality(S) <= Cardinality(SinRegistrar)
        /\ Abrir(p, [SinDatos("entregar", t) EXCEPT
                        !.grupos = GruposDe(lote), !.salen = S,
                        !.resto = IF completa THEN ElResto(S, t) ELSE {}])

ConfirmarEntrega(p) ==
    /\ En(p, "entregar")
    /\ LET a == abierta[p]
           filas == {[equipo |-> reservas[i].equipo, reserva |-> i, vence |-> FranjaDe(i).fin] : i \in a.salen}
       IN /\ Salen(filas, a.reloj)
          /\ Cerrar(a.resto, "NO_RETIRADA")
    /\ Cerrada(p)
    /\ UNCHANGED <<deBaja, recordados, eventos, campana>>

\* EntregarSuelta: without a reservation. A device out of circulation only goes out to
\* repair, a discharged one never.
EntregarSuelta(E, aReparacion, plazo) ==
    /\ PuedeCoordinar("compartido")
    /\ LET S == {e \in E : IF aReparacion THEN e \notin deBaja /\ e \notin Afuera ELSE PuedeSalir(e)}
       IN /\ S # {}
          /\ \E t \in Relojes :
                Salen({[equipo |-> e, reserva |-> Nada, vence |-> plazo] : e \in S}, t)
    /\ UNCHANGED <<vars, deBaja, recordados, abierta, eventos, campana>>

-----------------------------------------------------------------------------
(* Receiving                                                                 *)

\* RecibirEquipos: marks the loans and counts, in the same transaction, how many of the
\* announced ones are still out.
EmpezarDevolucion(p, P) ==
    /\ P \cap PrestamosTomados = {}
    /\ \A q \in P : Abierto(q)
    /\ \E t \in Relojes :
          Abrir(p, [SinDatos("recibir", t) EXCEPT
                      !.prestamos = P, !.quedan = AvisadosSinDevolver(P) # {}])

ConfirmarDevolucion(p) ==
    /\ En(p, "recibir")
    /\ prestamos' = [q \in Prestamos |-> IF q \in abierta[p].prestamos
                                         THEN [prestamos[q] EXCEPT !.devuelto = TRUE] ELSE prestamos[q]]
    /\ eventos' = Append(eventos, IF abierta[p].quedan THEN "quedan" ELSE "volvieron")
    /\ Cerrada(p)
    /\ UNCHANGED <<vars, deBaja, recordados, campana>>

-----------------------------------------------------------------------------
(* The sweep                                                                 *)

DiaDe(t) == t - (t % Jornada)

\* ReservasAVigilar: the reservations in force from yesterday to tomorrow.
AVigilar(t) ==
    {i \in Ids : /\ Confirmada(i)
                 /\ FranjaDe(i).dia \in {DiaDe(t) - Jornada, DiaDe(t), DiaDe(t) + Jornada}}

\* recordar: the groups of the list that were not reminded yet.
ParaRecordar(lista, t) ==
    {g \in GruposDe(lista) \ recordados :
        grupos[g].tipo = "NORMAL" /\ CorrespondeRecordar(grupos[g].franja, Anticipo, t)}

\* Mutant: what is no longer in force by then is released as well.
ParaLiberarSinReleer(lista, t) ==
    {i \in lista : /\ t \in Atencion /\ ~EsBloqueo(i)
                   /\ CorrespondeLiberar(FranjaDe(i), Gracia, t)
                   /\ ~TuvoEntrega(i) /\ reservas[i].equipo \notin Afuera}

\* liberarNoRetiradas: each one is read again under its locks before it is released.
ParaLiberar(lista, t) ==
    {i \in lista : /\ t \in Atencion /\ ~EsBloqueo(i) /\ Confirmada(i)
                   /\ CorrespondeLiberar(FranjaDe(i), Gracia, t)
                   /\ ~TuvoEntrega(i) /\ reservas[i].equipo \notin Afuera}

\* Mutant: yesterday's closing is not looked at.
CortesDeHoy(t) ==
    {c \in Cierres : c.dia = DiaDe(t) /\ c.fin + GraciaCierre <= t /\ t - c.fin < Jornada}

\* momentoYFechaDelCorte: today's closing or else yesterday's, once the wait is over and
\* until a day has passed.
Cortes(t) ==
    LET Pasado(dia) == {c \in Cierres : c.dia = dia /\ c.fin + GraciaCierre <= t /\ t - c.fin < Jornada}
    IN IF Pasado(DiaDe(t)) # {} THEN Pasado(DiaDe(t)) ELSE Pasado(DiaDe(t) - Jornada)

EntraEnElCorte(p, cierre, t) ==
    /\ Abierto(p)
    /\ prestamos[p].avisado = Nada
    /\ prestamos[p].entregadoEn <= cierre
    /\ prestamos[p].vence = Nada \/ prestamos[p].vence <= t

\* cortarLaJornada: only if somebody attended the desk the day that closed.
ParaAvisar(t) ==
    {p \in Prestamos : \E c \in Cortes(t) : c.dia \in DiasAtendidos /\ EntraEnElCorte(p, c.fin, t)}

EmpezarBarrido(p) ==
    \E t \in Relojes : Abrir(p, [SinDatos("barrer", t) EXCEPT !.lista = AVigilar(t)])

ConfirmarBarrido(p) ==
    /\ En(p, "barrer")
    /\ LET t == abierta[p].reloj
           avisar == ParaAvisar(t)
       IN /\ recordados' = recordados \cup ParaRecordar(abierta[p].lista, t)
          /\ Cerrar(ParaLiberar(abierta[p].lista, t), "NO_RETIRADA")
          /\ prestamos' = [q \in Prestamos |-> IF q \in avisar THEN [prestamos[q] EXCEPT !.avisado = t]
                                                               ELSE prestamos[q]]
          /\ eventos' = IF avisar = {} THEN eventos ELSE Append(eventos, "sin-devolver")
    /\ Cerrada(p)
    /\ UNCHANGED <<deBaja, campana>>

-----------------------------------------------------------------------------
(* The bell: the outbox delivers the events in the order of their ids        *)

EntregarAviso ==
    /\ eventos # << >>
    /\ campana' = CASE Head(eventos) = "sin-devolver" -> "sin_leer"
                    [] Head(eventos) = "quedan"       -> campana
                    [] Head(eventos) = "volvieron"    -> IF campana = "sin_leer" THEN "cerrada" ELSE campana
    /\ eventos' = Tail(eventos)
    /\ UNCHANGED <<vars, prestamos, deBaja, recordados, abierta>>

LeerAviso ==
    /\ campana = "sin_leer"
    /\ campana' = "leida"
    /\ UNCHANGED <<vars, prestamos, deBaja, recordados, abierta, eventos>>

-----------------------------------------------------------------------------
(* The operations of Reservas and of the inventory, as the loans see them    *)

\* Mutant: what was handed out is displaced like anything else.
DesplazaLoEntregado == TRUE

\* ReservasRobablesPor leaves out every reservation that was ever handed out.
NoDesplazaLoEntregado ==
    \A i \in Ids : TuvoEntrega(i) => reservas'[i] = reservas[i]

CrearCu ==
    \E quien \in Usuarios, m \in Materias, F \in Series, E \in (SUBSET Equipos) \ {{}} :
    \E T \in SUBSET E :
        /\ CrearReserva(quien, m, F, E, T)
        /\ NoDesplazaLoEntregado
        /\ Coordinada(IF T = {} THEN "compartido" ELSE "exclusivo")
        /\ UNCHANGED custodia

\* ErrReservaConEntrega, for the reservation and for the rest of its series.
CambiarCu ==
    \E quien \in Usuarios, i \in Ids, e \in Equipos, soloEsta \in BOOLEAN :
        /\ CambiarEquipo(quien, i, e, soloEsta)
        /\ \A j \in IF soloEsta THEN {i} ELSE SerieDesde(i) \cup {i} : ~TuvoEntrega(j)
        /\ Coordinada("compartido")
        /\ UNCHANGED custodia

BloquearCu == (Bloquear \/ Levantar) /\ Coordinada("compartido") /\ UNCHANGED custodia

CancelarCu == (Cancelar \/ CancelarSerie) /\ Coordinada("ninguno") /\ UNCHANGED custodia

FinalizarCu == FinalizarLote /\ Coordinada("ninguno") /\ UNCHANGED custodia

CascadaCu == (QuedarSinDocente \/ CambiarJornada) /\ Coordinada("exclusivo") /\ UNCHANGED custodia

\* CambiarEstadoEquipo, also of a device that is out, and the reservable flag.
InventarioCu ==
    /\ \E e \in Editables : \/ SacarDeCirculacion(e)
                            \/ e \notin deBaja /\ \E c \in Condiciones : CambiarCondicion(e, c)
    /\ Coordinada("exclusivo")
    /\ UNCHANGED custodia

\* EstaPrestado, asked only when the device is being discharged now.
PuedeDarseDeBaja(e) == e \in deBaja \/ e \notin Afuera

\* DarDeBajaEquipo: the cascade of SacarDeCirculacion, even when it was already out of
\* circulation and has nothing left to cancel.
DarDeBaja(e) ==
    /\ PuedeDarseDeBaja(e)
    /\ Coordinada("exclusivo")
    /\ \/ SacarDeCirculacion(e)
       \/ /\ equipos[e] = "fuera" /\ e \notin deBaja
          /\ \E t \in Relojes : \A i \in NoTerminadas(t) : reservas[i].equipo # e
          /\ UNCHANGED vars
    /\ deBaja' = deBaja \cup {e}
    /\ UNCHANGED <<prestamos, recordados, abierta, eventos, campana>>

\* ReactivarEquipo: with the state it had, which the discharge did not touch.
Reactivar(e) ==
    /\ e \in deBaja
    /\ UNCHANGED vars \/ \E c \in Condiciones : CambiarCondicion(e, c)
    /\ Coordinada("exclusivo")
    /\ deBaja' = deBaja \ {e}
    /\ UNCHANGED <<prestamos, recordados, abierta, eventos, campana>>

\* Reading the clock, waiting and committing take at most Retraso.
PasaElTiempoCu ==
    /\ \A a \in EnCurso : ahora - a.reloj < Retraso
    /\ PasaElTiempo
    /\ UNCHANGED custodia

Entregar == \E p \in Procesos, lote \in (SUBSET {i \in Ids : reservas[i] # Nada}) \ {{}},
               conNombre, completa \in BOOLEAN : EmpezarEntrega(p, lote, conNombre, completa)
Entregada == \E p \in Procesos : ConfirmarEntrega(p)
Soltar == \E E \in (SUBSET Equipos) \ {{}}, r \in BOOLEAN, plazo \in Plazos : EntregarSuelta(E, r, plazo)
Recibir == \E p \in Procesos, P \in (SUBSET Prestamos) \ {{}} : EmpezarDevolucion(p, P)
Recibida == \E p \in Procesos : ConfirmarDevolucion(p)
Barrer == \E p \in Procesos : EmpezarBarrido(p)
Barrido == \E p \in Procesos : ConfirmarBarrido(p)
Baja == \E e \in Editables : DarDeBaja(e)
Alta == \E e \in Editables : Reactivar(e)

NextCu ==
    \/ Entregar \/ Entregada \/ Soltar \/ Recibir \/ Recibida \/ Barrer \/ Barrido
    \/ EntregarAviso \/ LeerAviso \/ Baja \/ Alta
    \/ CrearCu \/ CambiarCu \/ BloquearCu \/ CancelarCu \/ FinalizarCu \/ CascadaCu
    \/ InventarioCu \/ PasaElTiempoCu

SpecCu == InitCu /\ [][NextCu]_varsCu

-----------------------------------------------------------------------------
(* Properties                                                                *)

\* Some loan, open or returned, was registered against reservation i.
FueEntregada(i) == \E p \in Prestamos : prestamos[p] # Nada /\ prestamos[p].reserva = i

AvisadoSigueAfuera == \E p \in Prestamos : Abierto(p) /\ prestamos[p].avisado # Nada

EntregadaConservaSuEquipo ==
    \A p \in Prestamos :
        Abierto(p) /\ prestamos[p].reserva # Nada
        => prestamos[p].equipo = reservas[prestamos[p].reserva].equipo

NadaAfueraDadoDeBaja == Afuera \cap deBaja = {}

\* Whoever looks for a device finds the one the reservation names: as long as a loan is
\* open, neither a change of device nor a displacement moves the reservation it was
\* handed out against (RF-08.14, migration 030), and the device is not discharged from
\* the inventory: it has to be received first (RF-03.20).
LoEntregadoEnSuLugar == EntregadaConservaSuEquipo /\ NadaAfueraDadoDeBaja

\* The bell tells the truth when nothing is on its way: an unread closing notice means
\* that an announced device is still out, and none or a closed one that all came back
\* (RF-08.13, RF-05.14).
CampanaVeraz ==
    eventos = << >> =>
        /\ campana = "sin_leer" => AvisadoSigueAfuera
        /\ campana \in {"ninguna", "cerrada"} => ~AvisadoSigueAfuera

\* NO_RETIRADA says nobody came: it is never written over a reservation that was handed
\* out, even if the device is back, and the sweep only writes it on a class whose teacher
\* was reminded (RF-08.10, RF-08.10.1, RF-08.11).
LiberacionJustificada ==
    [][\A i \in Ids :
          /\ Confirmada(i)
          /\ reservas'[i].estado = "NO_RETIRADA"
          => /\ ~FueEntregada(i)
             /\ prestamos' = prestamos => i[1] \in recordados']_varsCu

\* A device never leaves early over the head of somebody else: when it goes out before
\* its class, no other reservation in force stands between that moment and the end of the
\* class (RF-08.4.1).
AdelantoSinPisar ==
    [][\A p \in Prestamos :
          /\ prestamos[p] = Nada /\ prestamos'[p] # Nada
          /\ prestamos'[p].reserva # Nada
          => LET i == prestamos'[p].reserva IN
               ahora < FranjaDe(i).ini =>
                  \A j \in Ids \ {i} :
                      /\ Confirmada(j) /\ reservas[j].equipo = prestamos'[p].equipo
                      /\ FranjaDe(j).ini < FranjaDe(i).fin
                      => YaTermino(FranjaDe(j), ahora)]_varsCu

\* Every step of the desk, of the sweep and of the inventory is one of Reservas, or
\* changes nothing there: what Reservas promises holds with loans as well.
PasoDeReservas == UNCHANGED vars \/ Next
=============================================================================
