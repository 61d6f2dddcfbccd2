------------------------------- MODULE Licencias -------------------------------
(* The software licences of internal/inventory with the daily sweep that      *)
(* announces their expiry, and what becomes of the announcement: the events   *)
(* licencia.por-vencer and licencia.pendientes, queued by the transaction     *)
(* that publishes them and delivered in order, open and close the notices of  *)
(* the Admins.  A day is a number.                                            *)
EXTENDS Naturals, FiniteSets, SequencesExt

CONSTANTS
    Licencias,    \* identifiers of licencia_software
    Maquinas,     \* equipo
    Programas,    \* names of software, already in canonical form
    Encargados,   \* the approved Admins
    Duraciones,   \* values of dias_duracion
    Avisos,       \* values of dias_aviso
    UltimoDia,    \* bound of the calendar
    MaxCambios,   \* bound of the changes people make, and of the failed sweeps
    Nada

Licencia ==
    [equipo : Maquinas, nombre : Programas, duracion : Duraciones, aviso : Avisos,
     vence : Nat \cup {Nada}, previo : Nat \cup {Nada}, final : Nat \cup {Nada}]

ASSUME LicenciasAssumption ==
    /\ IsFiniteSet(Licencias)
    /\ Duraciones \subseteq Nat \ {0} /\ Avisos \subseteq Nat
    /\ UltimoDia \in Nat /\ MaxCambios \in Nat
    /\ Nada \notin Nat \cup Licencia

VARIABLES
    hoy,
    circulan,     \* machines that are not dado_de_baja
    licencias,
    barrido,      \* what the open transaction of the sweep has read
    porEntregar,  \* the events that were not delivered yet
    campana,      \* Admins with an unread LICENCIA_POR_VENCER
    emitidos,     \* history: the announcements of each licence
    cambios

varsL == <<hoy, circulan, licencias, barrido, porEntregar, campana, emitidos, cambios>>

Evento == [tipo : {"licencia.por-vencer", "licencia.pendientes"}, cuantas : Nat]

\* The two announcements sent for the expiry in force, those sent for another
\* one, and the days whose expiry was ever announced.
Historia == [previo : Nat, final : Nat, ajenos : Nat, dias : SUBSET Nat]
SinHistoria == [previo |-> 0, final |-> 0, ajenos |-> 0, dias |-> {}]

TypeOKL ==
    /\ hoy \in 0 .. UltimoDia
    /\ circulan \subseteq Maquinas
    /\ licencias \in [Licencias -> Licencia \cup {Nada}]
    /\ porEntregar \in Seq(Evento)
    /\ campana \subseteq Encargados
    /\ emitidos \in [Licencias -> Historia]
    /\ cambios \in 0 .. MaxCambios

InitL ==
    /\ hoy = 0 /\ circulan = Maquinas
    /\ licencias = [l \in Licencias |-> Nada]
    /\ barrido = Nada /\ porEntregar = <<>> /\ campana = {}
    /\ emitidos = [l \in Licencias |-> SinHistoria]
    /\ cambios = 0

-----------------------------------------------------------------------------
(* What the code reads                                                       *)

\* Mutant: the sweep does not take the coordination.
SinTurno == TRUE

\* Coordinar(exclusivo): the sweep that is running has the coordination.
Turno == barrido = Nada

Cargadas == {l \in Licencias : licencias[l] # Nada}

\* What the screen says of a licence.
Estado(r) ==
    CASE r.vence = Nada -> "SIN_FECHA"
      [] r.vence # Nada /\ r.vence <= hoy -> "VENCIDA"
      [] r.vence # Nada /\ r.vence > hoy /\ r.vence <= hoy + r.aviso -> "POR_VENCER"
      [] OTHER -> "VIGENTE"

\* fecha_vencimiento - dias_aviso <= hoy, as the queries say it
EnVentana(r) == r.vence # Nada /\ r.vence <= hoy + r.aviso

ContarPendientesDeRenovar(f) ==
    Cardinality({l \in Licencias : f[l] # Nada /\ EnVentana(f[l]) /\ f[l].equipo \in circulan})

\* Mutant: one announcement is enough.
SinAvisoPrevio ==
    {l \in Cargadas : /\ EnVentana(licencias[l]) /\ licencias[l].equipo \in circulan
                      /\ licencias[l].previo # licencias[l].vence}

ListarCandidatasAAviso ==
    {l \in Cargadas : /\ EnVentana(licencias[l]) /\ licencias[l].equipo \in circulan
                      /\ \/ licencias[l].previo # licencias[l].vence
                         \/ licencias[l].final # licencias[l].vence}

CorrespondeAvisoPrevio(r, d) == d < r.vence /\ r.vence <= d + r.aviso /\ r.previo # r.vence
CorrespondeAvisoDeVencimiento(r, d) == r.vence <= d /\ r.final # r.vence

\* Each announcement marks the expiry it was sent for; that of the day closes both.
Marcada(r, d) ==
    [r EXCEPT !.previo = r.vence,
              !.final = IF CorrespondeAvisoDeVencimiento(r, d) THEN r.vence ELSE @]

Pendientes(f) ==
    <<[tipo |-> "licencia.pendientes", cuantas |-> ContarPendientesDeRenovar(f)]>>

-----------------------------------------------------------------------------
(* The operations of the Admins                                              *)

\* The three ways to declare an expiry: the day it was renewed, the days that
\* are left, the date itself.
Declarables(duracion) ==
    {d + duracion : d \in {hoy} \cup (IF hoy > 0 THEN {hoy - 1} ELSE {})} \cup 0 .. UltimoDia

RenovadaEl(r, dia) == [r EXCEPT !.vence = dia + r.duracion]

NuevaLicencia(e, n, d, a, v) ==
    [equipo |-> e, nombre |-> n, duracion |-> d, aviso |-> a, vence |-> v,
     previo |-> Nada, final |-> Nada]

\* GuardarLicencia writes the whole row, the marks it read included.  filas are
\* the rows that are written.
GuardarLicencia(filas) ==
    /\ licencias' = [l \in Licencias |-> IF l \in DOMAIN filas THEN filas[l] ELSE licencias[l]]
    /\ emitidos' = [l \in Licencias |->
         IF l \in DOMAIN filas /\ filas[l].vence # licencias[l].vence
         THEN [emitidos[l] EXCEPT !.previo = 0, !.final = 0] ELSE emitidos[l]]

Cambia == Turno /\ cambios < MaxCambios /\ cambios' = cambios + 1

\* ON CONFLICT (equipo_id, clave_texto(nombre)) DO NOTHING
YaLaTiene(e, n) == \E l \in Cargadas : licencias[l].equipo = e /\ licencias[l].nombre = n

\* The machines that have it are reported apart.
CrearLicencias(equipos, n, d, a, v) ==
    /\ Cambia
    /\ LET nuevos == {e \in equipos : ~YaLaTiene(e, n)} IN
       \E alta \in [nuevos -> Licencias \ Cargadas] :
         /\ IsInjective(alta)
         /\ licencias' = [l \in Licencias |->
              IF l \in Range(alta) THEN NuevaLicencia(CHOOSE e \in nuevos : alta[e] = l, n, d, a, v)
              ELSE licencias[l]]
    /\ UNCHANGED <<hoy, circulan, barrido, porEntregar, campana, emitidos>>

\* An id that is not there is not in the answer either.
BuscarLicenciasPorIDs(ids) == [l \in ids \cap Cargadas |-> licencias[l]]

\* The whole batch, or nothing when an id is not there; those with no expiry
\* are reported apart.
RenovarLicencias(ids, dia) ==
    /\ Cambia
    /\ LET leidas == BuscarLicenciasPorIDs(ids) IN
       /\ DOMAIN leidas = ids
       /\ GuardarLicencia([l \in {i \in ids : leidas[i].vence # Nada} |->
                            RenovadaEl(leidas[l], dia)])
    /\ porEntregar' = porEntregar \o Pendientes(licencias')
    /\ UNCHANGED <<hoy, circulan, barrido, campana>>

\* Only the expiry and the days of notice move the window.
CambiaLaVentana(l, r, v) == v # Nada \/ r.aviso # licencias[l].aviso

\* v is Nada when no expiry is declared.
EditarLicencia(l, n, d, a, v) ==
    /\ Cambia /\ l \in Cargadas
    /\ n # licencias[l].nombre => ~YaLaTiene(licencias[l].equipo, n)
    /\ LET r == [licencias[l] EXCEPT !.nombre = n, !.duracion = d, !.aviso = a] IN
       /\ GuardarLicencia([x \in {l} |-> [r EXCEPT !.vence = IF v = Nada THEN @ ELSE v]])
       /\ porEntregar' = IF CambiaLaVentana(l, r, v)
                         THEN porEntregar \o Pendientes(licencias') ELSE porEntregar
    /\ UNCHANGED <<hoy, circulan, barrido, campana>>

BorrarLicencia(l) ==
    /\ Cambia /\ l \in Cargadas
    /\ licencias' = [licencias EXCEPT ![l] = Nada]
    /\ emitidos' = [emitidos EXCEPT ![l] = SinHistoria]
    /\ porEntregar' = porEntregar \o Pendientes(licencias')
    /\ UNCHANGED <<hoy, circulan, barrido, campana>>

\* DarDeBajaEquipo and ReactivarEquipo, as far as the licences look at them.
MoverCirculacion(e) ==
    /\ Cambia
    /\ circulan' = IF e \in circulan THEN circulan \ {e} ELSE circulan \cup {e}
    /\ UNCHANGED <<hoy, licencias, barrido, porEntregar, campana, emitidos>>

\* MarcarLeida, MarcarTodasLeidas
LeerAviso(u) ==
    /\ u \in campana /\ campana' = campana \ {u}
    /\ UNCHANGED <<hoy, circulan, licencias, barrido, porEntregar, emitidos, cambios>>

-----------------------------------------------------------------------------
(* The sweep                                                                 *)

\* The day and the rows are read once, before anything is written.  A sweep
\* with nothing to announce changes nothing.
Avisables ==
    {l \in ListarCandidatasAAviso : \/ CorrespondeAvisoPrevio(licencias[l], hoy)
                                    \/ CorrespondeAvisoDeVencimiento(licencias[l], hoy)}

EmpezarBarrido ==
    /\ Turno /\ Avisables # {}
    /\ barrido' = [dia |-> hoy, filas |-> [l \in Avisables |-> licencias[l]]]
    /\ UNCHANGED <<hoy, circulan, licencias, porEntregar, campana, emitidos, cambios>>

\* MarcarAvisosEnviados touches the two marks and nothing else.
MarcarAvisosEnviados(l) ==
    LET m == Marcada(barrido.filas[l], barrido.dia) IN
    [licencias[l] EXCEPT !.previo = m.previo, !.final = m.final]

Anotado(l) ==
    LET r == barrido.filas[l]
        vencida == CorrespondeAvisoDeVencimiento(r, barrido.dia)
        ajeno == licencias[l] = Nada \/ licencias[l].vence # r.vence IN
    [previo |-> emitidos[l].previo + (IF vencida \/ ajeno THEN 0 ELSE 1),
     final |-> emitidos[l].final + (IF vencida /\ ~ajeno THEN 1 ELSE 0),
     ajenos |-> emitidos[l].ajenos + (IF ajeno THEN 1 ELSE 0),
     dias |-> emitidos[l].dias \cup (IF vencida THEN {r.vence} ELSE {})]

\* One event with everything, and the marks; a row that is gone aborts both.
Barrer ==
    /\ barrido # Nada
    /\ LET filas == DOMAIN barrido.filas IN
       /\ filas \subseteq Cargadas
       /\ licencias' = [l \in Licencias |->
            IF l \in filas THEN MarcarAvisosEnviados(l) ELSE licencias[l]]
       /\ emitidos' = [l \in Licencias |-> IF l \in filas THEN Anotado(l) ELSE emitidos[l]]
       /\ porEntregar' = Append(porEntregar,
            [tipo |-> "licencia.por-vencer", cuantas |-> Cardinality(filas)])
    /\ barrido' = Nada
    /\ UNCHANGED <<hoy, circulan, campana, cambios>>

\* The process stops, or a query fails: nothing of the sweep remains.
AbortarBarrido ==
    /\ barrido # Nada /\ barrido' = Nada
    /\ cambios < MaxCambios /\ cambios' = cambios + 1
    /\ UNCHANGED <<hoy, circulan, licencias, porEntregar, campana, emitidos>>

-----------------------------------------------------------------------------
(* Delivery, in the order of the queue                                       *)

Siguiente == 1

NotificarATodosLosAdmins == Encargados

\* While there is work left the notice says the truth.
CerrarAvisosPendientesDe(n) == IF n = 0 THEN {} ELSE campana

Entregar ==
    /\ porEntregar # <<>>
    /\ LET e == porEntregar[Siguiente] IN
       campana' = IF e.tipo = "licencia.por-vencer" THEN NotificarATodosLosAdmins
                  ELSE CerrarAvisosPendientesDe(e.cuantas)
    /\ porEntregar' = RemoveAt(porEntregar, Siguiente)
    /\ UNCHANGED <<hoy, circulan, licencias, barrido, emitidos, cambios>>

NuevoDia ==
    /\ hoy < UltimoDia /\ hoy' = hoy + 1
    /\ UNCHANGED <<circulan, licencias, barrido, porEntregar, campana, emitidos, cambios>>

Altas == \E es \in SUBSET Maquinas \ {{}}, n \in Programas, d \in Duraciones, a \in Avisos :
           \E v \in Declarables(d) \cup {Nada} : CrearLicencias(es, n, d, a, v)
Renovaciones == \E ids \in SUBSET Licencias \ {{}}, dia \in 0 .. hoy : RenovarLicencias(ids, dia)
Ediciones == \E l \in Licencias, n \in Programas, d \in Duraciones, a \in Avisos :
               \E v \in Declarables(d) \cup {Nada} : EditarLicencia(l, n, d, a, v)
Bajas == \E l \in Licencias : BorrarLicencia(l)
Circulacion == \E e \in Maquinas : MoverCirculacion(e)
Lecturas == \E u \in Encargados : LeerAviso(u)

NextL == \/ Altas \/ Renovaciones \/ Ediciones \/ Bajas \/ Circulacion \/ Lecturas
         \/ EmpezarBarrido \/ Barrer \/ AbortarBarrido \/ Entregar \/ NuevoDia

\* The ticker of the job runs while the process does, and so does the delivery.
SpecL == InitL /\ [][NextL]_varsL
         /\ WF_varsL(EmpezarBarrido) /\ WF_varsL(Barrer) /\ WF_varsL(Entregar)

-----------------------------------------------------------------------------
(* Properties                                                                *)

DosAvisosPorCiclo ==
    \A l \in Licencias : emitidos[l].previo <= 1 /\ emitidos[l].final <= 1 /\ emitidos[l].ajenos = 0

CampanaConMotivo ==
    (porEntregar = <<>> /\ campana # {}) =>
        \E l \in Cargadas : Estado(licencias[l]) \in {"VENCIDA", "POR_VENCER"}

\* RF-03.14: an expiry is announced once in advance and once on its day, also
\* when the process stops in the middle of a sweep, and nobody is told about a
\* date that is no longer the one in force. A notice that is still open, with
\* nothing on its way, has a licence behind it that is POR_VENCER or VENCIDA,
\* if only of a machine that was retired.
AvisosConMotivo == DosAvisosPorCiclo /\ CampanaConMotivo

\* No expiry passes in silence: while the licence and its machine stay, the
\* Admins are told of the day.
TodaVencidaSeAvisa ==
    \A l \in Licencias :
      LET callada == /\ l \in Cargadas /\ licencias[l].vence # Nada /\ licencias[l].vence <= hoy
                     /\ licencias[l].equipo \in circulan
                     /\ licencias[l].vence \notin emitidos[l].dias IN
      callada ~> ~callada
=============================================================================
